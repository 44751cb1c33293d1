-------------------------- MODULE ReliabilityProofs --------------------------
(***************************************************************************)
(* Scores, the ledger and the host's profile, proved for any instance.     *)
(* Ledgered ties each entry to the seat it names; with it, a mark and its  *)
(* correction change the score, the counter and the set of absences that   *)
(* stand by the same amount.  Unrecorded does that for slot losses: an     *)
(* event that is about to be recorded has not been recorded before.        *)
(* The last part is about places.  A departure or an absence gives up the  *)
(* place its loss stands for, and an acceptance makes good for as many     *)
(* losses as it takes places, or for all.  A correction that comes after   *)
(* its loss expired takes a place and voids nothing; by then no departure  *)
(* is missed any more (ExpiryEndsAll) and the pending losses are those of  *)
(* absent players (AbsencesMarked), whose seats fit into the places with   *)
(* all the others (SeatsFit).                                              *)
(***************************************************************************)
EXTENDS Reliability, FiniteSetTheorems, TLAPS

-----------------------------------------------------------------------------
(* Finiteness and types of the operators. *)

\* There are finitely many seats and finitely many events a loss can stem from.
LEMMA FiniteData == IsFiniteSet(Seats) /\ IsFiniteSet(LossEvents)
<1>1. IsFiniteSet(Apps) /\ IsFiniteSet(Persons) /\ MaxMarks \in Nat
  BY ConstantsAssumption
<1>2. IsFiniteSet(Apps \X Persons) BY <1>1, FS_Product
<1>3. IsFiniteSet(Seats) BY <1>2, FS_Subset DEF Seats
<1>4. IsFiniteSet(0 .. MaxMarks) BY <1>1, FS_Interval
<1>5. IsFiniteSet(LossEvents) BY <1>3, <1>4, FS_Product DEF LossEvents
<1>6. QED BY <1>3, <1>5

\* A seat is its application and its member, and has a room.
LEMMA SeatParts ==
  ASSUME NEW s \in Seats
  PROVE  s[1] \in Apps /\ s[2] \in Persons /\ s = <<s[1], s[2]>> /\ RoomOf(s) \in Rooms
<1>1. s[1] \in Apps /\ s[2] \in Persons /\ s = <<s[1], s[2]>> BY DEF Seats
<1>2. QED BY <1>1, ConstantsAssumption DEF RoomOf

\* The account behind a member is a user or, for an unclaimed guest, Nil.
LEMMA UserTypes ==
  ASSUME TypeOK, NEW p \in Persons
  PROVE  UserOf(p) \in Users \cup {Nil}
BY DEF TypeOK, UserOf, Persons

\* A score stays between its ends, and is cut off only there.
LEMMA ClampedBounds ==
  ASSUME NEW x \in Int
  PROVE  /\ Clamped(x) \in 0 .. MaxScore
         /\ x <= MaxScore => Clamped(x) >= x
         /\ x > MaxScore => Clamped(x) = MaxScore
BY ConstantsAssumption DEF Clamped

\* The points of each reason.
LEMMA PointTypes ==
  ASSUME NEW reason \in Reasons
  PROVE  /\ Points(reason) \in Int
         /\ reason = "LATE_CANCEL" => Points(reason) = 0 - LatePenalty
         /\ reason = "NO_SHOW" => Points(reason) = 0 - NoShowPenalty
         /\ reason = "NO_SHOW_REVERSED" => Points(reason) = NoShowPenalty
<1>1. LatePenalty \in Nat /\ NoShowPenalty \in Nat BY ConstantsAssumption
<1>2. CASE reason = "LATE_CANCEL" BY <1>1, <1>2 DEF Points
<1>3. CASE reason = "NO_SHOW" BY <1>1, <1>3 DEF Points
<1>4. CASE reason = "NO_SHOW_REVERSED" BY <1>1, <1>4 DEF Points, ReversalPoints
<1>5. QED BY <1>2, <1>3, <1>4 DEF Reasons

StatsRows == [score : 0 .. MaxScore, streak : Nat, noShows : Nat]

\* A player's row after an adjustment, column by column.
LEMMA AdjustedRow ==
  ASSUME NEW row \in StatsRows, NEW reason \in Reasons
  PROVE  /\ AdjustedStats(row, reason) \in StatsRows
         /\ AdjustedStats(row, reason).score = Clamped(row.score + Points(reason))
         /\ reason = "LATE_CANCEL" => AdjustedStats(row, reason).noShows = row.noShows
         /\ reason = "NO_SHOW" => AdjustedStats(row, reason).noShows = row.noShows + 1
         /\ reason = "NO_SHOW_REVERSED" =>
              AdjustedStats(row, reason).noShows = OneFewer(row.noShows)
<1>1. row.score \in Int /\ row.streak \in Nat /\ row.noShows \in Nat
  BY ConstantsAssumption DEF StatsRows
<1>2. Clamped(row.score + Points(reason)) \in 0 .. MaxScore
  BY <1>1, PointTypes, ClampedBounds
<1>3. OneFewer(row.noShows) \in Nat BY <1>1 DEF OneFewer
<1>4. AdjustedStats(row, reason).score = Clamped(row.score + Points(reason))
  BY DEF AdjustedStats
<1>5. AdjustedStats(row, reason).streak \in Nat BY <1>1 DEF AdjustedStats
<1>6. CASE reason = "LATE_CANCEL" BY <1>1, <1>2, <1>4, <1>5, <1>6 DEF AdjustedStats, StatsRows
<1>7. CASE reason = "NO_SHOW" BY <1>1, <1>2, <1>4, <1>5, <1>7 DEF AdjustedStats, StatsRows
<1>8. CASE reason = "NO_SHOW_REVERSED"
  BY <1>1, <1>2, <1>3, <1>4, <1>5, <1>8 DEF AdjustedStats, StatsRows
<1>9. QED BY <1>6, <1>7, <1>8 DEF Reasons

\* An adjustment does nothing, or writes one new entry and one row.
LEMMA AdjustEffect ==
  ASSUME TypeOK, NEW s \in Seats, NEW reason \in Reasons, NEW mark \in 0 .. MaxMarks,
         Adjust(s, reason, mark)
  PROVE  LET u == UserOf(s[2])
             e == [user |-> u, reason |-> reason, seat |-> s, mark |-> mark]
         IN  /\ stats' \in [Users -> StatsRows]
             /\ ledger' \subseteq Entry
             /\ u = Nil \/ e \in ledger => stats' = stats /\ ledger' = ledger
             /\ ~ (u = Nil \/ e \in ledger) =>
                  /\ u \in Users /\ e \in Entry
                  /\ stats' = [stats EXCEPT ![u] = AdjustedStats(stats[u], reason)]
                  /\ ledger' = ledger \cup {e}
<1> DEFINE u == UserOf(s[2])
           e == [user |-> u, reason |-> reason, seat |-> s, mark |-> mark]
<1>1. u \in Users \cup {Nil} BY SeatParts, UserTypes
<1>2. stats \in [Users -> StatsRows] /\ ledger \subseteq Entry BY DEF TypeOK, StatsRows
<1>3. CASE u = Nil \/ e \in ledger BY <1>2, <1>3 DEF Adjust
<1>4. CASE ~ (u = Nil \/ e \in ledger)
  <2>1. u \in Users BY <1>1, <1>4
  <2>2. e \in Entry BY <2>1 DEF Entry
  <2>3. stats' = [stats EXCEPT ![u] = AdjustedStats(stats[u], reason)] /\ ledger' = ledger \cup {e}
    BY <1>4 DEF Adjust
  <2>4. AdjustedStats(stats[u], reason) \in StatsRows BY <1>2, <2>1, AdjustedRow
  <2>5. QED BY <1>2, <1>4, <2>1, <2>2, <2>3, <2>4
<1>5. QED BY <1>3, <1>4

-----------------------------------------------------------------------------
(* Types are preserved. *)

\* Recording losses keeps the losses and the profiles well typed.
LEMMA RecordTypes ==
  ASSUME TypeOK, NEW r \in Rooms, NEW events \in SUBSET LossEvents, NEW available,
         RecordLosses(r, events, available)
  PROVE  /\ loss' \in [LossEvents -> [state : LossState, at : 0 .. MaxTime]]
         /\ hosting' \in [Users -> [lost : Nat, recovered : Nat]]
<1>1. Host[r] \in Users BY ConstantsAssumption
<1>2. LostSlots(events) \in Nat
  BY FiniteData, FS_Subset, FS_CardinalityType DEF LostSlots
<1>3. CASE Lossy(r, available)
  <2>1. loss' \in [LossEvents -> [state : LossState, at : 0 .. MaxTime]]
    BY <1>3 DEF RecordLosses, TypeOK, LossState
  <2>2. hosting \in [Users -> [lost : Nat, recovered : Nat]] BY DEF TypeOK
  <2>3. hosting' = [hosting EXCEPT ![Host[r]].lost = @ + LostSlots(events)]
    BY <1>3 DEF RecordLosses
  <2>4. hosting' \in [Users -> [lost : Nat, recovered : Nat]] BY <1>1, <1>2, <2>2, <2>3
  <2>5. QED BY <2>1, <2>4
<1>4. CASE ~ Lossy(r, available)
  BY <1>4 DEF RecordLosses, TypeOK
<1>5. QED BY <1>3, <1>4

\* A refill has an end in the clock's range or none.
LEMMA RefillTypes ==
  ASSUME TypeOK, NEW r \in Rooms
  PROVE  /\ Activated(r) \in [active : BOOLEAN, until : Nat \cup {Nil}]
         /\ Stopped(r) \in [active : BOOLEAN, until : Nat \cup {Nil}]
         /\ \A x \in {Activated(r), Stopped(r)} :
              [refill EXCEPT ![r] = x] \in [Rooms -> [active : BOOLEAN, until : Nat \cup {Nil}]]
<1>1. WindowEnd(r) \in Nat BY ConstantsAssumption DEF WindowEnd
<1>2. Activated(r) \in [active : BOOLEAN, until : Nat \cup {Nil}] BY <1>1 DEF Activated, RefillState
<1>3. Stopped(r) \in [active : BOOLEAN, until : Nat \cup {Nil}] BY DEF Stopped, RefillState, TypeOK
<1>4. QED BY <1>2, <1>3 DEF TypeOK

\* Giving up seats keeps seats, losses, profiles and refill well typed.
LEMMA GiveTypes ==
  ASSUME TypeOK, NEW r \in Rooms, NEW freed \in SUBSET Seats, NEW status \in SeatStatus,
         NEW urgent, Give(r, freed, status, urgent)
  PROVE  /\ seat' \in [Seats -> SeatStatus]
         /\ loss' \in [LossEvents -> [state : LossState, at : 0 .. MaxTime]]
         /\ hosting' \in [Users -> [lost : Nat, recovered : Nat]]
         /\ refill' \in [Rooms -> [active : BOOLEAN, until : Nat \cup {Nil}]]
<1> DEFINE st == [s \in Seats |-> IF s \in freed THEN status ELSE seat[s]]
           available == FreeWith(st, attendance, r)
<1>1. seat' = st /\ RecordLosses(r, freed \X {0}, available) /\ RefillAfterLoss(r, urgent, available)
  BY DEF Give
<1>2. seat' \in [Seats -> SeatStatus] BY <1>1 DEF TypeOK
<1>3. freed \X {0} \in SUBSET LossEvents BY ConstantsAssumption DEF LossEvents
<1>4. /\ loss' \in [LossEvents -> [state : LossState, at : 0 .. MaxTime]]
      /\ hosting' \in [Users -> [lost : Nat, recovered : Nat]]
  BY <1>1, <1>3, RecordTypes
<1>5. refill' \in [Rooms -> [active : BOOLEAN, until : Nat \cup {Nil}]]
  BY <1>1, RefillTypes DEF RefillAfterLoss, TypeOK
<1>6. QED BY <1>2, <1>4, <1>5

\* A new status leaves a room a room.
LEMMA StatusTypes ==
  ASSUME TypeOK, NEW r \in Rooms, NEW status \in RoomStatus,
         room' = [room EXCEPT ![r].status = status]
  PROVE  room' \in [Rooms -> RoomRow]
<1>1. room \in [Rooms -> RoomRow] BY DEF TypeOK
<1>2. [room[r] EXCEPT !.status = status] \in RoomRow BY <1>1 DEF RoomRow
<1>3. room' = [room EXCEPT ![r] = [room[r] EXCEPT !.status = status]] OBVIOUS
<1>4. QED BY <1>1, <1>2, <1>3

\* Every action keeps the types.
LEMMA TypeStep ==
  ASSUME TypeOK, [Next]_vars
  PROVE  TypeOK'
<1> USE DEF seating
<1>1. CASE UNCHANGED vars BY <1>1 DEF TypeOK, vars
<1>2. ASSUME NEW r \in Rooms, NEW places \in Places, NEW reserved \in 0 .. MaxReserved,
             NEW emergency \in BOOLEAN, NEW material \in BOOLEAN,
             UpdateRoom(r, places, reserved, emergency, material)
      PROVE  TypeOK'
  <2> DEFINE row == [room[r] EXCEPT !.places = places, !.reserved = reserved,
                                    !.emergency = emergency]
  <2>1. room \in [Rooms -> RoomRow] BY DEF TypeOK
  <2>2. row \in RoomRow BY <2>1 DEF RoomRow
  <2>3. room' = [room EXCEPT ![r] = row] BY <1>2, <2>1 DEF UpdateRoom
  <2>4. room' \in [Rooms -> RoomRow]
    <3> HIDE DEF row
    <3>1. QED BY <2>1, <2>2, <2>3
  <2>5. moved' \subseteq Seats BY <1>2 DEF UpdateRoom, MakeChangeLogs, TypeOK, Seated, SeatsOf
  <2>6. QED BY <1>2, <2>4, <2>5 DEF UpdateRoom, TypeOK
<1>3. ASSUME NEW r \in Rooms, CancelRoom(r) PROVE TypeOK'
  <2>1. app' \in [Apps -> AppStatus] BY <1>3 DEF CancelRoom, CloseApps, TypeOK, AppStatus
  <2>2. seat' \in [Seats -> SeatStatus] BY <1>3 DEF CancelRoom, TypeOK, SeatStatus
  <2>3. refill' \in [Rooms -> [active : BOOLEAN, until : Nat \cup {Nil}]]
    BY <1>3, RefillTypes DEF CancelRoom
  <2>4. room' \in [Rooms -> RoomRow]
    BY <1>3, StatusTypes DEF CancelRoom, RoomStatus
  <2>5. QED BY <1>3, <2>1, <2>2, <2>3, <2>4 DEF CancelRoom, TypeOK
<1>4. ASSUME NEW r \in Rooms, StartRoom(r) PROVE TypeOK'
  <2>1. app' \in [Apps -> AppStatus] BY <1>4 DEF StartRoom, CloseApps, TypeOK, AppStatus
  <2>2. room' \in [Rooms -> RoomRow]
    BY <1>4, StatusTypes DEF StartRoom, RoomStatus
  <2>3. QED BY <1>4, <2>1, <2>2 DEF StartRoom, TypeOK
<1>5. ASSUME NEW r \in Rooms, Complete(r) PROVE TypeOK'
  <2>1. ASSUME NEW u \in Users PROVE Cardinality(Present(r, u)) \in Nat
    BY FiniteData, FS_Subset, FS_CardinalityType DEF Present, Seated, SeatsOf
  <2>2. stats' = [u \in Users |-> [stats[u] EXCEPT !.streak = @ + Cardinality(Present(r, u))]]
    BY <1>5 DEF Complete
  <2>3. stats \in [Users -> [score : 0 .. MaxScore, streak : Nat, noShows : Nat]] BY DEF TypeOK
  <2>4. stats' \in [Users -> [score : 0 .. MaxScore, streak : Nat, noShows : Nat]]
    BY <2>1, <2>2, <2>3
  <2>5. room' \in [Rooms -> RoomRow]
    <3>1. room' = [room EXCEPT ![r].status = "COMPLETED"] BY <1>5 DEF Complete
    <3>2. QED BY <3>1, StatusTypes DEF RoomStatus
  <2>6. QED BY <1>5, <2>4, <2>5 DEF Complete, TypeOK
<1>6. ASSUME NEW r \in Rooms, ActivateRefill(r) \/ DisableRefill(r) PROVE TypeOK'
  <2>1. refill' \in [Rooms -> [active : BOOLEAN, until : Nat \cup {Nil}]]
    BY <1>6, RefillTypes DEF ActivateRefill, DisableRefill
  <2>2. QED BY <1>6, <2>1 DEF ActivateRefill, DisableRefill, TypeOK
<1>7. ASSUME NEW r \in Rooms, ExpireRefill(r) PROVE TypeOK'
  <2>1. loss' \in [LossEvents -> [state : LossState, at : 0 .. MaxTime]]
    BY <1>7 DEF ExpireRefill, LossWith, TypeOK, LossState
  <2>2. QED BY <1>7, <2>1, RefillTypes DEF ExpireRefill, TypeOK
<1>8. ASSUME NEW a \in Apps, NEW recovered \in SUBSET PendingLosses(Venue[a]), Accept(a, recovered)
      PROVE  TypeOK'
  <2>1. app' \in [Apps -> AppStatus] BY <1>8 DEF Accept, TypeOK, AppStatus
  <2>2. seat' \in [Seats -> SeatStatus] BY <1>8 DEF Accept, TypeOK, SeatStatus
  <2>3. loss' \in [LossEvents -> [state : LossState, at : 0 .. MaxTime]]
    BY <1>8 DEF Accept, LossWith, TypeOK, LossState
  <2>4. Venue[a] \in Rooms /\ Host[Venue[a]] \in Users BY ConstantsAssumption
  <2>5. Cardinality(recovered) \in Nat
    BY FiniteData, FS_Subset, FS_CardinalityType DEF PendingLosses
  <2>6. hosting \in [Users -> [lost : Nat, recovered : Nat]] BY DEF TypeOK
  <2>7. hosting' = [hosting EXCEPT ![Host[Venue[a]]].recovered = @ + Cardinality(recovered)]
    BY <1>8 DEF Accept
  <2>8. hosting' \in [Users -> [lost : Nat, recovered : Nat]] BY <2>4, <2>5, <2>6, <2>7
  <2>9. refill' \in [Rooms -> [active : BOOLEAN, until : Nat \cup {Nil}]]
    BY <1>8, <2>4, RefillTypes DEF Accept, RefillWhenSeated, TypeOK
  <2>10. QED BY <1>8, <2>1, <2>2, <2>3, <2>8, <2>9 DEF Accept, TypeOK
<1>9. ASSUME NEW a \in Apps, CloseApp(a) PROVE TypeOK'
  BY <1>9 DEF CloseApp, TypeOK, AppStatus
<1>10. ASSUME NEW s \in Seats, CancelSeat(s) PROVE TypeOK'
  <2>1. LeavingWith(s) \in SUBSET Seats BY DEF LeavingWith
  <2>2. /\ seat' \in [Seats -> SeatStatus]
        /\ loss' \in [LossEvents -> [state : LossState, at : 0 .. MaxTime]]
        /\ hosting' \in [Users -> [lost : Nat, recovered : Nat]]
        /\ refill' \in [Rooms -> [active : BOOLEAN, until : Nat \cup {Nil}]]
    BY <1>10, <2>1, SeatParts, GiveTypes DEF CancelSeat, SeatStatus
  <2>3. /\ stats' \in [Users -> [score : 0 .. MaxScore, streak : Nat, noShows : Nat]]
        /\ ledger' \subseteq Entry
    <3>1. CASE IsLate(s)
      <4>1. Adjust(s, "LATE_CANCEL", 0) BY <1>10, <3>1 DEF CancelSeat
      <4>2. "LATE_CANCEL" \in Reasons /\ 0 \in 0 .. MaxMarks BY ConstantsAssumption DEF Reasons
      <4>3. QED BY <4>1, <4>2, AdjustEffect DEF StatsRows
    <3>2. CASE ~ IsLate(s) BY <1>10, <3>2 DEF CancelSeat, TypeOK
    <3>3. QED BY <3>1, <3>2
  <2>4. QED BY <1>10, <2>2, <2>3 DEF CancelSeat, TypeOK
<1>11. ASSUME NEW s \in Seats, RemoveSeat(s) PROVE TypeOK'
  <2>1. {s} \in SUBSET Seats OBVIOUS
  <2>2. /\ seat' \in [Seats -> SeatStatus]
        /\ loss' \in [LossEvents -> [state : LossState, at : 0 .. MaxTime]]
        /\ hosting' \in [Users -> [lost : Nat, recovered : Nat]]
        /\ refill' \in [Rooms -> [active : BOOLEAN, until : Nat \cup {Nil}]]
    BY <1>11, <2>1, SeatParts, GiveTypes DEF RemoveSeat, SeatStatus
  <2>3. QED BY <1>11, <2>2 DEF RemoveSeat, TypeOK
<1>12. ASSUME NEW s \in Seats, MarkNoShow(s) PROVE TypeOK'
  <2> DEFINE n == marks[s] + 1
             available == FreeWith(seat, Marked(s, "NO_SHOW"), RoomOf(s))
  <2>1. n \in 0 .. MaxMarks BY <1>12, ConstantsAssumption DEF MarkNoShow, TypeOK
  <2>2. attendance' \in [Seats -> Attendance] BY <1>12 DEF MarkNoShow, Marked, TypeOK, Attendance
  <2>3. marks' \in [Seats -> 0 .. MaxMarks] BY <1>12, <2>1 DEF MarkNoShow, AppendAttendanceLog, TypeOK
  <2>4. /\ stats' \in [Users -> [score : 0 .. MaxScore, streak : Nat, noShows : Nat]]
        /\ ledger' \subseteq Entry
    <3>1. Adjust(s, "NO_SHOW", n) /\ "NO_SHOW" \in Reasons BY <1>12 DEF MarkNoShow, Reasons
    <3>2. QED BY <2>1, <3>1, AdjustEffect DEF StatsRows
  <2>5. /\ loss' \in [LossEvents -> [state : LossState, at : 0 .. MaxTime]]
        /\ hosting' \in [Users -> [lost : Nat, recovered : Nat]]
    <3>1. {<<s, n>>} \in SUBSET LossEvents BY <2>1 DEF LossEvents
    <3>2. RecordLosses(RoomOf(s), {<<s, n>>}, available) BY <1>12 DEF MarkNoShow
    <3>3. QED BY <3>1, <3>2, SeatParts, RecordTypes
  <2>6. refill' \in [Rooms -> [active : BOOLEAN, until : Nat \cup {Nil}]]
    BY <1>12, SeatParts, RefillTypes DEF MarkNoShow, RefillAfterLoss, TypeOK
  <2>7. QED BY <1>12, <2>2, <2>3, <2>4, <2>5, <2>6 DEF MarkNoShow, TypeOK
<1>13. ASSUME NEW s \in Seats, MarkPresent(s) PROVE TypeOK'
  <2>1. attendance' \in [Seats -> Attendance] BY <1>13 DEF MarkPresent, Marked, TypeOK, Attendance
  <2>2. marks[s] \in 0 .. MaxMarks BY DEF TypeOK
  <2>3. CASE Reverses(s)
    <3>1. /\ stats' \in [Users -> [score : 0 .. MaxScore, streak : Nat, noShows : Nat]]
          /\ ledger' \subseteq Entry
      <4>1. Adjust(s, "NO_SHOW_REVERSED", marks[s]) /\ "NO_SHOW_REVERSED" \in Reasons
        BY <1>13, <2>3 DEF MarkPresent, Reasons
      <4>2. QED BY <2>2, <4>1, AdjustEffect DEF StatsRows
    <3>2. /\ loss' \in [LossEvents -> [state : LossState, at : 0 .. MaxTime]]
          /\ hosting' \in [Users -> [lost : Nat, recovered : Nat]]
      <4>1. VoidLoss(RoomOf(s), <<s, LatestMark(s)>>) BY <1>13, <2>3 DEF MarkPresent
      <4>2. loss' \in [LossEvents -> [state : LossState, at : 0 .. MaxTime]]
        <5>1. loss \in [LossEvents -> [state : LossState, at : 0 .. MaxTime]]
              /\ "VOIDED" \in LossState
          BY DEF TypeOK, LossState
        <5>2. loss' = loss \/ \E events : loss' = LossWith(events, "VOIDED")
          BY <4>1 DEF VoidLoss
        <5>3. QED BY <5>1, <5>2 DEF LossWith
      <4>3. hosting \in [Users -> [lost : Nat, recovered : Nat]] BY DEF TypeOK
      <4>4. Host[RoomOf(s)] \in Users BY SeatParts, ConstantsAssumption
      <4>5. hosting' = hosting \/ hosting' = [hosting EXCEPT ![Host[RoomOf(s)]].lost = OneFewer(@)]
        BY <4>1 DEF VoidLoss
      <4>6. OneFewer(hosting[Host[RoomOf(s)]].lost) \in Nat BY <4>3, <4>4 DEF OneFewer
      <4>7. QED BY <4>2, <4>3, <4>4, <4>5, <4>6
    <3>3. refill' \in [Rooms -> [active : BOOLEAN, until : Nat \cup {Nil}]]
      <4>1. refill' = refill \/ refill' = [refill EXCEPT ![RoomOf(s)] = Stopped(RoomOf(s))]
        BY <1>13, <2>3 DEF MarkPresent, RefillWhenSeated
      <4>2. RoomOf(s) \in Rooms BY SeatParts
      <4>3. [refill EXCEPT ![RoomOf(s)] = Stopped(RoomOf(s))]
              \in [Rooms -> [active : BOOLEAN, until : Nat \cup {Nil}]]
        BY <4>2, RefillTypes
      <4>4. QED BY <4>1, <4>3 DEF TypeOK
    <3>4. QED BY <1>13, <2>1, <3>1, <3>2, <3>3 DEF MarkPresent, TypeOK
  <2>4. CASE ~ Reverses(s) BY <1>13, <2>1, <2>4 DEF MarkPresent, TypeOK
  <2>5. QED BY <2>3, <2>4
<1>14. ASSUME NEW g \in Guests, NEW u \in Users, ClaimGuest(g, u) PROVE TypeOK'
  BY <1>14 DEF ClaimGuest, TypeOK
<1>15. CASE Tick BY <1>15, ConstantsAssumption DEF Tick, TypeOK
<1>16. QED
  BY <1>1, <1>2, <1>3, <1>4, <1>5, <1>6, <1>7, <1>8, <1>9, <1>10, <1>11, <1>12, <1>13, <1>14, <1>15
  DEF Next, RoomStep, AppStep, SeatStep

\* The initial state is well typed.
LEMMA InitTypes == Init => TypeOK
BY ConstantsAssumption
DEF Init, TypeOK, RoomRow, RoomStatus, AppStatus, SeatStatus, Attendance, LossState, NoLoss

\* Scores stay between 0 and their maximum, counters never fall below 0, and
\* every row the services write has the type its table asks for.
THEOREM TypeCorrect == Spec => []TypeOK
<1>1. QED BY InitTypes, TypeStep, PTL DEF Spec

-----------------------------------------------------------------------------
(* Scores, counters and the ledger. *)

\* Each entry belongs to the account of its seat and to a mark the seat has had;
\* what has been corrected is corrected no more until the next mark; and a
\* registered player who is marked absent stands charged with it.
Ledgered ==
  /\ IsFiniteSet(ledger)
  /\ \A e \in ledger : e.user = UserOf(e.seat[2]) /\ e.mark <= marks[e.seat]
  /\ \A e \in ledger : e.reason = "NO_SHOW_REVERSED" =>
       attendance[e.seat] = "PRESENT" \/ e.mark < marks[e.seat]
  /\ \A s \in Seats : attendance[s] = "NO_SHOW" /\ s[2] \in Users => s \in Charged(s[2])

LedgerInv ==
  /\ TypeOK
  /\ Ledgered
  /\ NeverOvercharged
  /\ NoShowsAreCharged
  /\ ReversalsAnswerPenalties

\* What a penalty or a correction does to a score with its outstanding charges.
LEMMA Balanced ==
  ASSUME NEW score \in 0 .. MaxScore, NEW late \in Nat, NEW charged \in Nat,
         score + LatePenalty * late + NoShowPenalty * charged >= MaxScore
  PROVE  /\ Clamped(score + (0 - LatePenalty))
              + LatePenalty * (late + 1) + NoShowPenalty * charged >= MaxScore
         /\ Clamped(score + (0 - NoShowPenalty))
              + LatePenalty * late + NoShowPenalty * (charged + 1) >= MaxScore
         /\ Clamped(score + NoShowPenalty)
              + LatePenalty * late + NoShowPenalty * charged >= MaxScore
         /\ charged > 0 =>
              Clamped(score + NoShowPenalty)
                + LatePenalty * late + NoShowPenalty * (charged - 1) >= MaxScore
<1> DEFINE L == LatePenalty * late
           N == NoShowPenalty * charged
<1>1. LatePenalty \in Nat /\ NoShowPenalty \in Nat /\ MaxScore \in Nat BY ConstantsAssumption
<1>2. L \in Nat /\ N \in Nat BY <1>1
<1>3. LatePenalty * (late + 1) = L + LatePenalty BY <1>1
<1>4. NoShowPenalty * (charged + 1) = N + NoShowPenalty BY <1>1
<1>5. charged > 0 => NoShowPenalty * (charged - 1) = N - NoShowPenalty /\ N - NoShowPenalty >= 0
  <2>1. SUFFICES ASSUME charged > 0
                 PROVE  NoShowPenalty * (charged - 1) = N - NoShowPenalty /\ N - NoShowPenalty >= 0
    OBVIOUS
  <2>2. charged - 1 \in Nat BY <2>1
  <2>3. NoShowPenalty * (charged - 1) \in Nat BY <1>1, <2>2
  <2>4. NoShowPenalty * (charged - 1) = N - NoShowPenalty BY <1>1
  <2>5. QED BY <2>3, <2>4
<1>6. score + L + N >= MaxScore OBVIOUS
<1>7. Clamped(score + (0 - LatePenalty)) + (L + LatePenalty) + N >= MaxScore
  <2>1. score + (0 - LatePenalty) \in Int /\ score + (0 - LatePenalty) <= MaxScore BY <1>1
  <2>2. /\ Clamped(score + (0 - LatePenalty)) \in 0 .. MaxScore
        /\ Clamped(score + (0 - LatePenalty)) >= score + (0 - LatePenalty)
    BY <2>1, ClampedBounds
  <2>3. QED BY <1>1, <1>2, <1>6, <2>2
<1>8. Clamped(score + (0 - NoShowPenalty)) + L + (N + NoShowPenalty) >= MaxScore
  <2>1. score + (0 - NoShowPenalty) \in Int /\ score + (0 - NoShowPenalty) <= MaxScore BY <1>1
  <2>2. /\ Clamped(score + (0 - NoShowPenalty)) \in 0 .. MaxScore
        /\ Clamped(score + (0 - NoShowPenalty)) >= score + (0 - NoShowPenalty)
    BY <2>1, ClampedBounds
  <2>3. QED BY <1>1, <1>2, <1>6, <2>2
<1>9. /\ Clamped(score + NoShowPenalty) \in 0 .. MaxScore
      /\ Clamped(score + NoShowPenalty) = MaxScore \/ Clamped(score + NoShowPenalty) >= score + NoShowPenalty
  BY <1>1, ClampedBounds
<1>10. Clamped(score + NoShowPenalty) + L + N >= MaxScore BY <1>1, <1>2, <1>6, <1>9
<1>11. charged > 0 => Clamped(score + NoShowPenalty) + L + (N - NoShowPenalty) >= MaxScore
  BY <1>1, <1>2, <1>5, <1>6, <1>9
<1>12. QED BY <1>3, <1>4, <1>5, <1>7, <1>8, <1>10, <1>11

\* Charges can be counted.
LEMMA ChargesFinite ==
  ASSUME IsFiniteSet(ledger), NEW u
  PROVE  /\ IsFiniteSet(Late(u)) /\ Cardinality(Late(u)) \in Nat
         /\ IsFiniteSet(Charged(u)) /\ Cardinality(Charged(u)) \in Nat
<1>1. IsFiniteSet(Late(u)) BY FS_Subset DEF Late
<1>2. IsFiniteSet(Charged(u)) BY FiniteData, FS_Subset DEF Charged
<1>3. QED BY <1>1, <1>2, FS_CardinalityType

\* Steps that move no score and no attendance.
LEMMA LedgerFrame ==
  ASSUME LedgerInv, TypeOK', UNCHANGED <<ledger, attendance, marks, claimedBy>>,
         \A u \in Users : stats'[u].score = stats[u].score /\ stats'[u].noShows = stats[u].noShows
  PROVE  LedgerInv'
<1>1. \A u : Charged(u)' = Charged(u) /\ Late(u)' = Late(u) BY DEF Charged, Late
<1>2. Claimants' = Claimants BY DEF Claimants
<1>3. Ledgered' BY <1>1 DEF LedgerInv, Ledgered, UserOf
<1>4. NeverOvercharged' BY <1>1 DEF LedgerInv, NeverOvercharged
<1>5. NoShowsAreCharged' BY <1>1, <1>2 DEF LedgerInv, NoShowsAreCharged
<1>6. ReversalsAnswerPenalties' BY DEF LedgerInv, ReversalsAnswerPenalties
<1>7. QED BY <1>3, <1>4, <1>5, <1>6 DEF LedgerInv

\* A late cancellation charges whoever gives up the seat, once.
LEMMA CancelSeatLedger ==
  ASSUME LedgerInv, TypeOK', NEW s \in Seats, CancelSeat(s)
  PROVE  LedgerInv'
<1>. PICK u : u = UserOf(s[2]) OBVIOUS
<1> DEFINE e == [user |-> u, reason |-> "LATE_CANCEL", seat |-> s, mark |-> 0]
<1>1. UNCHANGED <<attendance, marks, claimedBy>> BY DEF CancelSeat
<1>2. CASE ~ IsLate(s) BY <1>1, <1>2, LedgerFrame DEF CancelSeat
<1>3. CASE IsLate(s)
  <2>1. Adjust(s, "LATE_CANCEL", 0) BY <1>3 DEF CancelSeat
  <2>2. TypeOK /\ "LATE_CANCEL" \in Reasons /\ 0 \in 0 .. MaxMarks
    BY ConstantsAssumption DEF LedgerInv, Reasons
  <2>3. CASE u = Nil \/ e \in ledger
    <3>1. UNCHANGED <<stats, ledger>> BY <2>1, <2>2, <2>3, AdjustEffect
    <3>2. QED BY <1>1, <3>1, LedgerFrame
  <2>4. CASE ~ (u = Nil \/ e \in ledger)
    <3>1. /\ u \in Users /\ ledger' = ledger \cup {e}
          /\ stats' = [stats EXCEPT ![u] = AdjustedStats(stats[u], "LATE_CANCEL")]
      BY <2>1, <2>2, <2>4, AdjustEffect
    <3>2. stats \in [Users -> StatsRows] BY <2>2 DEF TypeOK, StatsRows
    <3>3. /\ stats'[u].score = Clamped(stats[u].score + (0 - LatePenalty))
          /\ stats'[u].noShows = stats[u].noShows
          /\ \A v \in Users \ {u} : stats'[v] = stats[v]
      BY <2>2, <3>1, <3>2, AdjustedRow, PointTypes
    <3>4. \A v : Charged(v)' = Charged(v) BY <1>1, <3>1 DEF Charged
    <3>5. Late(u)' = Late(u) \cup {e} /\ e \notin Late(u) BY <2>4, <3>1 DEF Late
    <3>6. \A v \in Users \ {u} : Late(v)' = Late(v) BY <3>1 DEF Late
    <3>7. IsFiniteSet(ledger) /\ IsFiniteSet(ledger') BY <3>1, FS_AddElement DEF LedgerInv, Ledgered
    <3>8. Cardinality(Late(u)') = Cardinality(Late(u)) + 1
      BY <3>5, <3>7, ChargesFinite, FS_AddElement
    <3>9. Ledgered'
      <4>1. 0 <= marks[s] BY <2>2 DEF TypeOK
      <4>2. QED BY <1>1, <3>1, <3>4, <3>7, <4>1 DEF LedgerInv, Ledgered, UserOf
    <3>10. NeverOvercharged'
      <4>1. SUFFICES ASSUME NEW v \in Users
                     PROVE  stats'[v].score + LatePenalty * Cardinality(Late(v)')
                              + NoShowPenalty * Cardinality(Charged(v)') >= MaxScore
        BY DEF NeverOvercharged
      <4>2. stats[v].score + LatePenalty * Cardinality(Late(v))
              + NoShowPenalty * Cardinality(Charged(v)) >= MaxScore
        BY DEF LedgerInv, NeverOvercharged
      <4>3. CASE v = u
        <5>1. stats[v].score \in 0 .. MaxScore BY <3>2 DEF StatsRows
        <5>2. Cardinality(Late(v)) \in Nat /\ Cardinality(Charged(v)) \in Nat
          BY <3>7, ChargesFinite
        <5>3. Clamped(stats[v].score + (0 - LatePenalty)) + LatePenalty * (Cardinality(Late(v)) + 1)
                + NoShowPenalty * Cardinality(Charged(v)) >= MaxScore
          BY <4>2, <5>1, <5>2, Balanced
        <5>4. QED BY <3>3, <3>4, <3>8, <4>3, <5>3
      <4>4. CASE v # u BY <3>3, <3>4, <3>6, <4>2, <4>4
      <4>5. QED BY <4>3, <4>4
    <3>11. NoShowsAreCharged'
      BY <1>1, <3>3, <3>4 DEF LedgerInv, NoShowsAreCharged, Claimants
    <3>12. ReversalsAnswerPenalties' BY <3>1 DEF LedgerInv, ReversalsAnswerPenalties
    <3>13. QED BY <3>9, <3>10, <3>11, <3>12 DEF LedgerInv
  <2>5. QED BY <2>3, <2>4
<1>4. QED BY <1>2, <1>3

\* A mark charges the account of the seat, if it has one, for this mark only.
LEMMA MarkNoShowLedger ==
  ASSUME LedgerInv, TypeOK', NEW s \in Seats, MarkNoShow(s)
  PROVE  LedgerInv'
<1>. PICK u : u = UserOf(s[2]) OBVIOUS
<1>. PICK n : n = marks[s] + 1 OBVIOUS
<1> DEFINE e == [user |-> u, reason |-> "NO_SHOW", seat |-> s, mark |-> n]
<1>1. TypeOK /\ "NO_SHOW" \in Reasons BY DEF LedgerInv, Reasons
<1>2. marks[s] \in Nat /\ n \in 0 .. MaxMarks
  BY <1>1, ConstantsAssumption DEF MarkNoShow, TypeOK
<1>3. /\ attendance[s] # "NO_SHOW" /\ claimedBy' = claimedBy
      /\ attendance' = [attendance EXCEPT ![s] = "NO_SHOW"]
      /\ marks' = [marks EXCEPT ![s] = n]
      /\ Adjust(s, "NO_SHOW", n)
  BY DEF MarkNoShow, AppendAttendanceLog, CanMark, Marked
<1>4. attendance \in [Seats -> Attendance] /\ marks \in [Seats -> 0 .. MaxMarks]
      /\ ledger \subseteq Entry /\ stats \in [Users -> StatsRows]
  BY <1>1 DEF TypeOK, StatsRows
<1>5. \A f \in ledger : f.seat = s => f.mark < n BY <1>2, <1>4 DEF LedgerInv, Ledgered, Entry
<1>6. \A v : [user |-> v, reason |-> "NO_SHOW", seat |-> s, mark |-> n] \notin ledger BY <1>2, <1>5
<1>7. /\ u = Nil => stats' = stats /\ ledger' = ledger
      /\ u # Nil => /\ u \in Users /\ ledger' = ledger \cup {e}
                    /\ stats' = [stats EXCEPT ![u] = AdjustedStats(stats[u], "NO_SHOW")]
  BY <1>1, <1>2, <1>3, <1>6, AdjustEffect
<1>8. \A v : v # u \/ u = Nil => Charged(v)' = Charged(v)
  <2>1. SUFFICES ASSUME NEW v, v # u \/ u = Nil, NEW t \in Seats
                 PROVE  t \in Charged(v)' <=> t \in Charged(v)
    BY DEF Charged
  <2>2. CASE t = s BY <1>3, <1>4, <1>6, <1>7, <2>1, <2>2 DEF Charged
  <2>3. CASE t # s BY <1>3, <1>4, <1>7, <2>1, <2>3 DEF Charged
  <2>4. QED BY <2>2, <2>3
<1>9. s \notin Charged(u) BY <1>3 DEF Charged
<1>10. u # Nil => Charged(u)' = Charged(u) \cup {s}
  <2>1. SUFFICES ASSUME u # Nil, NEW t \in Seats
                 PROVE  t \in Charged(u)' <=> t \in Charged(u) \cup {s}
    BY DEF Charged
  <2>2. CASE t = s BY <1>3, <1>4, <1>7, <2>1, <2>2 DEF Charged
  <2>3. CASE t # s BY <1>3, <1>4, <1>7, <2>1, <2>3 DEF Charged
  <2>4. QED BY <2>2, <2>3
<1>11. \A v : Late(v)' = Late(v) BY <1>7 DEF Late
<1>12. IsFiniteSet(ledger) /\ IsFiniteSet(ledger')
  <2>1. IsFiniteSet(ledger) BY DEF LedgerInv, Ledgered
  <2>2. IsFiniteSet(ledger \cup {e}) BY <2>1, FS_AddElement
  <2>3. QED BY <1>7, <2>1, <2>2
<1>13. u # Nil => Cardinality(Charged(u)') = Cardinality(Charged(u)) + 1
  BY <1>9, <1>10, <1>12, ChargesFinite, FS_AddElement
<1>14. u # Nil => /\ stats'[u].score = Clamped(stats[u].score + (0 - NoShowPenalty))
                  /\ stats'[u].noShows = stats[u].noShows + 1
  BY <1>1, <1>4, <1>7, AdjustedRow, PointTypes
<1>15. \A v \in Users : v # u \/ u = Nil => stats'[v] = stats[v] BY <1>4, <1>7
<1>16. Ledgered'
  <2>1. \A f \in ledger' : f.user = UserOf(f.seat[2])' /\ f.mark <= marks'[f.seat]
    <3>1. SUFFICES ASSUME NEW f \in ledger'
                   PROVE  f.user = UserOf(f.seat[2])' /\ f.mark <= marks'[f.seat]
      OBVIOUS
    <3>2. UserOf(f.seat[2])' = UserOf(f.seat[2]) BY <1>3 DEF UserOf
    <3>3. CASE f \in ledger
      <4>1. f.user = UserOf(f.seat[2]) /\ f.mark <= marks[f.seat] /\ f.seat \in Seats
            /\ f.mark \in 0 .. MaxMarks
        BY <1>4, <3>3 DEF LedgerInv, Ledgered, Entry
      <4>2. QED BY <1>2, <1>3, <1>4, <3>2, <4>1
    <3>4. CASE f \notin ledger
      <4>1. f = e BY <1>7, <3>1, <3>4
      <4>2. QED BY <1>2, <1>3, <1>4, <3>2, <4>1
    <3>5. QED BY <3>3, <3>4
  <2>2. \A f \in ledger' : f.reason = "NO_SHOW_REVERSED" =>
          attendance'[f.seat] = "PRESENT" \/ f.mark < marks'[f.seat]
    <3>1. SUFFICES ASSUME NEW f \in ledger, f.reason = "NO_SHOW_REVERSED"
                   PROVE  attendance'[f.seat] = "PRESENT" \/ f.mark < marks'[f.seat]
      BY <1>7
    <3>2. CASE f.seat = s BY <1>3, <1>4, <1>5, <3>2
    <3>3. CASE f.seat # s BY <1>3, <1>4, <3>1, <3>3 DEF LedgerInv, Ledgered
    <3>4. QED BY <3>2, <3>3
  <2>3. \A t \in Seats : attendance'[t] = "NO_SHOW" /\ t[2] \in Users => t \in Charged(t[2])'
    <3>1. SUFFICES ASSUME NEW t \in Seats, attendance'[t] = "NO_SHOW", t[2] \in Users
                   PROVE  t \in Charged(t[2])'
      OBVIOUS
    <3>2. CASE t = s
      <4>1. u = s[2] /\ u # Nil BY <3>1, <3>2, ConstantsAssumption DEF UserOf
      <4>2. QED BY <1>10, <3>2, <4>1
    <3>3. CASE t # s
      <4>1. t \in Charged(t[2]) BY <1>3, <1>4, <3>1, <3>3 DEF LedgerInv, Ledgered
      <4>2. QED BY <1>8, <1>10, <4>1
    <3>4. QED BY <3>2, <3>3
  <2>4. QED BY <1>12, <2>1, <2>2, <2>3 DEF Ledgered
<1>17. NeverOvercharged'
  <2>1. SUFFICES ASSUME NEW v \in Users
                 PROVE  stats'[v].score + LatePenalty * Cardinality(Late(v)')
                          + NoShowPenalty * Cardinality(Charged(v)') >= MaxScore
    BY DEF NeverOvercharged
  <2>2. stats[v].score + LatePenalty * Cardinality(Late(v))
          + NoShowPenalty * Cardinality(Charged(v)) >= MaxScore
    BY DEF LedgerInv, NeverOvercharged
  <2>3. CASE v = u /\ u # Nil
    <3>1. stats[v].score \in 0 .. MaxScore BY <1>4 DEF StatsRows
    <3>2. Cardinality(Late(v)) \in Nat /\ Cardinality(Charged(v)) \in Nat BY <1>12, ChargesFinite
    <3>3. Clamped(stats[v].score + (0 - NoShowPenalty)) + LatePenalty * Cardinality(Late(v))
            + NoShowPenalty * (Cardinality(Charged(v)) + 1) >= MaxScore
      BY <2>2, <3>1, <3>2, Balanced
    <3>4. QED BY <1>11, <1>13, <1>14, <2>3, <3>3
  <2>4. CASE v # u \/ u = Nil BY <1>8, <1>11, <1>15, <2>2, <2>4
  <2>5. QED BY <2>3, <2>4
<1>18. NoShowsAreCharged'
  <2>1. Claimants' = Claimants BY <1>3 DEF Claimants
  <2>2. SUFFICES ASSUME NEW v \in Users
                 PROVE  /\ stats'[v].noShows <= Cardinality(Charged(v)')
                        /\ v \notin Claimants => stats'[v].noShows = Cardinality(Charged(v)')
    BY <2>1 DEF NoShowsAreCharged
  <2>3. /\ stats[v].noShows <= Cardinality(Charged(v))
        /\ v \notin Claimants => stats[v].noShows = Cardinality(Charged(v))
    BY DEF LedgerInv, NoShowsAreCharged
  <2>4. stats[v].noShows \in Nat /\ Cardinality(Charged(v)) \in Nat
    BY <1>4, <1>12, ChargesFinite DEF StatsRows
  <2>5. CASE v = u /\ u # Nil BY <1>13, <1>14, <2>3, <2>4, <2>5
  <2>6. CASE v # u \/ u = Nil BY <1>8, <1>15, <2>3, <2>6
  <2>7. QED BY <2>5, <2>6
<1>19. ReversalsAnswerPenalties' BY <1>7 DEF LedgerInv, ReversalsAnswerPenalties
<1>20. QED BY <1>16, <1>17, <1>18, <1>19 DEF LedgerInv

\* A correction takes back what the last mark charged.  For a registered player
\* that charge is in the ledger; for a guest claimed since it may not be.
LEMMA MarkPresentLedger ==
  ASSUME LedgerInv, TypeOK', NEW s \in Seats, MarkPresent(s)
  PROVE  LedgerInv'
<1>. PICK u : u = UserOf(s[2]) OBVIOUS
<1>. PICK n : n = marks[s] OBVIOUS
<1> DEFINE e == [user |-> u, reason |-> "NO_SHOW_REVERSED", seat |-> s, mark |-> n]
<1>1. TypeOK /\ "NO_SHOW_REVERSED" \in Reasons BY DEF LedgerInv, Reasons
<1>2. /\ attendance \in [Seats -> Attendance] /\ marks \in [Seats -> 0 .. MaxMarks]
      /\ ledger \subseteq Entry /\ stats \in [Users -> StatsRows] /\ n \in 0 .. MaxMarks
  BY <1>1 DEF TypeOK, StatsRows
<1>3. /\ marks' = marks /\ claimedBy' = claimedBy
      /\ attendance' = [attendance EXCEPT ![s] = "PRESENT"]
      /\ Reverses(s) => Adjust(s, "NO_SHOW_REVERSED", n)
      /\ ~ Reverses(s) => stats' = stats /\ ledger' = ledger
  BY DEF MarkPresent, Marked
<1>4. Reverses(s) => e \notin ledger
  BY <1>2, ConstantsAssumption DEF Reverses, LedgerInv, Ledgered
<1>5. /\ ~ Reverses(s) \/ u = Nil => stats' = stats /\ ledger' = ledger
      /\ Reverses(s) /\ u # Nil =>
           /\ u \in Users /\ ledger' = ledger \cup {e}
           /\ stats' = [stats EXCEPT ![u] = AdjustedStats(stats[u], "NO_SHOW_REVERSED")]
  BY <1>1, <1>2, <1>3, <1>4, AdjustEffect
<1>6. \A v : Charged(v)' = Charged(v) \ {s}
  <2>1. SUFFICES ASSUME NEW v, NEW t \in Seats
                 PROVE  t \in Charged(v)' <=> t \in Charged(v) \ {s}
    BY DEF Charged
  <2>2. CASE t = s BY <1>2, <1>3, <2>2 DEF Charged
  <2>3. CASE t # s BY <1>2, <1>3, <1>5, <2>3 DEF Charged
  <2>4. QED BY <2>2, <2>3
<1>7. ~ Reverses(s) => \A v : s \notin Charged(v) BY DEF Reverses, Charged
<1>8. \A v : s \in Charged(v) => v = u BY DEF Charged, LedgerInv, Ledgered
<1>9. \A v \in Users : ~ Reverses(s) \/ v # u => Charged(v)' = Charged(v) BY <1>6, <1>7, <1>8
<1>10. \A v : Late(v)' = Late(v) BY <1>5 DEF Late
<1>11. IsFiniteSet(ledger) /\ IsFiniteSet(ledger')
  <2>1. IsFiniteSet(ledger) BY DEF LedgerInv, Ledgered
  <2>2. IsFiniteSet(ledger \cup {e}) BY <2>1, FS_AddElement
  <2>3. QED BY <1>5, <2>1, <2>2
<1>12. /\ s \in Charged(u) => Cardinality(Charged(u)') = Cardinality(Charged(u)) - 1
                              /\ Cardinality(Charged(u)) > 0
       /\ s \notin Charged(u) => Charged(u)' = Charged(u)
  <2>1. CASE s \in Charged(u)
    <3>1. IsFiniteSet(Charged(u)) /\ Cardinality(Charged(u)) \in Nat BY <1>11, ChargesFinite
    <3>2. Cardinality(Charged(u) \ {s}) = Cardinality(Charged(u)) - 1
      BY <2>1, <3>1, FS_RemoveElement
    <3>3. Cardinality(Charged(u) \ {s}) \in Nat
      BY <2>1, <3>1, FS_RemoveElement, FS_CardinalityType
    <3>4. QED BY <1>6, <2>1, <3>1, <3>2, <3>3
  <2>2. CASE s \notin Charged(u) BY <1>6, <2>2
  <2>3. QED BY <2>1, <2>2
<1>13. Reverses(s) /\ u # Nil =>
         /\ stats'[u].score = Clamped(stats[u].score + NoShowPenalty)
         /\ stats'[u].noShows = OneFewer(stats[u].noShows)
  BY <1>1, <1>2, <1>5, AdjustedRow, PointTypes
<1>14. \A v \in Users : ~ Reverses(s) \/ v # u => stats'[v] = stats[v] BY <1>2, <1>5
<1>15. Reverses(s) /\ s[2] \in Users => u = s[2] /\ s \in Charged(u)
  BY ConstantsAssumption DEF Reverses, UserOf, LedgerInv, Ledgered
<1>16. Ledgered'
  <2>1. \A f \in ledger' : f.user = UserOf(f.seat[2])' /\ f.mark <= marks'[f.seat]
    <3>1. SUFFICES ASSUME NEW f \in ledger'
                   PROVE  f.user = UserOf(f.seat[2]) /\ f.mark <= marks[f.seat]
      BY <1>3 DEF UserOf
    <3>2. CASE f \in ledger BY <3>2 DEF LedgerInv, Ledgered
    <3>3. CASE f \notin ledger
      <4>1. f = e BY <1>5, <3>1, <3>3
      <4>2. QED BY <1>2, <4>1
    <3>4. QED BY <3>2, <3>3
  <2>2. \A f \in ledger' : f.reason = "NO_SHOW_REVERSED" =>
          attendance'[f.seat] = "PRESENT" \/ f.mark < marks'[f.seat]
    <3>1. SUFFICES ASSUME NEW f \in ledger', f.reason = "NO_SHOW_REVERSED", f.seat # s
                   PROVE  attendance'[f.seat] = "PRESENT" \/ f.mark < marks'[f.seat]
      BY <1>2, <1>3
    <3>2. f \in ledger BY <1>5, <3>1
    <3>3. QED BY <1>2, <1>3, <3>1, <3>2 DEF LedgerInv, Ledgered
  <2>3. \A t \in Seats : attendance'[t] = "NO_SHOW" /\ t[2] \in Users => t \in Charged(t[2])'
    BY <1>2, <1>3, <1>6 DEF LedgerInv, Ledgered
  <2>4. QED BY <1>11, <2>1, <2>2, <2>3 DEF Ledgered
<1>17. NeverOvercharged'
  <2>1. SUFFICES ASSUME NEW v \in Users
                 PROVE  stats'[v].score + LatePenalty * Cardinality(Late(v)')
                          + NoShowPenalty * Cardinality(Charged(v)') >= MaxScore
    BY DEF NeverOvercharged
  <2>2. stats[v].score + LatePenalty * Cardinality(Late(v))
          + NoShowPenalty * Cardinality(Charged(v)) >= MaxScore
    BY DEF LedgerInv, NeverOvercharged
  <2>3. CASE v = u /\ Reverses(s)
    <3>1. stats[v].score \in 0 .. MaxScore BY <1>2 DEF StatsRows
    <3>2. Cardinality(Late(v)) \in Nat /\ Cardinality(Charged(v)) \in Nat BY <1>11, ChargesFinite
    <3>3. u # Nil BY <2>3, ConstantsAssumption
    <3>4. /\ Clamped(stats[v].score + NoShowPenalty) + LatePenalty * Cardinality(Late(v))
               + NoShowPenalty * Cardinality(Charged(v)) >= MaxScore
          /\ Cardinality(Charged(v)) > 0 =>
               Clamped(stats[v].score + NoShowPenalty) + LatePenalty * Cardinality(Late(v))
                 + NoShowPenalty * (Cardinality(Charged(v)) - 1) >= MaxScore
      BY <2>2, <3>1, <3>2, Balanced
    <3>5. QED BY <1>10, <1>12, <1>13, <2>3, <3>3, <3>4
  <2>4. CASE v # u \/ ~ Reverses(s) BY <1>9, <1>10, <1>14, <2>2, <2>4
  <2>5. QED BY <2>3, <2>4
<1>18. NoShowsAreCharged'
  <2>1. Claimants' = Claimants BY <1>3 DEF Claimants
  <2>2. SUFFICES ASSUME NEW v \in Users
                 PROVE  /\ stats'[v].noShows <= Cardinality(Charged(v)')
                        /\ v \notin Claimants => stats'[v].noShows = Cardinality(Charged(v)')
    BY <2>1 DEF NoShowsAreCharged
  <2>3. /\ stats[v].noShows <= Cardinality(Charged(v))
        /\ v \notin Claimants => stats[v].noShows = Cardinality(Charged(v))
    BY DEF LedgerInv, NoShowsAreCharged
  <2>4. stats[v].noShows \in Nat /\ Cardinality(Charged(v)) \in Nat
    BY <1>2, <1>11, ChargesFinite DEF StatsRows
  <2>5. CASE v = u /\ Reverses(s)
    <3>1. stats'[v].noShows = OneFewer(stats[v].noShows) BY <1>13, <2>5, ConstantsAssumption
    <3>2. s[2] \notin Users => v \in Claimants
      BY <2>5, SeatParts, ConstantsAssumption DEF Persons, UserOf, Claimants
    <3>3. QED BY <1>12, <1>15, <2>3, <2>4, <2>5, <3>1, <3>2 DEF OneFewer
  <2>6. CASE v # u \/ ~ Reverses(s) BY <1>9, <1>14, <2>3, <2>6
  <2>7. QED BY <2>5, <2>6
<1>19. ReversalsAnswerPenalties'
  <2>1. SUFFICES ASSUME NEW f \in ledger', f.reason = "NO_SHOW_REVERSED", f.seat[2] \notin Guests
                 PROVE  [f EXCEPT !.reason = "NO_SHOW"] \in ledger'
    BY DEF ReversalsAnswerPenalties
  <2>2. CASE f \in ledger BY <1>5, <2>1, <2>2 DEF LedgerInv, ReversalsAnswerPenalties
  <2>3. CASE f \notin ledger
    <3>1. f = e /\ Reverses(s) BY <1>5, <2>1, <2>3
    <3>2. s[2] \in Users BY <2>1, <3>1, SeatParts DEF Persons
    <3>3. [user |-> u, reason |-> "NO_SHOW", seat |-> s, mark |-> n] \in ledger
      BY <1>15, <3>1, <3>2 DEF Charged
    <3>4. [f EXCEPT !.reason = "NO_SHOW"] = [user |-> u, reason |-> "NO_SHOW", seat |-> s, mark |-> n]
      BY <3>1
    <3>5. QED BY <1>5, <3>3, <3>4
  <2>4. QED BY <2>2, <2>3
<1>20. QED BY <1>16, <1>17, <1>18, <1>19 DEF LedgerInv

\* A claim touches no entry: an unclaimed guest has none.
LEMMA ClaimGuestLedger ==
  ASSUME LedgerInv, TypeOK', NEW g \in Guests, NEW w \in Users, ClaimGuest(g, w)
  PROVE  LedgerInv'
<1>1. /\ claimedBy[g] = Nil /\ claimedBy' = [claimedBy EXCEPT ![g] = w]
      /\ UNCHANGED <<stats, ledger, attendance, marks>>
  BY DEF ClaimGuest
<1>2. claimedBy \in [Guests -> Users \cup {Nil}] /\ ledger \subseteq Entry BY DEF LedgerInv, TypeOK
<1>3. \A v : Charged(v)' = Charged(v) /\ Late(v)' = Late(v) BY <1>1 DEF Charged, Late
<1>4. \A f \in ledger : UserOf(f.seat[2])' = UserOf(f.seat[2])
  <2>1. SUFFICES ASSUME NEW f \in ledger PROVE UserOf(f.seat[2])' = UserOf(f.seat[2]) OBVIOUS
  <2>2. UserOf(f.seat[2]) # Nil
    BY <1>2, ConstantsAssumption DEF LedgerInv, Ledgered, Entry
  <2>3. f.seat[2] # g BY <1>1, <2>2 DEF UserOf
  <2>4. QED BY <1>1, <1>2, <2>3 DEF UserOf
<1>5. Ledgered' BY <1>1, <1>3, <1>4 DEF LedgerInv, Ledgered
<1>6. NeverOvercharged' BY <1>1, <1>3 DEF LedgerInv, NeverOvercharged
<1>7. Claimants \subseteq Claimants' \cup {Nil} BY <1>1, <1>2 DEF Claimants
<1>8. NoShowsAreCharged'
  BY <1>1, <1>3, <1>7, ConstantsAssumption DEF LedgerInv, NoShowsAreCharged
<1>9. ReversalsAnswerPenalties' BY <1>1 DEF LedgerInv, ReversalsAnswerPenalties
<1>10. QED BY <1>5, <1>6, <1>8, <1>9 DEF LedgerInv

\* The ledger and the scores keep agreeing in every step.
LEMMA LedgerStep ==
  ASSUME LedgerInv, [Next]_vars
  PROVE  LedgerInv'
<1>1. TypeOK' BY TypeStep DEF LedgerInv
<1>2. CASE /\ UNCHANGED <<ledger, attendance, marks, claimedBy>>
           /\ \A u \in Users : stats'[u].score = stats[u].score /\ stats'[u].noShows = stats[u].noShows
  BY <1>1, <1>2, LedgerFrame
<1>3. CASE UNCHANGED vars BY <1>2, <1>3 DEF vars, seating
<1>4. ASSUME NEW r \in Rooms, RoomStep(r) PROVE LedgerInv'
  <2>1. CASE \E places \in Places, reserved \in 0 .. MaxReserved,
                emergency, material \in BOOLEAN :
               UpdateRoom(r, places, reserved, emergency, material)
    BY <1>2, <2>1 DEF UpdateRoom
  <2>2. CASE CancelRoom(r) BY <1>2, <2>2 DEF CancelRoom
  <2>3. CASE StartRoom(r) BY <1>2, <2>3 DEF StartRoom
  <2>4. CASE Complete(r)
    <3>1. \A u \in Users : stats'[u].score = stats[u].score /\ stats'[u].noShows = stats[u].noShows
      BY <2>4 DEF Complete, LedgerInv, TypeOK
    <3>2. QED BY <1>2, <2>4, <3>1 DEF Complete, seating
  <2>5. CASE ActivateRefill(r) BY <1>2, <2>5 DEF ActivateRefill, seating
  <2>6. CASE DisableRefill(r) BY <1>2, <2>6 DEF DisableRefill, seating
  <2>7. CASE ExpireRefill(r) BY <1>2, <2>7 DEF ExpireRefill, seating
  <2>8. QED BY <1>4, <2>1, <2>2, <2>3, <2>4, <2>5, <2>6, <2>7 DEF RoomStep
<1>5. ASSUME NEW a \in Apps, AppStep(a) PROVE LedgerInv'
  <2>1. CASE \E recovered \in SUBSET PendingLosses(Venue[a]) : Accept(a, recovered)
    BY <1>2, <2>1 DEF Accept
  <2>2. CASE CloseApp(a) BY <1>2, <2>2 DEF CloseApp
  <2>3. QED BY <1>5, <2>1, <2>2 DEF AppStep
<1>6. ASSUME NEW s \in Seats, SeatStep(s) PROVE LedgerInv'
  <2>1. CASE CancelSeat(s) BY <1>1, <2>1, CancelSeatLedger
  <2>2. CASE RemoveSeat(s) BY <1>2, <2>2 DEF RemoveSeat
  <2>3. CASE MarkNoShow(s) BY <1>1, <2>3, MarkNoShowLedger
  <2>4. CASE MarkPresent(s) BY <1>1, <2>4, MarkPresentLedger
  <2>5. QED BY <1>6, <2>1, <2>2, <2>3, <2>4 DEF SeatStep
<1>7. CASE \E g \in Guests, u \in Users : ClaimGuest(g, u) BY <1>1, <1>7, ClaimGuestLedger
<1>8. CASE Tick BY <1>2, <1>8 DEF Tick, seating
<1>9. QED BY <1>3, <1>4, <1>5, <1>6, <1>7, <1>8 DEF Next

\* At first nobody has paid and nothing is recorded.
LEMMA InitLedger == Init => LedgerInv
<1> SUFFICES ASSUME Init PROVE LedgerInv OBVIOUS
<1>1. TypeOK BY InitTypes
<1>2. /\ ledger = {} /\ attendance = [s \in Seats |-> "NOT_SET"]
      /\ stats = [u \in Users |-> [score |-> MaxScore, streak |-> 0, noShows |-> 0]]
  BY DEF Init
<1>3. \A u : Charged(u) = {} /\ Late(u) = {} BY <1>2 DEF Charged, Late
<1>4. \A u \in Users : stats[u].score = MaxScore /\ stats[u].noShows = 0 BY <1>2
<1>5. Cardinality({}) = 0 BY FS_EmptySet
<1>6. Ledgered BY <1>2, FS_EmptySet DEF Ledgered
<1>7. NeverOvercharged
  <2>1. MaxScore \in Nat /\ LatePenalty \in Nat /\ NoShowPenalty \in Nat
    BY ConstantsAssumption
  <2>2. MaxScore + LatePenalty * 0 + NoShowPenalty * 0 >= MaxScore BY <2>1
  <2>3. QED BY <1>3, <1>4, <1>5, <2>2 DEF NeverOvercharged
<1>8. NoShowsAreCharged BY <1>3, <1>4, <1>5 DEF NoShowsAreCharged
<1>9. ReversalsAnswerPenalties BY <1>2 DEF ReversalsAnswerPenalties
<1>10. QED BY <1>1, <1>6, <1>7, <1>8, <1>9 DEF LedgerInv

\* The ledger accounts for every score and counter, in every reachable state.
THEOREM LedgerInvariant == Spec => []LedgerInv
<1>1. QED BY InitLedger, LedgerStep, PTL DEF Spec

\* Nobody ever pays for more than the late cancellations and absences that stand,
\* however often a host changes a verdict and wherever a score was cut off.
THEOREM NobodyOvercharged == Spec => []NeverOvercharged
<1>1. LedgerInv => NeverOvercharged BY DEF LedgerInv
<1>2. QED BY <1>1, LedgerInvariant, PTL

\* The counter of no-shows equals the absences charged, claimed guests apart.
THEOREM NoShowCounter == Spec => []NoShowsAreCharged
<1>1. LedgerInv => NoShowsAreCharged BY DEF LedgerInv
<1>2. QED BY <1>1, LedgerInvariant, PTL

\* A registered player is given back only what the same mark had charged.
THEOREM ReversalsJustified == Spec => []ReversalsAnswerPenalties
<1>1. LedgerInv => ReversalsAnswerPenalties BY DEF LedgerInv
<1>2. QED BY <1>1, LedgerInvariant, PTL

-----------------------------------------------------------------------------
(* Slot losses and the host's profile. *)

\* What has not happened yet has no loss on record: neither the loss of a seat
\* still held or to be won, nor that of a mark still to be made.
Unrecorded ==
  /\ \A s \in Seats : app[s[1]] = "PENDING" => seat[s] = "NONE"
  /\ \A s \in Seats : seat[s] \in {"NONE", "ACTIVE"} => loss[<<s, 0>>].state = "NONE"
  /\ \A s \in Seats : \A n \in 0 .. MaxMarks : n > marks[s] => loss[<<s, n>>].state = "NONE"

HostInv ==
  /\ TypeOK
  /\ Unrecorded
  /\ HostProfileMatchesLosses

OfHost(h, states) == {e \in LossEvents : Host[RoomOf(e[1])] = h /\ loss[e].state \in states}

CountedStates == {"PENDING", "RECOVERED", "EXPIRED"}

\* The property with its sets named.
LEMMA ProfileForm ==
  HostProfileMatchesLosses <=>
    \A h \in Users : /\ hosting[h].lost = Cardinality(OfHost(h, CountedStates))
                     /\ hosting[h].recovered = Cardinality(OfHost(h, {"RECOVERED"}))
BY DEF HostProfileMatchesLosses, OfHost, CountedStates

\* A host's losses can be counted.
LEMMA OfHostFinite ==
  ASSUME NEW h, NEW states
  PROVE  IsFiniteSet(OfHost(h, states)) /\ Cardinality(OfHost(h, states)) \in Nat
BY FiniteData, FS_Subset, FS_CardinalityType DEF OfHost

\* Adding new elements adds their number.
LEMMA DisjointSum ==
  ASSUME NEW A, NEW B, IsFiniteSet(A), IsFiniteSet(B), A \cap B = {}
  PROVE  Cardinality(A \cup B) = Cardinality(A) + Cardinality(B)
<1>1. Cardinality(A \cap B) = 0 BY FS_EmptySet
<1>2. Cardinality(A \cup B) = Cardinality(A) + Cardinality(B) - Cardinality(A \cap B) BY FS_Union
<1>3. Cardinality(A) \in Nat /\ Cardinality(B) \in Nat BY FS_CardinalityType
<1>4. QED BY <1>1, <1>2, <1>3

\* Steps that touch neither losses nor profiles.
LEMMA ProfileFrame ==
  ASSUME HostProfileMatchesLosses, UNCHANGED <<loss, hosting>>
  PROVE  HostProfileMatchesLosses'
BY DEF HostProfileMatchesLosses

\* Losses recorded for the first time are counted one by one.
LEMMA RecordProfile ==
  ASSUME TypeOK, HostProfileMatchesLosses, NEW r \in Rooms, NEW events \in SUBSET LossEvents,
         NEW available, RecordLosses(r, events, available),
         \A e \in events : RoomOf(e[1]) = r /\ loss[e].state = "NONE"
  PROVE  HostProfileMatchesLosses'
<1>1. CASE ~ Lossy(r, available) BY <1>1, ProfileFrame DEF RecordLosses
<1>2. CASE Lossy(r, available)
  <2>1. /\ loss' = [e \in LossEvents |-> IF e \in events THEN [state |-> "PENDING", at |-> now]
                                         ELSE loss[e]]
        /\ hosting' = [hosting EXCEPT ![Host[r]].lost = @ + LostSlots(events)]
    BY <1>2 DEF RecordLosses
  <2>2. hosting \in [Users -> [lost : Nat, recovered : Nat]] BY DEF TypeOK
  <2>3. Host[r] \in Users BY ConstantsAssumption
  <2>4. \A h : OfHost(h, {"RECOVERED"})' = OfHost(h, {"RECOVERED"}) BY <2>1 DEF OfHost
  <2>5. \A h : h # Host[r] => OfHost(h, CountedStates)' = OfHost(h, CountedStates)
    BY <2>1 DEF OfHost, CountedStates
  <2>6. OfHost(Host[r], CountedStates)' = OfHost(Host[r], CountedStates) \cup events
    BY <2>1 DEF OfHost, CountedStates
  <2>7. OfHost(Host[r], CountedStates) \cap events = {} BY DEF OfHost, CountedStates
  <2>8. IsFiniteSet(events) BY FiniteData, FS_Subset
  <2>9. Cardinality(OfHost(Host[r], CountedStates)')
          = Cardinality(OfHost(Host[r], CountedStates)) + LostSlots(events)
    BY <2>6, <2>7, <2>8, OfHostFinite, DisjointSum DEF LostSlots
  <2>10. \A h \in Users : /\ hosting'[h].lost = Cardinality(OfHost(h, CountedStates)')
                          /\ hosting'[h].recovered = Cardinality(OfHost(h, {"RECOVERED"})')
    <3>1. SUFFICES ASSUME NEW h \in Users
                   PROVE  /\ hosting'[h].lost = Cardinality(OfHost(h, CountedStates)')
                          /\ hosting'[h].recovered = Cardinality(OfHost(h, {"RECOVERED"})')
      OBVIOUS
    <3>2. /\ hosting[h].lost = Cardinality(OfHost(h, CountedStates))
          /\ hosting[h].recovered = Cardinality(OfHost(h, {"RECOVERED"}))
      BY ProfileForm
    <3>3. CASE h = Host[r] BY <2>1, <2>2, <2>3, <2>4, <2>9, <3>2, <3>3
    <3>4. CASE h # Host[r] BY <2>1, <2>2, <2>4, <2>5, <3>2, <3>4
    <3>5. QED BY <3>3, <3>4
  <2>11. QED BY <2>10 DEF HostProfileMatchesLosses, OfHost, CountedStates
<1>3. QED BY <1>1, <1>2

\* Losses made good are counted once as recovered and stay counted as lost.
LEMMA AcceptProfile ==
  ASSUME TypeOK, HostProfileMatchesLosses, NEW a \in Apps,
         NEW recovered \in SUBSET PendingLosses(Venue[a]), Accept(a, recovered)
  PROVE  HostProfileMatchesLosses'
<1>1. /\ loss' = [e \in LossEvents |-> IF e \in recovered THEN [loss[e] EXCEPT !.state = "RECOVERED"]
                                       ELSE loss[e]]
      /\ hosting' = [hosting EXCEPT ![Host[Venue[a]]].recovered = @ + Cardinality(recovered)]
  BY DEF Accept, LossWith
<1>2. /\ hosting \in [Users -> [lost : Nat, recovered : Nat]]
      /\ loss \in [LossEvents -> [state : LossState, at : 0 .. MaxTime]]
  BY DEF TypeOK
<1>3. Host[Venue[a]] \in Users BY ConstantsAssumption
<1>4. \A e \in recovered : e \in LossEvents /\ RoomOf(e[1]) = Venue[a] /\ loss[e].state = "PENDING"
  BY DEF PendingLosses
<1>5. \A e \in LossEvents : loss'[e].state = IF e \in recovered THEN "RECOVERED" ELSE loss[e].state
  BY <1>1, <1>2
<1>6. \A h : OfHost(h, CountedStates)' = OfHost(h, CountedStates)
  BY <1>4, <1>5 DEF OfHost, CountedStates
<1>7. \A h : h # Host[Venue[a]] => OfHost(h, {"RECOVERED"})' = OfHost(h, {"RECOVERED"})
  BY <1>4, <1>5 DEF OfHost
<1>8. OfHost(Host[Venue[a]], {"RECOVERED"})' = OfHost(Host[Venue[a]], {"RECOVERED"}) \cup recovered
  BY <1>4, <1>5 DEF OfHost
<1>9. OfHost(Host[Venue[a]], {"RECOVERED"}) \cap recovered = {} BY <1>4 DEF OfHost
<1>10. IsFiniteSet(recovered) BY FiniteData, FS_Subset, <1>4
<1>11. Cardinality(OfHost(Host[Venue[a]], {"RECOVERED"})')
         = Cardinality(OfHost(Host[Venue[a]], {"RECOVERED"})) + Cardinality(recovered)
  BY <1>8, <1>9, <1>10, OfHostFinite, DisjointSum
<1>12. ASSUME NEW h \in Users
       PROVE  /\ hosting'[h].lost = Cardinality(OfHost(h, CountedStates)')
              /\ hosting'[h].recovered = Cardinality(OfHost(h, {"RECOVERED"})')
  <2>1. /\ hosting[h].lost = Cardinality(OfHost(h, CountedStates))
        /\ hosting[h].recovered = Cardinality(OfHost(h, {"RECOVERED"}))
    BY ProfileForm
  <2>2. CASE h = Host[Venue[a]] BY <1>1, <1>2, <1>3, <1>6, <1>11, <2>1, <2>2
  <2>3. CASE h # Host[Venue[a]] BY <1>1, <1>2, <1>6, <1>7, <2>1, <2>3
  <2>4. QED BY <2>2, <2>3
<1>13. QED BY <1>12 DEF HostProfileMatchesLosses, OfHost, CountedStates

\* A loss that has run out stays counted.
LEMMA ExpireRefillProfile ==
  ASSUME TypeOK, HostProfileMatchesLosses, NEW r \in Rooms, ExpireRefill(r)
  PROVE  HostProfileMatchesLosses'
<1>1. /\ loss' = [e \in LossEvents |-> IF e \in PendingLosses(r)
                                       THEN [loss[e] EXCEPT !.state = "EXPIRED"] ELSE loss[e]]
      /\ hosting' = hosting
  BY DEF ExpireRefill, LossWith
<1>2. loss \in [LossEvents -> [state : LossState, at : 0 .. MaxTime]] BY DEF TypeOK
<1>3. \A e \in LossEvents : loss'[e].state
        = IF e \in PendingLosses(r) THEN "EXPIRED" ELSE loss[e].state
  BY <1>1, <1>2
<1>4. \A e \in PendingLosses(r) : loss[e].state = "PENDING" BY DEF PendingLosses
<1>5. \A h : /\ OfHost(h, CountedStates)' = OfHost(h, CountedStates)
             /\ OfHost(h, {"RECOVERED"})' = OfHost(h, {"RECOVERED"})
  BY <1>3, <1>4 DEF OfHost, CountedStates
<1>6. \A h \in Users : /\ hosting'[h].lost = Cardinality(OfHost(h, CountedStates)')
                       /\ hosting'[h].recovered = Cardinality(OfHost(h, {"RECOVERED"})')
  BY <1>1, <1>5, ProfileForm
<1>7. QED BY <1>6 DEF HostProfileMatchesLosses, OfHost, CountedStates

\* Voiding a pending loss takes it off the profile.
LEMMA VoidLossProfile ==
  ASSUME TypeOK, HostProfileMatchesLosses, NEW e \in LossEvents, VoidLoss(RoomOf(e[1]), e)
  PROVE  HostProfileMatchesLosses'
<1>1. CASE loss[e].state # "PENDING" BY <1>1, ProfileFrame DEF VoidLoss
<1>2. CASE loss[e].state = "PENDING"
  <2>. DEFINE h0 == Host[RoomOf(e[1])]
  <2>1. /\ loss' = [f \in LossEvents |-> IF f \in {e} THEN [loss[f] EXCEPT !.state = "VOIDED"]
                                         ELSE loss[f]]
        /\ hosting' = [hosting EXCEPT ![h0].lost = OneFewer(@)]
    BY <1>2 DEF VoidLoss, LossWith
  <2>2. /\ hosting \in [Users -> [lost : Nat, recovered : Nat]]
        /\ loss \in [LossEvents -> [state : LossState, at : 0 .. MaxTime]]
    BY DEF TypeOK
  <2>3. h0 \in Users
    <3>1. e[1] \in Seats BY DEF LossEvents
    <3>2. RoomOf(e[1]) \in Rooms BY <3>1, SeatParts
    <3>3. QED BY <3>2, ConstantsAssumption
  <2>4. \A f \in LossEvents : loss'[f].state = IF f = e THEN "VOIDED" ELSE loss[f].state
    BY <2>1, <2>2
  <2>5. \A h : OfHost(h, {"RECOVERED"})' = OfHost(h, {"RECOVERED"}) BY <1>2, <2>4 DEF OfHost
  <2>6. \A h : h # h0 => OfHost(h, CountedStates)' = OfHost(h, CountedStates)
    BY <2>4 DEF OfHost, CountedStates
  <2>7. OfHost(h0, CountedStates)' = OfHost(h0, CountedStates) \ {e}
    BY <2>4 DEF OfHost, CountedStates
  <2>8. e \in OfHost(h0, CountedStates) BY <1>2 DEF OfHost, CountedStates
  <2>9. Cardinality(OfHost(h0, CountedStates)') = Cardinality(OfHost(h0, CountedStates)) - 1
    <3>1. PICK S : S = OfHost(h0, CountedStates) OBVIOUS
    <3>2. IsFiniteSet(S) /\ e \in S BY <3>1, <2>8, OfHostFinite
    <3>3. Cardinality(S \ {e}) = Cardinality(S) - 1 BY <3>2, FS_RemoveElement
    <3>4. QED BY <3>1, <3>3, <2>7
  <2>10. Cardinality(OfHost(h0, CountedStates)) > 0
    BY <2>8, OfHostFinite, FS_EmptySet
  <2>11. ASSUME NEW h \in Users
         PROVE  /\ hosting'[h].lost = Cardinality(OfHost(h, CountedStates)')
                /\ hosting'[h].recovered = Cardinality(OfHost(h, {"RECOVERED"})')
    <3>1. /\ hosting[h].lost = Cardinality(OfHost(h, CountedStates))
          /\ hosting[h].recovered = Cardinality(OfHost(h, {"RECOVERED"}))
      BY ProfileForm
    <3>2. CASE h = h0 BY <2>1, <2>2, <2>3, <2>5, <2>9, <2>10, <3>1, <3>2 DEF OneFewer
    <3>3. CASE h # h0 BY <2>1, <2>2, <2>5, <2>6, <3>1, <3>3
    <3>4. QED BY <3>2, <3>3
  <2>12. QED BY <2>11 DEF HostProfileMatchesLosses, OfHost, CountedStates
<1>3. QED BY <1>1, <1>2

\* What a step must respect so that nothing is recorded ahead of its event.
LEMMA UnrecordedKept ==
  ASSUME TypeOK, Unrecorded,
         \A a \in Apps : app'[a] = "PENDING" => app[a] = "PENDING",
         \A s \in Seats : seat'[s] # seat[s] =>
           /\ app'[s[1]] # "PENDING"
           /\ seat'[s] \in {"NONE", "ACTIVE"} => seat[s] \in {"NONE", "ACTIVE"},
         \A s \in Seats : marks'[s] >= marks[s] /\ marks'[s] \in Nat,
         \A s \in Seats : \A n \in 0 .. MaxMarks :
           loss[<<s, n>>].state = "NONE" =>
             \/ loss'[<<s, n>>].state = "NONE"
             \/ n = 0 /\ seat'[s] \notin {"NONE", "ACTIVE"}
             \/ n > 0 /\ n <= marks'[s]
  PROVE  Unrecorded'
<1>1. MaxMarks \in Nat /\ \A s \in Seats : marks[s] \in Nat /\ s[1] \in Apps
  BY ConstantsAssumption, SeatParts DEF TypeOK
<1>2. \A s \in Seats : app'[s[1]] = "PENDING" => seat'[s] = "NONE" BY <1>1 DEF Unrecorded
<1>3. \A s \in Seats : seat'[s] \in {"NONE", "ACTIVE"} => loss'[<<s, 0>>].state = "NONE"
  BY <1>1 DEF Unrecorded
<1>4. ASSUME NEW s \in Seats, NEW n \in 0 .. MaxMarks, n > marks'[s]
      PROVE  loss'[<<s, n>>].state = "NONE"
  BY <1>1, <1>4 DEF Unrecorded
<1>5. QED BY <1>2, <1>3, <1>4 DEF Unrecorded

\* A loss is recorded for the events of the step and for no other.
LEMMA RecordedOnly ==
  ASSUME TypeOK, NEW r, NEW events, NEW available, RecordLosses(r, events, available),
         NEW e \in LossEvents, e \notin events
  PROVE  loss'[e] = loss[e]
BY DEF RecordLosses, TypeOK

\* Seats given up: the losses are those of seats that were held until now.
LEMMA GiveHost ==
  ASSUME HostInv, NEW r \in Rooms, NEW freed \in SUBSET Seats,
         NEW status \in {"CANCELLED", "REMOVED_BY_HOST"}, NEW urgent,
         Give(r, freed, status, urgent), UNCHANGED <<app, marks>>,
         \A s \in freed : seat[s] = "ACTIVE" /\ RoomOf(s) = r
  PROVE  Unrecorded' /\ HostProfileMatchesLosses'
<1>. PICK events : events = freed \X {0} OBVIOUS
<1>1. PICK available : RecordLosses(r, events, available)
  BY DEF Give
<1>2. seat' = [s \in Seats |-> IF s \in freed THEN status ELSE seat[s]] BY DEF Give
<1>3. MaxMarks \in Nat /\ TypeOK /\ Unrecorded /\ HostProfileMatchesLosses
  BY ConstantsAssumption DEF HostInv
<1>4. events \in SUBSET LossEvents BY <1>3 DEF LossEvents
<1>5. \A e \in events : e[1] \in freed /\ e = <<e[1], 0>> OBVIOUS
<1>6. \A e \in events : RoomOf(e[1]) = r /\ loss[e].state = "NONE"
  BY <1>3, <1>5 DEF Unrecorded
<1>7. HostProfileMatchesLosses' BY <1>1, <1>3, <1>4, <1>6, RecordProfile
<1>8. \A s \in Seats : seat'[s] # seat[s] =>
        /\ app'[s[1]] # "PENDING"
        /\ seat'[s] \in {"NONE", "ACTIVE"} => seat[s] \in {"NONE", "ACTIVE"}
  BY <1>2, <1>3 DEF Unrecorded
<1>9. \A s \in Seats : marks'[s] >= marks[s] /\ marks'[s] \in Nat BY <1>3 DEF TypeOK
<1>10. ASSUME NEW s \in Seats, NEW n \in 0 .. MaxMarks, loss[<<s, n>>].state = "NONE"
       PROVE  \/ loss'[<<s, n>>].state = "NONE"
              \/ n = 0 /\ seat'[s] \notin {"NONE", "ACTIVE"}
              \/ n > 0 /\ n <= marks'[s]
  <2>1. <<s, n>> \in LossEvents BY DEF LossEvents
  <2>2. CASE <<s, n>> \in events BY <2>2, <1>2
  <2>3. CASE <<s, n>> \notin events BY <2>1, <2>3, <1>1, <1>3, <1>10, RecordedOnly
  <2>4. QED BY <2>2, <2>3
<1>11. Unrecorded' BY <1>3, <1>8, <1>9, <1>10, UnrecordedKept
<1>12. QED BY <1>7, <1>11

\* The seats that leave with a seat were held, for the same room.
LEMMA LeavingSeats ==
  ASSUME NEW s \in Seats, seat[s] = "ACTIVE"
  PROVE  /\ LeavingWith(s) \in SUBSET Seats
         /\ \A g \in LeavingWith(s) : seat[g] = "ACTIVE" /\ RoomOf(g) = RoomOf(s)
BY DEF LeavingWith, RoomOf

\* An absence: its mark is new, hence so is its loss.
LEMMA MarkNoShowHost ==
  ASSUME HostInv, NEW s \in Seats, MarkNoShow(s)
  PROVE  Unrecorded' /\ HostProfileMatchesLosses'
<1>. PICK n : n = marks[s] + 1 OBVIOUS
<1>. PICK events : events = {<<s, n>>} OBVIOUS
<1>1. PICK available : RecordLosses(RoomOf(s), events, available) BY DEF MarkNoShow
<1>2. /\ marks' = [marks EXCEPT ![s] = n] /\ marks[s] < MaxMarks /\ UNCHANGED <<app, seat>>
  BY DEF MarkNoShow, AppendAttendanceLog
<1>3. MaxMarks \in Nat /\ TypeOK /\ Unrecorded /\ HostProfileMatchesLosses
  BY ConstantsAssumption DEF HostInv
<1>4. marks \in [Seats -> 0 .. MaxMarks] BY <1>3 DEF TypeOK
<1>5. n \in 1 .. MaxMarks /\ n > marks[s] BY <1>2, <1>3, <1>4
<1>6. events \in SUBSET LossEvents BY <1>5 DEF LossEvents
<1>7. \A e \in events : RoomOf(e[1]) = RoomOf(s) /\ loss[e].state = "NONE"
  BY <1>3, <1>5 DEF Unrecorded
<1>8. HostProfileMatchesLosses' BY <1>1, <1>3, <1>6, <1>7, SeatParts, RecordProfile
<1>9. \A q \in Seats : marks'[q] >= marks[q] /\ marks'[q] \in Nat BY <1>2, <1>4, <1>5
<1>10. ASSUME NEW q \in Seats, NEW m \in 0 .. MaxMarks, loss[<<q, m>>].state = "NONE"
       PROVE  \/ loss'[<<q, m>>].state = "NONE"
              \/ m = 0 /\ seat'[q] \notin {"NONE", "ACTIVE"}
              \/ m > 0 /\ m <= marks'[q]
  <2>1. <<q, m>> \in LossEvents BY DEF LossEvents
  <2>2. CASE <<q, m>> \in events
    <3>1. q = s /\ m = n BY <2>2
    <3>2. QED BY <3>1, <1>2, <1>4, <1>5
  <2>3. CASE <<q, m>> \notin events BY <2>1, <2>3, <1>1, <1>3, <1>10, RecordedOnly
  <2>4. QED BY <2>2, <2>3
<1>11. Unrecorded' BY <1>2, <1>3, <1>9, <1>10, UnrecordedKept
<1>12. QED BY <1>8, <1>11

\* Presence: a correction voids the loss of the latest mark.
LEMMA MarkPresentHost ==
  ASSUME HostInv, NEW s \in Seats, MarkPresent(s)
  PROVE  Unrecorded' /\ HostProfileMatchesLosses'
<1>. PICK e : e = <<s, marks[s]>> OBVIOUS
<1>1. TypeOK /\ Unrecorded /\ HostProfileMatchesLosses BY DEF HostInv
<1>2. marks \in [Seats -> 0 .. MaxMarks] /\ MaxMarks \in Nat BY <1>1, ConstantsAssumption DEF TypeOK
<1>3. e \in LossEvents /\ e[1] = s BY <1>2 DEF LossEvents
<1>4. UNCHANGED <<app, seat, marks>> BY DEF MarkPresent
<1>5. VoidLoss(RoomOf(e[1]), e) \/ UNCHANGED <<loss, hosting>>
  BY <1>3 DEF MarkPresent, LatestMark
<1>6. HostProfileMatchesLosses' BY <1>1, <1>3, <1>5, VoidLossProfile, ProfileFrame
<1>7. \A f \in LossEvents : loss[f].state = "NONE" => loss'[f].state = "NONE"
  BY <1>1, <1>5 DEF VoidLoss, LossWith, TypeOK
<1>8. \A q \in Seats, n \in 0 .. MaxMarks : <<q, n>> \in LossEvents BY DEF LossEvents
<1>9. Unrecorded' BY <1>1, <1>2, <1>4, <1>7, <1>8, UnrecordedKept
<1>10. QED BY <1>6, <1>9

\* An acceptance gives seats to an application that held none.
LEMMA AcceptHost ==
  ASSUME HostInv, NEW a \in Apps, NEW recovered \in SUBSET PendingLosses(Venue[a]),
         Accept(a, recovered)
  PROVE  Unrecorded' /\ HostProfileMatchesLosses'
<1>1. TypeOK /\ Unrecorded /\ HostProfileMatchesLosses BY DEF HostInv
<1>2. HostProfileMatchesLosses' BY <1>1, AcceptProfile
<1>3. /\ app[a] = "PENDING" /\ app' = [app EXCEPT ![a] = "ACCEPTED"] /\ marks' = marks
      /\ seat' = [s \in Seats |-> IF s[1] = a THEN "ACTIVE" ELSE seat[s]]
      /\ loss' = [e \in LossEvents |-> IF e \in recovered THEN [loss[e] EXCEPT !.state = "RECOVERED"]
                                       ELSE loss[e]]
  BY DEF Accept, LossWith
<1>4. /\ app \in [Apps -> AppStatus] /\ MaxMarks \in Nat
      /\ marks \in [Seats -> 0 .. MaxMarks]
  BY <1>1, ConstantsAssumption DEF TypeOK
<1>5. \A s \in Seats : s[1] \in Apps BY SeatParts
<1>6. \A b \in Apps : app'[b] = "PENDING" => app[b] = "PENDING" BY <1>3, <1>4
<1>7. \A s \in Seats : seat'[s] # seat[s] =>
        /\ app'[s[1]] # "PENDING"
        /\ seat'[s] \in {"NONE", "ACTIVE"} => seat[s] \in {"NONE", "ACTIVE"}
  BY <1>1, <1>3, <1>4, <1>5 DEF Unrecorded
<1>8. \A e \in LossEvents : loss[e].state = "NONE" => loss'[e].state = "NONE"
  BY <1>3 DEF PendingLosses
<1>9. \A q \in Seats, n \in 0 .. MaxMarks : <<q, n>> \in LossEvents BY DEF LossEvents
<1>10. Unrecorded' BY <1>1, <1>3, <1>4, <1>6, <1>7, <1>8, <1>9, UnrecordedKept
<1>11. QED BY <1>2, <1>10

\* What has run out had been recorded.
LEMMA ExpireRefillHost ==
  ASSUME HostInv, NEW r \in Rooms, ExpireRefill(r)
  PROVE  Unrecorded' /\ HostProfileMatchesLosses'
<1>1. TypeOK /\ Unrecorded /\ HostProfileMatchesLosses BY DEF HostInv
<1>2. marks \in [Seats -> 0 .. MaxMarks] /\ MaxMarks \in Nat BY <1>1, ConstantsAssumption DEF TypeOK
<1>3. UNCHANGED <<app, seat, marks>> BY DEF ExpireRefill, seating
<1>4. \A e \in LossEvents : loss[e].state = "NONE" => loss'[e].state = "NONE"
  BY DEF ExpireRefill, LossWith, PendingLosses
<1>5. \A q \in Seats, n \in 0 .. MaxMarks : <<q, n>> \in LossEvents BY DEF LossEvents
<1>6. Unrecorded' BY <1>1, <1>2, <1>3, <1>4, <1>5, UnrecordedKept
<1>7. QED BY <1>1, <1>6, ExpireRefillProfile

\* Steps that give no seat away and record no loss.
LEMMA QuietHost ==
  ASSUME HostInv, UNCHANGED <<marks, loss, hosting>>,
         \A a \in Apps : app'[a] = "PENDING" => app[a] = "PENDING",
         \A s \in Seats : seat'[s] # seat[s] => seat[s] = "ACTIVE" /\ seat'[s] = "CANCELLED"
  PROVE  Unrecorded' /\ HostProfileMatchesLosses'
<1>1. TypeOK /\ Unrecorded /\ HostProfileMatchesLosses BY DEF HostInv
<1>2. marks \in [Seats -> 0 .. MaxMarks] /\ MaxMarks \in Nat BY <1>1, ConstantsAssumption DEF TypeOK
<1>3. \A s \in Seats : s[1] \in Apps BY SeatParts
<1>4. \A s \in Seats : seat'[s] # seat[s] => app'[s[1]] # "PENDING" BY <1>1, <1>3 DEF Unrecorded
<1>5. Unrecorded' BY <1>1, <1>2, <1>4, UnrecordedKept
<1>6. QED BY <1>1, <1>5, ProfileFrame

\* Every step keeps the host's profile in agreement with the losses.
LEMMA HostStep == HostInv /\ [Next]_vars => HostInv'
<1> SUFFICES ASSUME HostInv, [Next]_vars PROVE HostInv' OBVIOUS
<1>1. TypeOK BY DEF HostInv
<1>2. TypeOK' BY <1>1, TypeStep
<1>3. app \in [Apps -> AppStatus] /\ seat \in [Seats -> SeatStatus] BY <1>1 DEF TypeOK
<1>4. Unrecorded' /\ HostProfileMatchesLosses'
  <2>1. CASE UNCHANGED vars BY <2>1, QuietHost DEF vars, seating
  <2>2. ASSUME NEW r \in Rooms, RoomStep(r) PROVE Unrecorded' /\ HostProfileMatchesLosses'
    <3>1. CASE \E places \in Places, reserved \in 0 .. MaxReserved,
                  emergency, material \in BOOLEAN :
                 UpdateRoom(r, places, reserved, emergency, material)
      <4>1. UNCHANGED <<app, seat, marks, loss, hosting>> BY <3>1 DEF UpdateRoom
      <4>2. QED BY <4>1, QuietHost
    <3>2. CASE CancelRoom(r)
      <4>1. /\ UNCHANGED <<marks, loss, hosting>>
            /\ \A a \in Apps : app'[a] = "PENDING" => app[a] = "PENDING"
        BY <3>2 DEF CancelRoom, CloseApps
      <4>2. \A s \in Seats : seat'[s] # seat[s] => seat[s] = "ACTIVE" /\ seat'[s] = "CANCELLED"
        BY <3>2, <1>3 DEF CancelRoom, Seated
      <4>3. QED BY <4>1, <4>2, QuietHost
    <3>3. CASE StartRoom(r)
      <4>1. /\ UNCHANGED <<seat, marks, loss, hosting>>
            /\ \A a \in Apps : app'[a] = "PENDING" => app[a] = "PENDING"
        BY <3>3 DEF StartRoom, CloseApps
      <4>2. QED BY <4>1, QuietHost
    <3>4. CASE Complete(r) \/ ActivateRefill(r) \/ DisableRefill(r)
      <4>1. UNCHANGED <<app, seat, marks, loss, hosting>>
        BY <3>4 DEF Complete, ActivateRefill, DisableRefill, seating
      <4>2. QED BY <4>1, QuietHost
    <3>5. CASE ExpireRefill(r) BY <3>5, ExpireRefillHost
    <3>6. QED BY <2>2, <3>1, <3>2, <3>3, <3>4, <3>5 DEF RoomStep
  <2>3. ASSUME NEW a \in Apps, AppStep(a) PROVE Unrecorded' /\ HostProfileMatchesLosses'
    <3>1. CASE CloseApp(a)
      <4>1. /\ UNCHANGED <<seat, marks, loss, hosting>>
            /\ \A b \in Apps : app'[b] = "PENDING" => app[b] = "PENDING"
        BY <3>1, <1>3 DEF CloseApp
      <4>2. QED BY <4>1, QuietHost
    <3>2. QED BY <2>3, <3>1, AcceptHost DEF AppStep
  <2>4. ASSUME NEW s \in Seats, SeatStep(s) PROVE Unrecorded' /\ HostProfileMatchesLosses'
    <3>1. CASE CancelSeat(s)
      <4>1. PICK freed : freed = LeavingWith(s) OBVIOUS
      <4>2. PICK urgent : Give(RoomOf(s), freed, "CANCELLED", urgent) /\ UNCHANGED <<app, marks>>
        BY <3>1, <4>1 DEF CancelSeat
      <4>3. freed \in SUBSET Seats /\ \A g \in freed : seat[g] = "ACTIVE" /\ RoomOf(g) = RoomOf(s)
        BY <3>1, <4>1, LeavingSeats DEF CancelSeat
      <4>4. QED BY <4>2, <4>3, SeatParts, GiveHost
    <3>2. CASE RemoveSeat(s)
      <4>1. PICK freed : freed = {s} OBVIOUS
      <4>2. /\ Give(RoomOf(s), freed, "REMOVED_BY_HOST", FALSE) /\ UNCHANGED <<app, marks>>
            /\ seat[s] = "ACTIVE"
        BY <3>2, <4>1 DEF RemoveSeat
      <4>3. /\ freed \in SUBSET Seats
            /\ \A g \in freed : seat[g] = "ACTIVE" /\ RoomOf(g) = RoomOf(s)
        BY <4>1, <4>2
      <4>4. PICK urgent : Give(RoomOf(s), freed, "REMOVED_BY_HOST", urgent) BY <4>2
      <4>5. QED BY <4>2, <4>3, <4>4, SeatParts, GiveHost
    <3>3. QED BY <2>4, <3>1, <3>2, MarkNoShowHost, MarkPresentHost DEF SeatStep
  <2>5. CASE Tick \/ \E g \in Guests, u \in Users : ClaimGuest(g, u)
    <3>1. UNCHANGED <<app, seat, marks, loss, hosting>> BY <2>5 DEF Tick, ClaimGuest, seating
    <3>2. QED BY <3>1, QuietHost
  <2>6. QED BY <2>1, <2>2, <2>3, <2>4, <2>5 DEF Next
<1>5. QED BY <1>2, <1>4 DEF HostInv

\* It holds when nothing has been recorded.
LEMMA InitHost == Init => HostInv
<1> SUFFICES ASSUME Init PROVE HostInv OBVIOUS
<1>1. TypeOK BY InitTypes
<1>2. /\ seat = [s \in Seats |-> "NONE"]
      /\ loss = [e \in LossEvents |-> NoLoss]
      /\ hosting = [u \in Users |-> [lost |-> 0, recovered |-> 0]]
  BY DEF Init
<1>3. \A e \in LossEvents : loss[e].state = "NONE" BY <1>2 DEF NoLoss
<1>4. MaxMarks \in Nat BY ConstantsAssumption
<1>5. \A s \in Seats : \A n \in 0 .. MaxMarks : <<s, n>> \in LossEvents BY DEF LossEvents
<1>6. Unrecorded BY <1>2, <1>3, <1>4, <1>5 DEF Unrecorded
<1>7. \A h \in Users : OfHost(h, CountedStates) = {} /\ OfHost(h, {"RECOVERED"}) = {}
  BY <1>3 DEF OfHost, CountedStates
<1>8. HostProfileMatchesLosses BY <1>2, <1>7, FS_EmptySet, ProfileForm
<1>9. QED BY <1>1, <1>6, <1>8 DEF HostInv

\* A host's profile agrees with the losses on record after any history.
THEOREM HostProfileCorrect == Spec => []HostProfileMatchesLosses
<1>1. HostInv => HostProfileMatchesLosses BY DEF HostInv
<1>2. QED BY <1>1, InitHost, HostStep, PTL DEF Spec

-----------------------------------------------------------------------------
(* Places and the losses that stand for them.  Nobody is accepted once the   *)
(* room has started, and no verdict is given before: so what is lost before  *)
(* the start and what is lost after it can be counted apart.                 *)

Playable(r) == room[r].status \in {"PUBLISHED", "IN_PROGRESS"}

\* No room that is still to be played has more players than places.
NotOversold == \A r \in Rooms : Playable(r) => Free(r) >= 0

\* The seats that hold a slot can be counted.
LEMMA HoldingFinite ==
  ASSUME NEW st, NEW att, NEW r
  PROVE  IsFiniteSet(Holding(st, att, r)) /\ Cardinality(Holding(st, att, r)) \in Nat
<1>1. Holding(st, att, r) \subseteq Seats BY DEF Holding, SeatsOf
<1>2. IsFiniteSet(Holding(st, att, r)) BY <1>1, FiniteData, FS_Subset
<1>3. QED BY <1>2, FS_CardinalityType

\* Places are counted in numbers.
LEMMA RoomTypes ==
  ASSUME TypeOK, NEW r \in Rooms
  PROVE  room[r].places \in Nat /\ room[r].reserved \in Nat
<1>1. room[r] \in RoomRow BY DEF TypeOK
<1>2. Places \subseteq Nat /\ MaxReserved \in Nat BY ConstantsAssumption
<1>3. room[r].places \in Places /\ room[r].reserved \in 0 .. MaxReserved BY <1>1 DEF RoomRow
<1>4. room[r].places \in Nat BY <1>2, <1>3
<1>5. room[r].reserved \in Nat BY <1>2, <1>3
<1>6. QED BY <1>4, <1>5

\* An application has a seat for each person it brings and no more.
LEMMA SeatsOfApplication ==
  ASSUME NEW a \in Apps, IsFiniteSet(Members[a])
  PROVE  /\ IsFiniteSet({s \in Seats : s[1] = a})
         /\ Cardinality({s \in Seats : s[1] = a}) <= Cardinality(Members[a])
<1>. DEFINE S == {s \in Seats : s[1] = a}
            f == [p \in Members[a] |-> <<a, p>>]
<1>1. \A s \in S : s[2] \in Members[a] /\ s = <<a, s[2]>> BY SeatParts DEF Seats
<1>2. Members[a] \subseteq Persons BY ConstantsAssumption
<1>3. \A p \in Members[a] : <<a, p>> \in S BY <1>2 DEF Seats
<1>4. f \in Surjection(Members[a], S)
  <2>1. f \in [Members[a] -> S] BY <1>3
  <2>2. \A s \in S : \E p \in Members[a] : f[p] = s BY <1>1
  <2>3. QED BY <2>1, <2>2 DEF Surjection
<1>5. QED BY <1>4, FS_Surjection

\* Fewer seats that hold a slot leave as much room or more.
LEMMA FreeGrows ==
  ASSUME TypeOK, TypeOK', NotOversold, NEW r \in Rooms, Playable(r)' => Playable(r),
         room'[r].reserved = room[r].reserved, room'[r].places = room[r].places,
         Holding(seat', attendance', r) \subseteq Holding(seat, attendance, r),
         Playable(r)'
  PROVE  Free(r)' >= 0
<1>1. room[r].places \in Nat /\ room[r].reserved \in Nat
  BY RoomTypes
<1>2. Cardinality(Holding(seat', attendance', r)) <= Cardinality(Holding(seat, attendance, r))
  BY HoldingFinite, FS_Subset
<1>3. /\ Cardinality(Holding(seat, attendance, r)) \in Nat
      /\ Cardinality(Holding(seat', attendance', r)) \in Nat
  BY HoldingFinite
<1>4. room[r].places - room[r].reserved - Cardinality(Holding(seat, attendance, r)) >= 0
  BY DEF NotOversold, Free, FreeWith
<1>5. Free(r)' = room[r].places - room'[r].reserved - Cardinality(Holding(seat', attendance', r))
  BY DEF Free, FreeWith, Holding, SeatsOf, RoomOf
<1>6. QED BY <1>1, <1>2, <1>3, <1>4, <1>5

\* An acceptance takes no more places than are free.
LEMMA AcceptNotOversold ==
  ASSUME TypeOK, TypeOK', NotOversold, NEW a \in Apps,
         NEW recovered \in SUBSET PendingLosses(Venue[a]), Accept(a, recovered)
  PROVE  NotOversold'
<1>1. /\ room' = room /\ attendance' = attendance
      /\ seat' = [s \in Seats |-> IF s[1] = a THEN "ACTIVE" ELSE seat[s]]
      /\ Cardinality(Members[a]) > 0 /\ Free(Venue[a]) >= Cardinality(Members[a])
  BY DEF Accept
<1>2. SUFFICES ASSUME NEW r \in Rooms, Playable(r)' PROVE Free(r)' >= 0
  BY DEF NotOversold
<1>3. CASE r # Venue[a]
  <2>1. Holding(seat', attendance', r) \subseteq Holding(seat, attendance, r)
    BY <1>1, <1>3 DEF Holding, SeatsOf, RoomOf
  <2>2. QED BY <1>1, <1>2, <2>1, FreeGrows DEF Playable
<1>4. CASE r = Venue[a]
  <2>. DEFINE S == {s \in Seats : s[1] = a}
              H == Holding(seat, attendance, r)
  <2>1. IsFiniteSet(Members[a]) BY ConstantsAssumption, FS_Subset
  <2>2. IsFiniteSet(S) /\ Cardinality(S) <= Cardinality(Members[a])
    BY <2>1, SeatsOfApplication
  <2>3. Holding(seat', attendance', r) \subseteq H \cup S
    BY <1>1 DEF Holding, SeatsOf
  <2>4. IsFiniteSet(H) /\ Cardinality(H) \in Nat BY HoldingFinite
  <2>5. /\ IsFiniteSet(H \cup S)
        /\ Cardinality(H \cup S) = Cardinality(H) + Cardinality(S) - Cardinality(H \cap S)
    BY <2>2, <2>4, FS_Union
  <2>6. IsFiniteSet(H \cap S) BY <2>2, <2>4, FS_Intersection
  <2>7. Cardinality(H \cap S) \in Nat /\ Cardinality(S) \in Nat /\ Cardinality(Members[a]) \in Nat
    BY <2>1, <2>2, <2>6, FS_CardinalityType
  <2>8. Cardinality(Holding(seat', attendance', r)) <= Cardinality(H \cup S)
    BY <2>3, <2>5, FS_Subset
  <2>9. Cardinality(Holding(seat', attendance', r)) \in Nat BY HoldingFinite
  <2>10. room[r].places \in Nat /\ room[r].reserved \in Nat
    BY <1>1, RoomTypes
  <2>11. room[r].places - room[r].reserved - Cardinality(H) >= Cardinality(Members[a])
    BY <1>1, <1>4 DEF Free, FreeWith
  <2>12. Free(r)' = room[r].places - room[r].reserved - Cardinality(Holding(seat', attendance', r))
    BY <1>1 DEF Free, FreeWith, Holding, SeatsOf, RoomOf
  <2>13. QED BY <2>2, <2>4, <2>5, <2>7, <2>8, <2>9, <2>10, <2>11, <2>12
<1>5. QED BY <1>3, <1>4

\* Attendance: whoever turns out to be present must find a place.
LEMMA AttendanceNotOversold ==
  ASSUME TypeOK, TypeOK', NotOversold, NEW s \in Seats, MarkNoShow(s) \/ MarkPresent(s)
  PROVE  NotOversold'
<1>1. room' = room /\ seat' = seat BY DEF MarkNoShow, MarkPresent
<1>2. PICK next \in Attendance : attendance' = [attendance EXCEPT ![s] = next]
                                 /\ FreeWith(seat, attendance', RoomOf(s)) >= 0
  BY DEF MarkNoShow, MarkPresent, CanMark, Marked, Attendance
<1>3. attendance \in [Seats -> Attendance] BY DEF TypeOK
<1>4. SUFFICES ASSUME NEW r \in Rooms, Playable(r)' PROVE Free(r)' >= 0
  BY DEF NotOversold
<1>5. CASE r = RoomOf(s)
  BY <1>1, <1>2, <1>5 DEF Free, FreeWith, Holding, SeatsOf, RoomOf
<1>6. CASE r # RoomOf(s)
  <2>1. Holding(seat', attendance', r) \subseteq Holding(seat, attendance, r)
    BY <1>1, <1>2, <1>3, <1>6 DEF Holding, SeatsOf
  <2>2. QED BY <1>1, <1>4, <2>1, FreeGrows DEF Playable
<1>7. QED BY <1>5, <1>6

\* Steps after which no seat holds a slot that held none.
LEMMA FewerNotOversold ==
  ASSUME TypeOK, TypeOK', NotOversold, attendance' = attendance,
         \A r \in Rooms : /\ room'[r].reserved = room[r].reserved
                          /\ room'[r].places = room[r].places
                          /\ Playable(r)' => Playable(r),
         \A s \in Seats : seat'[s] = "ACTIVE" => seat[s] = "ACTIVE"
  PROVE  NotOversold'
<1>1. \A r \in Rooms : Holding(seat', attendance', r) \subseteq Holding(seat, attendance, r)
  BY DEF Holding, SeatsOf
<1>2. ASSUME NEW r \in Rooms, Playable(r)' PROVE Free(r)' >= 0
  <2>1. /\ room'[r].reserved = room[r].reserved /\ room'[r].places = room[r].places
        /\ Playable(r)' => Playable(r)
        /\ Holding(seat', attendance', r) \subseteq Holding(seat, attendance, r)
    BY <1>1
  <2>2. QED BY <1>2, <2>1, FreeGrows
<1>3. QED BY <1>2 DEF NotOversold

\* Every step leaves enough places.
LEMMA NotOversoldStep == TypeOK /\ NotOversold /\ [Next]_vars => NotOversold'
<1> SUFFICES ASSUME TypeOK, NotOversold, [Next]_vars PROVE NotOversold' OBVIOUS
<1>1. TypeOK' BY TypeStep
<1>2. room \in [Rooms -> RoomRow]
      /\ seat \in [Seats -> SeatStatus]
  BY DEF TypeOK
<1>3. CASE UNCHANGED vars BY <1>1, <1>3, FewerNotOversold DEF vars, seating, Playable
<1>4. ASSUME NEW r \in Rooms, RoomStep(r) PROVE NotOversold'
  <2>1. ASSUME NEW places \in Places, NEW reserved \in 0 .. MaxReserved,
               NEW emergency \in BOOLEAN, NEW material \in BOOLEAN,
               UpdateRoom(r, places, reserved, emergency, material)
        PROVE  NotOversold'
    <3>1. /\ room' = [room EXCEPT ![r].places = places, ![r].reserved = reserved,
                                  ![r].emergency = emergency]
          /\ places - reserved - Cardinality(Holding(seat, attendance, r)) >= 0
          /\ seat' = seat /\ attendance' = attendance
      BY <2>1 DEF UpdateRoom
    <3>2. SUFFICES ASSUME NEW q \in Rooms, Playable(q)' PROVE Free(q)' >= 0
      BY DEF NotOversold
    <3>3. CASE q = r
      BY <1>2, <3>1, <3>3 DEF Free, FreeWith, Holding, SeatsOf, RoomOf, RoomRow
    <3>4. CASE q # r BY <1>2, <3>1, <3>2, <3>4 DEF NotOversold, Playable, Free, FreeWith, Holding, SeatsOf, RoomOf, RoomRow
    <3>5. QED BY <3>3, <3>4
  <2>2. CASE CancelRoom(r)
    <3>1. \A q \in Rooms : /\ room'[q].reserved = room[q].reserved
                           /\ room'[q].places = room[q].places
                           /\ Playable(q)' => Playable(q)
      BY <1>2, <2>2 DEF CancelRoom, Playable, RoomRow
    <3>2. attendance' = attendance /\ \A s \in Seats : seat'[s] = "ACTIVE" => seat[s] = "ACTIVE"
      BY <1>2, <2>2 DEF CancelRoom
    <3>3. QED BY <1>1, <3>1, <3>2, FewerNotOversold
  <2>3. CASE StartRoom(r)
    <3>1. \A q \in Rooms : /\ room'[q].reserved = room[q].reserved
                           /\ room'[q].places = room[q].places
                           /\ Playable(q)' => Playable(q)
      BY <1>2, <2>3 DEF StartRoom, Playable, RoomRow
    <3>2. QED BY <1>1, <2>3, <3>1, FewerNotOversold DEF StartRoom
  <2>4. CASE Complete(r)
    <3>1. \A q \in Rooms : /\ room'[q].reserved = room[q].reserved
                           /\ room'[q].places = room[q].places
                           /\ Playable(q)' => Playable(q)
      BY <1>2, <2>4 DEF Complete, Playable, RoomRow
    <3>2. QED BY <1>1, <2>4, <3>1, FewerNotOversold DEF Complete, seating
  <2>5. CASE ActivateRefill(r) \/ DisableRefill(r) \/ ExpireRefill(r)
    BY <1>1, <2>5, FewerNotOversold DEF ActivateRefill, DisableRefill, ExpireRefill, seating, Playable
  <2>6. QED BY <1>4, <2>1, <2>2, <2>3, <2>4, <2>5 DEF RoomStep
<1>5. ASSUME NEW a \in Apps, AppStep(a) PROVE NotOversold'
  <2>1. CASE CloseApp(a) BY <1>1, <2>1, FewerNotOversold DEF CloseApp, Playable
  <2>2. QED BY <1>1, <1>5, <2>1, AcceptNotOversold DEF AppStep
<1>6. ASSUME NEW s \in Seats, SeatStep(s) PROVE NotOversold'
  <2>1. CASE CancelSeat(s) \/ RemoveSeat(s)
    <3>1. room' = room /\ attendance' = attendance BY <2>1 DEF CancelSeat, RemoveSeat
    <3>2. \A q \in Seats : seat'[q] = "ACTIVE" => seat[q] = "ACTIVE"
      BY <1>2, <2>1 DEF CancelSeat, RemoveSeat, Give
    <3>3. QED BY <1>1, <3>1, <3>2, FewerNotOversold DEF Playable
  <2>2. QED BY <1>1, <1>6, <2>1, AttendanceNotOversold DEF SeatStep
<1>7. CASE Tick \/ \E g \in Guests, u \in Users : ClaimGuest(g, u)
  BY <1>1, <1>7, FewerNotOversold DEF Tick, ClaimGuest, seating, Playable
<1>8. QED BY <1>3, <1>4, <1>5, <1>6, <1>7 DEF Next

\* Applications still to be answered are to rooms that have not started.
ClosedAtStart == \A a \in Apps : app[a] = "PENDING" => room[Venue[a]].status = "PUBLISHED"

\* Only players seated in a room that has started have been marked.
VerdictsNeedStart ==
  \A s \in Seats : attendance[s] # "NOT_SET" \/ marks[s] > 0 =>
    seat[s] = "ACTIVE" /\ room[RoomOf(s)].status \in {"IN_PROGRESS", "COMPLETED"}

\* What the start of a room decides, as an inductive invariant.
StartInv ==
  /\ TypeOK
  /\ NotOversold
  /\ ClosedAtStart
  /\ VerdictsNeedStart

\* Nobody is accepted any more once the room has started.
LEMMA AcceptBeforeStart ==
  ASSUME ClosedAtStart, NEW a \in Apps, NEW recovered, Accept(a, recovered)
  PROVE  room[Venue[a]].status = "PUBLISHED"
BY DEF ClosedAtStart, Accept

\* A room moves on from being published, and takes no application with it.
LEMMA RoomStepStart ==
  ASSUME StartInv, NEW r \in Rooms, RoomStep(r)
  PROVE  ClosedAtStart' /\ VerdictsNeedStart'
<1>1. /\ room \in [Rooms -> RoomRow]
      /\ seat \in [Seats -> SeatStatus] /\ app \in [Apps -> AppStatus]
  BY DEF StartInv, TypeOK
<1>2. \A a \in Apps : Venue[a] \in Rooms BY ConstantsAssumption
<1>3. \A s \in Seats : RoomOf(s) \in Rooms BY SeatParts
<1>4. ClosedAtStart /\ VerdictsNeedStart BY DEF StartInv
<1>5. CASE \E places \in Places, reserved \in 0 .. MaxReserved,
              emergency, material \in BOOLEAN :
             UpdateRoom(r, places, reserved, emergency, material)
  <2>1. /\ UNCHANGED <<app, seat, attendance, marks>>
        /\ \A q \in Rooms : room'[q].status = room[q].status
    BY <1>1, <1>5 DEF UpdateRoom
  <2>2. QED BY <1>2, <1>3, <1>4, <2>1 DEF ClosedAtStart, VerdictsNeedStart, RoomOf
<1>6. CASE CancelRoom(r)
  <2>1. /\ UNCHANGED <<attendance, marks>> /\ room[r].status = "PUBLISHED"
        /\ \A q \in Rooms : q # r => room'[q].status = room[q].status
        /\ app' = CloseApps(r)
        /\ \A s \in Seats : RoomOf(s) # r => seat'[s] = seat[s]
    BY <1>1, <1>6 DEF CancelRoom, Seated, SeatsOf
  <2>2. ClosedAtStart' BY <1>2, <1>4, <2>1 DEF ClosedAtStart, CloseApps
  <2>3. VerdictsNeedStart' BY <1>3, <1>4, <2>1 DEF VerdictsNeedStart, RoomOf
  <2>4. QED BY <2>2, <2>3
<1>7. CASE StartRoom(r)
  <2>1. /\ UNCHANGED <<seat, attendance, marks>> /\ room[r].status = "PUBLISHED"
        /\ \A q \in Rooms : q # r => room'[q].status = room[q].status
        /\ app' = CloseApps(r)
    BY <1>1, <1>7 DEF StartRoom
  <2>2. ClosedAtStart' BY <1>2, <1>4, <2>1 DEF ClosedAtStart, CloseApps
  <2>3. VerdictsNeedStart' BY <1>3, <1>4, <2>1 DEF VerdictsNeedStart, RoomOf
  <2>4. QED BY <2>2, <2>3
<1>8. CASE Complete(r)
  <2>1. /\ UNCHANGED <<app, seat, attendance, marks>>
        /\ room[r].status = "IN_PROGRESS" /\ room'[r].status = "COMPLETED"
        /\ \A q \in Rooms : q # r => room'[q].status = room[q].status
    BY <1>1, <1>8 DEF Complete, GatesHold, seating
  <2>2. QED BY <1>2, <1>3, <1>4, <2>1 DEF ClosedAtStart, VerdictsNeedStart, RoomOf
<1>9. CASE ActivateRefill(r) \/ DisableRefill(r) \/ ExpireRefill(r)
  BY <1>4, <1>9 DEF ActivateRefill, DisableRefill, ExpireRefill, seating, ClosedAtStart,
                    VerdictsNeedStart, RoomOf
<1>10. QED BY <1>5, <1>6, <1>7, <1>8, <1>9 DEF RoomStep

\* Every step keeps acceptance before the start and verdicts after it.
LEMMA StartStep == StartInv /\ [Next]_vars => StartInv'
<1> SUFFICES ASSUME StartInv, [Next]_vars PROVE StartInv' OBVIOUS
<1>1. TypeOK' /\ NotOversold' BY TypeStep, NotOversoldStep DEF StartInv
<1>2. /\ ClosedAtStart /\ VerdictsNeedStart
      /\ attendance \in [Seats -> Attendance] /\ marks \in [Seats -> 0 .. MaxMarks]
      /\ app \in [Apps -> AppStatus] /\ seat \in [Seats -> SeatStatus]
  BY DEF StartInv, TypeOK
<1>3. ClosedAtStart' /\ VerdictsNeedStart'
  <2>1. CASE UNCHANGED vars
    BY <1>2, <2>1 DEF vars, seating, ClosedAtStart, VerdictsNeedStart, RoomOf
  <2>2. CASE \E r \in Rooms : RoomStep(r) BY <2>2, RoomStepStart
  <2>3. ASSUME NEW a \in Apps, AppStep(a) PROVE ClosedAtStart' /\ VerdictsNeedStart'
    <3>1. CASE CloseApp(a)
      BY <1>2, <3>1 DEF CloseApp, ClosedAtStart, VerdictsNeedStart, RoomOf
    <3>2. ASSUME NEW recovered \in SUBSET PendingLosses(Venue[a]), Accept(a, recovered)
          PROVE  ClosedAtStart' /\ VerdictsNeedStart'
      <4>1. /\ UNCHANGED <<room, attendance, marks>> /\ app' = [app EXCEPT ![a] = "ACCEPTED"]
            /\ seat' = [s \in Seats |-> IF s[1] = a THEN "ACTIVE" ELSE seat[s]]
        BY <3>2 DEF Accept
      <4>2. QED BY <1>2, <4>1 DEF ClosedAtStart, VerdictsNeedStart, RoomOf
    <3>3. QED BY <2>3, <3>1, <3>2 DEF AppStep
  <2>4. ASSUME NEW s \in Seats, SeatStep(s) PROVE ClosedAtStart' /\ VerdictsNeedStart'
    <3>1. CASE CancelSeat(s) \/ RemoveSeat(s)
      <4>1. /\ UNCHANGED <<room, app, attendance, marks>>
            /\ room[RoomOf(s)].status = "PUBLISHED"
            /\ \A q \in Seats : RoomOf(q) # RoomOf(s) => seat'[q] = seat[q]
        BY <1>2, <3>1 DEF CancelSeat, RemoveSeat, Give, LeavingWith, RoomOf
      <4>2. QED BY <1>2, <4>1 DEF ClosedAtStart, VerdictsNeedStart, RoomOf
    <3>2. CASE MarkNoShow(s) \/ MarkPresent(s)
      <4>1. /\ UNCHANGED <<room, app, seat>> /\ seat[s] = "ACTIVE"
            /\ room[RoomOf(s)].status = "IN_PROGRESS"
            /\ \A q \in Seats : q # s => attendance'[q] = attendance[q] /\ marks'[q] = marks[q]
        BY <1>2, <3>2 DEF MarkNoShow, MarkPresent, CanMark, Marked, AppendAttendanceLog
      <4>2. QED BY <1>2, <4>1 DEF ClosedAtStart, VerdictsNeedStart, RoomOf
    <3>3. QED BY <2>4, <3>1, <3>2 DEF SeatStep
  <2>5. CASE Tick \/ \E g \in Guests, u \in Users : ClaimGuest(g, u)
    BY <1>2, <2>5 DEF Tick, ClaimGuest, seating, ClosedAtStart, VerdictsNeedStart, RoomOf
  <2>6. QED BY <2>1, <2>2, <2>3, <2>4, <2>5 DEF Next
<1>4. QED BY <1>1, <1>3 DEF StartInv

\* It holds while no room has started.
LEMMA InitStart == Init => StartInv
<1> SUFFICES ASSUME Init PROVE StartInv OBVIOUS
<1>1. TypeOK BY InitTypes
<1>2. ClosedAtStart /\ VerdictsNeedStart
  <2>1. \A a \in Apps : Venue[a] \in Rooms BY ConstantsAssumption
  <2>2. QED BY <2>1 DEF Init, ClosedAtStart, VerdictsNeedStart
<1>3. NotOversold
  <2>1. \A r \in Rooms : Holding(seat, attendance, r) = {} BY DEF Init, Holding, SeatsOf
  <2>2. \A r \in Rooms : room[r].reserved = 0 BY DEF Init
  <2>3. \A r \in Rooms : Cardinality(Holding(seat, attendance, r)) = 0 /\ room[r].places \in Nat
    BY <1>1, <2>1, FS_EmptySet, ConstantsAssumption DEF TypeOK, RoomRow
  <2>4. \A r \in Rooms : Free(r) >= 0 BY <2>2, <2>3 DEF Free, FreeWith
  <2>5. QED BY <2>4 DEF NotOversold
<1>4. QED BY <1>1, <1>2, <1>3 DEF StartInv

\* A room that is still to be played never has more players than places, after
\* any sequence of acceptances, departures, edits and corrections.
THEOREM RoomsAreNotOversold == Spec => []NotOversold
<1>1. StartInv => NotOversold BY DEF StartInv
<1>2. QED BY <1>1, InitStart, StartStep, PTL DEF Spec

\* With it, a mark voids or renews the loss of the one before.
VoidInv ==
  /\ StartInv
  /\ CorrectionsVoidLosses

\* A verdict's loss lives on as long as nothing but its window changes it.
LEMMA VerdictsKept ==
  ASSUME StartInv, CorrectionsVoidLosses, UNCHANGED <<attendance, marks>>,
         \A s \in Seats : \A n \in 1 .. marks[s] :
           \/ loss'[<<s, n>>].state = loss[<<s, n>>].state
           \/ loss[<<s, n>>].state = "PENDING" /\ loss'[<<s, n>>].state = "EXPIRED"
  PROVE  CorrectionsVoidLosses'
<1>1. \A s \in Seats : \A n \in 1 .. marks[s] :
        loss[<<s, n>>].state \in
          (IF attendance[s] = "NO_SHOW" /\ n = marks[s] THEN {"PENDING", "EXPIRED"}
           ELSE {"VOIDED", "EXPIRED"})
  BY DEF CorrectionsVoidLosses
<1>2. \A s \in Seats : \A n \in 1 .. marks[s] :
        loss'[<<s, n>>].state \in
          (IF attendance[s] = "NO_SHOW" /\ n = marks[s] THEN {"PENDING", "EXPIRED"}
           ELSE {"VOIDED", "EXPIRED"})
  BY <1>1
<1>3. QED BY <1>2 DEF CorrectionsVoidLosses

\* The numbers of a seat's marks name events.
LEMMA MarkEvents ==
  ASSUME TypeOK, NEW s \in Seats
  PROVE  /\ marks[s] \in 0 .. MaxMarks /\ MaxMarks \in Nat
         /\ \A n \in 1 .. marks[s] : <<s, n>> \in LossEvents
<1>1. marks[s] \in 0 .. MaxMarks /\ MaxMarks \in Nat BY ConstantsAssumption DEF TypeOK
<1>2. QED BY <1>1 DEF LossEvents

\* An absence leaves a place free, so its loss is recorded.
LEMMA MarkNoShowVoids ==
  ASSUME StartInv, CorrectionsVoidLosses, NEW s \in Seats, MarkNoShow(s)
  PROVE  CorrectionsVoidLosses'
<1>. PICK n : n = marks[s] + 1 OBVIOUS
<1>. PICK r : r = RoomOf(s) OBVIOUS
<1>. PICK att : att = Marked(s, "NO_SHOW") OBVIOUS
<1>1. TypeOK /\ NotOversold BY DEF StartInv
<1>2. /\ marks \in [Seats -> 0 .. MaxMarks] /\ attendance \in [Seats -> Attendance]
      /\ loss \in [LossEvents -> [state : LossState, at : 0 .. MaxTime]]
  BY <1>1 DEF TypeOK
<1>3. /\ marks' = [marks EXCEPT ![s] = n] /\ attendance' = [attendance EXCEPT ![s] = "NO_SHOW"]
      /\ seat[s] = "ACTIVE" /\ attendance[s] # "NO_SHOW" /\ marks[s] < MaxMarks
      /\ room[r].status = "IN_PROGRESS" /\ att = attendance'
      /\ RecordLosses(r, {<<s, n>>}, FreeWith(seat, att, r))
  BY DEF MarkNoShow, CanMark, Marked, AppendAttendanceLog
<1>4. r \in Rooms BY SeatParts
<1>5. FreeWith(seat, att, r) > 0
  <2>. PICK H : H = Holding(seat, attendance, r) OBVIOUS
  <2>1. Holding(seat, att, r) = H \ {s} BY <1>2, <1>3 DEF Holding, SeatsOf
  <2>2. s \in H BY <1>3 DEF Holding, SeatsOf
  <2>3. IsFiniteSet(H) /\ Cardinality(H) \in Nat BY HoldingFinite
  <2>4. Cardinality(H \ {s}) = Cardinality(H) - 1 BY <2>2, <2>3, FS_RemoveElement
  <2>5. room[r].places \in Nat /\ room[r].reserved \in Nat
    BY <1>1, <1>4, RoomTypes
  <2>6. room[r].places - room[r].reserved - Cardinality(H) >= 0
    BY <1>1, <1>3, <1>4 DEF NotOversold, Playable, Free, FreeWith
  <2>7. FreeWith(seat, att, r) = room[r].places - room[r].reserved - Cardinality(H \ {s})
    BY <2>1 DEF FreeWith
  <2>8. QED BY <2>3, <2>4, <2>5, <2>6, <2>7
<1>6. loss' = [e \in LossEvents |-> IF e \in {<<s, n>>} THEN [state |-> "PENDING", at |-> now]
                                    ELSE loss[e]]
  BY <1>3, <1>5 DEF RecordLosses, Lossy
<1>7. n \in 1 .. MaxMarks /\ <<s, n>> \in LossEvents BY <1>1, <1>2, <1>3, MarkEvents DEF LossEvents
<1>8. SUFFICES ASSUME NEW q \in Seats, NEW m \in 1 .. marks'[q]
               PROVE  loss'[<<q, m>>].state \in
                        (IF attendance'[q] = "NO_SHOW" /\ m = marks'[q] THEN {"PENDING", "EXPIRED"}
                         ELSE {"VOIDED", "EXPIRED"})
  BY DEF CorrectionsVoidLosses
<1>9. CASE q = s /\ m = n BY <1>2, <1>3, <1>6, <1>7, <1>9
<1>10. CASE ~ (q = s /\ m = n)
  <2>1. m \in 1 .. marks[q] BY <1>2, <1>3, <1>7, <1>8, <1>10
  <2>2. <<q, m>> \in LossEvents BY <1>1, <2>1, MarkEvents
  <2>3. loss'[<<q, m>>] = loss[<<q, m>>] BY <1>6, <1>10, <2>2
  <2>4. loss[<<q, m>>].state \in
          (IF attendance[q] = "NO_SHOW" /\ m = marks[q] THEN {"PENDING", "EXPIRED"}
           ELSE {"VOIDED", "EXPIRED"})
    BY <2>1 DEF CorrectionsVoidLosses
  <2>5. CASE q = s
    <3>1. attendance[q] # "NO_SHOW" /\ m # marks'[q] BY <1>2, <1>3, <1>10, <2>5
    <3>2. QED BY <2>3, <2>4, <3>1
  <2>6. CASE q # s BY <1>2, <1>3, <2>3, <2>4, <2>6
  <2>7. QED BY <2>5, <2>6
<1>11. QED BY <1>9, <1>10

\* A correction voids the loss of the latest mark, unless its window is over.
LEMMA MarkPresentVoids ==
  ASSUME StartInv, CorrectionsVoidLosses, NEW s \in Seats, MarkPresent(s)
  PROVE  CorrectionsVoidLosses'
<1>1. TypeOK BY DEF StartInv
<1>2. /\ marks \in [Seats -> 0 .. MaxMarks] /\ attendance \in [Seats -> Attendance]
      /\ loss \in [LossEvents -> [state : LossState, at : 0 .. MaxTime]]
  BY <1>1 DEF TypeOK
<1>3. marks' = marks /\ attendance' = [attendance EXCEPT ![s] = "PRESENT"]
  BY DEF MarkPresent, Marked
<1>4. SUFFICES ASSUME NEW q \in Seats, NEW m \in 1 .. marks[q]
               PROVE  loss'[<<q, m>>].state \in
                        (IF attendance'[q] = "NO_SHOW" /\ m = marks[q] THEN {"PENDING", "EXPIRED"}
                         ELSE {"VOIDED", "EXPIRED"})
  BY <1>3 DEF CorrectionsVoidLosses
<1>5. <<q, m>> \in LossEvents BY <1>1, MarkEvents
<1>6. loss[<<q, m>>].state \in
        (IF attendance[q] = "NO_SHOW" /\ m = marks[q] THEN {"PENDING", "EXPIRED"}
         ELSE {"VOIDED", "EXPIRED"})
  BY DEF CorrectionsVoidLosses
<1>7. CASE attendance[s] # "NO_SHOW"
  <2>1. loss' = loss BY <1>7 DEF MarkPresent, Reverses
  <2>2. QED BY <1>2, <1>3, <1>6, <1>7, <2>1
<1>8. CASE attendance[s] = "NO_SHOW"
  <2>. PICK e : e = <<s, marks[s]>> OBVIOUS
  <2>1. VoidLoss(RoomOf(s), e) BY <1>8 DEF MarkPresent, Reverses, LatestMark
  <2>2. loss' = IF loss[e].state = "PENDING"
                THEN [f \in LossEvents |-> IF f \in {e} THEN [loss[f] EXCEPT !.state = "VOIDED"]
                                           ELSE loss[f]]
                ELSE loss
    BY <2>1 DEF VoidLoss, LossWith
  <2>3. CASE <<q, m>> = e
    <3>1. q = s /\ m = marks[s] BY <2>3
    <3>2. loss[e].state \in {"PENDING", "EXPIRED"} BY <1>6, <1>8, <2>3, <3>1
    <3>3. loss'[e].state \in {"VOIDED", "EXPIRED"}
      <4>1. CASE loss[e].state = "PENDING" BY <1>2, <1>5, <2>2, <2>3, <4>1
      <4>2. CASE loss[e].state = "EXPIRED" BY <2>2, <4>2
      <4>3. QED BY <3>2, <4>1, <4>2
    <3>4. attendance'[q] = "PRESENT" BY <1>2, <1>3, <3>1
    <3>5. QED BY <2>3, <3>3, <3>4
  <2>4. CASE <<q, m>> # e
    <3>1. loss'[<<q, m>>] = loss[<<q, m>>] BY <1>5, <2>2, <2>4
    <3>2. q = s => m # marks[s] BY <2>4
    <3>3. QED BY <1>2, <1>3, <1>6, <3>1, <3>2
  <2>5. QED BY <2>3, <2>4
<1>9. QED BY <1>7, <1>8

\* Seats given up before the start lose nothing that a mark stands for.
LEMMA GiveKeepsVerdicts ==
  ASSUME TypeOK, NEW r, NEW freed, NEW status, NEW urgent, Give(r, freed, status, urgent),
         NEW s \in Seats, NEW n \in 1 .. marks[s]
  PROVE  loss'[<<s, n>>] = loss[<<s, n>>]
<1>. PICK events : events = freed \X {0} OBVIOUS
<1>1. PICK available : RecordLosses(r, events, available) BY DEF Give
<1>2. <<s, n>> \in LossEvents /\ n # 0 BY MarkEvents
<1>3. <<s, n>> \notin events BY <1>2
<1>4. QED BY <1>1, <1>2, <1>3, RecordedOnly

\* Every step leaves each verdict its loss.
LEMMA VoidStep == VoidInv /\ [Next]_vars => VoidInv'
<1> SUFFICES ASSUME VoidInv, [Next]_vars PROVE VoidInv' OBVIOUS
<1>1. StartInv' BY StartStep DEF VoidInv
<1>2. /\ StartInv /\ CorrectionsVoidLosses /\ TypeOK
      /\ loss \in [LossEvents -> [state : LossState, at : 0 .. MaxTime]]
  BY DEF VoidInv, StartInv, TypeOK
<1>3. ASSUME attendance' = attendance, marks' = marks, loss' = loss PROVE CorrectionsVoidLosses'
  BY <1>2, <1>3 DEF CorrectionsVoidLosses
<1>4. ASSUME NEW r \in Rooms, RoomStep(r) PROVE CorrectionsVoidLosses'
  <2>1. CASE ExpireRefill(r)
    <3>1. UNCHANGED <<attendance, marks>> /\ loss' = LossWith(PendingLosses(r), "EXPIRED")
      BY <2>1 DEF ExpireRefill, seating
    <3>2. ASSUME NEW e \in LossEvents
          PROVE  \/ loss'[e].state = loss[e].state
                 \/ loss[e].state = "PENDING" /\ loss'[e].state = "EXPIRED"
      BY <1>2, <3>1 DEF LossWith, PendingLosses
    <3>3. \A s \in Seats : \A n \in 1 .. marks[s] : <<s, n>> \in LossEvents BY <1>2, MarkEvents
    <3>4. QED BY <1>2, <3>1, <3>2, <3>3, VerdictsKept
  <2>2. CASE ~ ExpireRefill(r)
    <3>1. UNCHANGED <<attendance, marks, loss>>
      BY <1>4, <2>2 DEF RoomStep, UpdateRoom, CancelRoom, StartRoom, Complete, ActivateRefill,
                        DisableRefill, seating
    <3>2. QED BY <1>3, <3>1
  <2>3. QED BY <2>1, <2>2
<1>5. ASSUME NEW a \in Apps, AppStep(a) PROVE CorrectionsVoidLosses'
  <2>1. CASE CloseApp(a) BY <1>3, <2>1 DEF CloseApp
  <2>2. ASSUME NEW recovered \in SUBSET PendingLosses(Venue[a]), Accept(a, recovered)
        PROVE  CorrectionsVoidLosses'
    <3>1. UNCHANGED <<attendance, marks>> /\ loss' = LossWith(recovered, "RECOVERED")
      BY <2>2 DEF Accept
    <3>2. room[Venue[a]].status = "PUBLISHED" BY <1>2, <2>2, AcceptBeforeStart DEF StartInv
    <3>3. ASSUME NEW s \in Seats, NEW n \in 1 .. marks[s]
          PROVE  loss'[<<s, n>>].state = loss[<<s, n>>].state
      <4>1. <<s, n>> \in LossEvents /\ marks[s] > 0 BY <1>2, MarkEvents
      <4>2. room[RoomOf(s)].status \in {"IN_PROGRESS", "COMPLETED"}
        BY <1>2, <4>1 DEF StartInv, VerdictsNeedStart
      <4>3. <<s, n>> \notin recovered BY <3>2, <4>2 DEF PendingLosses
      <4>4. QED BY <3>1, <4>1, <4>3 DEF LossWith
    <3>4. QED BY <1>2, <3>1, <3>3, VerdictsKept
  <2>3. QED BY <1>5, <2>1, <2>2 DEF AppStep
<1>6. ASSUME NEW s \in Seats, SeatStep(s) PROVE CorrectionsVoidLosses'
  <2>1. CASE CancelSeat(s)
    <3>1. UNCHANGED <<attendance, marks>> BY <2>1 DEF CancelSeat
    <3>2. PICK freed, urgent : Give(RoomOf(s), freed, "CANCELLED", urgent)
      BY <2>1 DEF CancelSeat
    <3>3. QED BY <1>2, <3>1, <3>2, GiveKeepsVerdicts, VerdictsKept
  <2>2. CASE RemoveSeat(s)
    <3>1. UNCHANGED <<attendance, marks>> BY <2>2 DEF RemoveSeat
    <3>2. PICK freed, urgent : Give(RoomOf(s), freed, "REMOVED_BY_HOST", urgent)
      BY <2>2 DEF RemoveSeat
    <3>3. QED BY <1>2, <3>1, <3>2, GiveKeepsVerdicts, VerdictsKept
  <2>3. QED BY <1>2, <1>6, <2>1, <2>2, MarkNoShowVoids, MarkPresentVoids DEF SeatStep
<1>7. ASSUME Tick \/ (\E g \in Guests, u \in Users : ClaimGuest(g, u)) \/ UNCHANGED vars
      PROVE  CorrectionsVoidLosses'
  <2>1. attendance' = attendance /\ marks' = marks /\ loss' = loss
    BY <1>7 DEF Tick, ClaimGuest, seating, vars
  <2>2. QED BY <1>3, <2>1
<1>8. QED BY <1>1, <1>4, <1>5, <1>6, <1>7 DEF Next, VoidInv

\* It holds while nobody has been marked.
LEMMA InitVoid == Init => VoidInv
<1>1. ASSUME Init PROVE CorrectionsVoidLosses
  <2>1. \A s \in Seats : marks[s] = 0 BY <1>1 DEF Init
  <2>2. QED BY <2>1 DEF CorrectionsVoidLosses
<1>2. QED BY <1>1, InitStart DEF VoidInv

\* A seat found absent keeps the loss of its latest mark, and one that turned
\* out to be present keeps none pending, whatever the host's verdicts before.
THEOREM VerdictsHaveTheirLosses == Spec => []CorrectionsVoidLosses
<1>1. VoidInv => CorrectionsVoidLosses BY DEF VoidInv
<1>2. QED BY <1>1, InitVoid, VoidStep, PTL DEF Spec

\* The losses of seats given up before the start.
GivenUp(r) == {e \in PendingLosses(r) : e[2] = 0}

\* Whoever is seated has a place, found absent or not.
SeatsFit == \A r \in Rooms : Playable(r) => Cardinality(Seated(r)) <= room[r].places

\* Once the loss of an absence has run out, no seat given up is missed any more.
ExpiryEndsAll ==
  \A s \in Seats : \A n \in 1 .. MaxMarks :
    loss[<<s, n>>].state = "EXPIRED" => GivenUp(RoomOf(s)) = {}

\* Whoever counts as absent has been marked.
AbsencesMarked == \A s \in Seats : attendance[s] = "NO_SHOW" => marks[s] > 0

\* The inductive invariant of the places.
PlacesInv == HostInv /\ VoidInv /\ SeatsFit /\ ExpiryEndsAll /\ AbsencesMarked

\* Losses and players can be counted.
LEMMA PlacesFinite ==
  ASSUME NEW r
  PROVE  /\ IsFiniteSet(PendingLosses(r)) /\ Cardinality(PendingLosses(r)) \in Nat
         /\ IsFiniteSet(GivenUp(r)) /\ Cardinality(GivenUp(r)) \in Nat
         /\ IsFiniteSet(Seated(r)) /\ Cardinality(Seated(r)) \in Nat
<1>1. PendingLosses(r) \subseteq LossEvents /\ GivenUp(r) \subseteq LossEvents /\ Seated(r) \subseteq Seats
  BY DEF PendingLosses, GivenUp, Seated, SeatsOf
<1>2. IsFiniteSet(PendingLosses(r)) /\ IsFiniteSet(GivenUp(r)) /\ IsFiniteSet(Seated(r))
  BY <1>1, FiniteData, FS_Subset
<1>3. QED BY <1>2, FS_CardinalityType

\* The same for the next state.
LEMMA PlacesFiniteNext ==
  ASSUME NEW r
  PROVE  /\ IsFiniteSet(PendingLosses(r)') /\ Cardinality(PendingLosses(r)') \in Nat
         /\ IsFiniteSet(Seated(r)') /\ Cardinality(Seated(r)') \in Nat
         /\ Cardinality(Holding(seat', attendance', r)) \in Nat
         /\ Claims(r)' = Cardinality(PendingLosses(r)') + Cardinality(Holding(seat', attendance', r))
<1>1. PendingLosses(r)' \subseteq LossEvents /\ Seated(r)' \subseteq Seats
  BY DEF PendingLosses, Seated, SeatsOf
<1>2. IsFiniteSet(PendingLosses(r)') /\ IsFiniteSet(Seated(r)') BY <1>1, FiniteData, FS_Subset
<1>3. Claims(r)' = Cardinality(PendingLosses(r)') + Cardinality(Holding(seat', attendance', r))
  BY DEF Claims, Holding, SeatsOf, RoomOf
<1>4. QED BY <1>2, <1>3, HoldingFinite, FS_CardinalityType

\* Before the start all losses are of seats given up, and all players hold a slot.
LEMMA BeforeStart ==
  ASSUME HostInv, StartInv, NEW r \in Rooms, room[r].status = "PUBLISHED"
  PROVE  GivenUp(r) = PendingLosses(r) /\ Seated(r) = Holding(seat, attendance, r)
<1>1. TypeOK /\ Unrecorded /\ VerdictsNeedStart BY DEF HostInv, StartInv
<1>2. MaxMarks \in Nat /\ marks \in [Seats -> 0 .. MaxMarks]
  BY <1>1, ConstantsAssumption DEF TypeOK
<1>3. ASSUME NEW s \in Seats, RoomOf(s) = r PROVE attendance[s] = "NOT_SET" /\ marks[s] = 0
  BY <1>1, <1>2, <1>3 DEF VerdictsNeedStart
<1>4. ASSUME NEW e \in PendingLosses(r) PROVE e[2] = 0
  <2>1. e[1] \in Seats /\ e[2] \in 0 .. MaxMarks /\ e = <<e[1], e[2]>> /\ RoomOf(e[1]) = r
        /\ loss[e].state = "PENDING"
    BY DEF PendingLosses, LossEvents
  <2>2. marks[e[1]] = 0 BY <1>3, <2>1
  <2>3. e[2] > 0 => loss[<<e[1], e[2]>>].state = "NONE" BY <1>1, <2>1, <2>2 DEF Unrecorded
  <2>4. ~ (e[2] > 0) BY <2>1, <2>3
  <2>5. QED BY <1>2, <2>1, <2>4
<1>5. GivenUp(r) = PendingLosses(r) BY <1>4 DEF GivenUp
<1>6. QED BY <1>3, <1>5 DEF Seated, Holding, SeatsOf

-----------------------------------------------------------------------------
(* The seats that are taken fit into the room. *)

\* Steps that give nobody a seat and leave the rooms as large as they were.
LEMMA QuietSeats ==
  ASSUME TypeOK, SeatsFit,
         \A r \in Rooms : room'[r].places = room[r].places /\ (Playable(r)' => Playable(r)),
         \A s \in Seats : seat'[s] = "ACTIVE" => seat[s] = "ACTIVE"
  PROVE  SeatsFit'
<1>1. SUFFICES ASSUME NEW r \in Rooms, Playable(r)'
               PROVE  Cardinality(Seated(r)') <= room'[r].places
  BY DEF SeatsFit
<1>2. Seated(r)' \subseteq Seated(r) BY DEF Seated, SeatsOf, RoomOf
<1>3. Cardinality(Seated(r)') <= Cardinality(Seated(r)) BY <1>2, PlacesFinite, FS_Subset
<1>4. Cardinality(Seated(r)) <= room[r].places BY <1>1 DEF SeatsFit
<1>5. room[r].places \in Nat BY ConstantsAssumption DEF TypeOK, RoomRow
<1>6. QED BY <1>3, <1>4, <1>5, PlacesFinite, PlacesFiniteNext

\* In a room that is published every player holds a slot, and there are enough.
LEMMA PublishedSeats ==
  ASSUME StartInv', NEW r \in Rooms, room'[r].status = "PUBLISHED"
  PROVE  Cardinality(Seated(r)') <= room'[r].places
<1>1. /\ room'[r].places \in Nat /\ room'[r].reserved \in 0 .. MaxReserved /\ MaxReserved \in Nat
      /\ marks' \in [Seats -> 0 .. MaxMarks]
  BY ConstantsAssumption DEF StartInv, TypeOK, RoomRow
<1>2. \A s \in Seats : RoomOf(s) = r => attendance'[s] = "NOT_SET"
  BY DEF StartInv, VerdictsNeedStart, RoomOf
<1>3. Seated(r)' = Holding(seat', attendance', r) BY <1>2 DEF Seated, Holding, SeatsOf, RoomOf
<1>4. Free(r)' >= 0 BY DEF StartInv, NotOversold, Playable
<1>5. Free(r)' = room'[r].places - room'[r].reserved - Cardinality(Holding(seat', attendance', r))
  BY DEF Free, FreeWith, Holding, SeatsOf, RoomOf
<1>6. QED BY <1>1, <1>3, <1>4, <1>5, HoldingFinite

\* Every step leaves the players a place each.
LEMMA SeatsFitStep == PlacesInv /\ StartInv' /\ [Next]_vars => SeatsFit'
<1> SUFFICES ASSUME PlacesInv, StartInv', [Next]_vars PROVE SeatsFit' OBVIOUS
<1>1. TypeOK /\ StartInv /\ SeatsFit BY DEF PlacesInv, HostInv, VoidInv
<1>2. room \in [Rooms -> RoomRow] /\ seat \in [Seats -> SeatStatus] BY <1>1 DEF TypeOK
<1>3. ASSUME NEW r \in Rooms, RoomStep(r) PROVE SeatsFit'
  <2>1. CASE \E places \in Places, reserved \in 0 .. MaxReserved,
                emergency, material \in BOOLEAN :
               UpdateRoom(r, places, reserved, emergency, material)
    <3>1. /\ room'[r].status = "PUBLISHED" /\ seat' = seat
          /\ \A q \in Rooms : q # r => room'[q] = room[q]
      BY <1>2, <2>1 DEF UpdateRoom, RoomRow
    <3>2. SUFFICES ASSUME NEW q \in Rooms, Playable(q)', q # r
                   PROVE  Cardinality(Seated(q)') <= room'[q].places
      BY <3>1, PublishedSeats DEF SeatsFit
    <3>3. Seated(q)' = Seated(q) BY <3>1 DEF Seated, SeatsOf, RoomOf
    <3>4. QED BY <1>1, <3>1, <3>2, <3>3 DEF SeatsFit, Playable
  <2>2. CASE ~ \E places \in Places, reserved \in 0 .. MaxReserved,
                  emergency, material \in BOOLEAN :
                 UpdateRoom(r, places, reserved, emergency, material)
    <3>1. \A q \in Rooms : room'[q].places = room[q].places /\ (Playable(q)' => Playable(q))
      BY <1>2, <1>3, <2>2 DEF RoomStep, CancelRoom, StartRoom, Complete, ActivateRefill,
                              DisableRefill, ExpireRefill, Playable, RoomRow
    <3>2. \A s \in Seats : seat'[s] = "ACTIVE" => seat[s] = "ACTIVE"
      BY <1>2, <1>3, <2>2 DEF RoomStep, CancelRoom, StartRoom, Complete, ActivateRefill,
                              DisableRefill, ExpireRefill, seating
    <3>3. QED BY <1>1, <3>1, <3>2, QuietSeats
  <2>3. QED BY <2>1, <2>2
<1>4. ASSUME NEW a \in Apps, AppStep(a) PROVE SeatsFit'
  <2>1. CASE CloseApp(a)
    <3>1. room' = room /\ seat' = seat BY <2>1 DEF CloseApp
    <3>2. QED BY <1>1, <3>1, QuietSeats DEF Playable
  <2>2. ASSUME NEW recovered \in SUBSET PendingLosses(Venue[a]), Accept(a, recovered)
        PROVE  SeatsFit'
    <3>1. /\ room' = room
          /\ seat' = [s \in Seats |-> IF s[1] = a THEN "ACTIVE" ELSE seat[s]]
      BY <2>2 DEF Accept
    <3>2. room'[Venue[a]].status = "PUBLISHED" /\ Venue[a] \in Rooms
      BY <1>1, <2>2, <3>1, AcceptBeforeStart, ConstantsAssumption DEF StartInv
    <3>3. SUFFICES ASSUME NEW q \in Rooms, Playable(q)', q # Venue[a]
                   PROVE  Cardinality(Seated(q)') <= room'[q].places
      BY <3>2, PublishedSeats DEF SeatsFit
    <3>4. Seated(q)' = Seated(q) BY <3>1, <3>3 DEF Seated, SeatsOf, RoomOf
    <3>5. QED BY <1>1, <3>1, <3>3, <3>4 DEF SeatsFit, Playable
  <2>3. QED BY <1>4, <2>1, <2>2 DEF AppStep
<1>5. ASSUME NEW s \in Seats, SeatStep(s) PROVE SeatsFit'
  <2>1. room' = room
    BY <1>5 DEF SeatStep, CancelSeat, RemoveSeat, MarkNoShow, MarkPresent
  <2>2. \A q \in Seats : seat'[q] = "ACTIVE" => seat[q] = "ACTIVE"
    BY <1>2, <1>5 DEF SeatStep, CancelSeat, RemoveSeat, MarkNoShow, MarkPresent, Give
  <2>3. QED BY <1>1, <2>1, <2>2, QuietSeats DEF Playable
<1>6. ASSUME Tick \/ (\E g \in Guests, u \in Users : ClaimGuest(g, u)) \/ UNCHANGED vars
      PROVE  SeatsFit'
  <2>1. room' = room /\ seat' = seat BY <1>6 DEF Tick, ClaimGuest, seating, vars
  <2>2. QED BY <1>1, <2>1, QuietSeats DEF Playable
<1>7. QED BY <1>3, <1>4, <1>5, <1>6 DEF Next

-----------------------------------------------------------------------------
(* When a refill runs out all losses do, those of seats given up too. *)

\* Steps by which no absence's loss runs out and no seat is given up.
LEMMA ExpiryKept ==
  ASSUME ExpiryEndsAll,
         \A e \in LossEvents : loss'[e].state = "EXPIRED" /\ e[2] # 0 => loss[e].state = "EXPIRED",
         \A e \in LossEvents : loss'[e].state = "PENDING" /\ e[2] = 0 => loss[e].state = "PENDING"
  PROVE  ExpiryEndsAll'
<1>1. \A r \in Rooms : GivenUp(r)' \subseteq GivenUp(r)
  BY DEF GivenUp, PendingLosses, RoomOf
<1>2. SUFFICES ASSUME NEW s \in Seats, NEW n \in 1 .. MaxMarks, loss'[<<s, n>>].state = "EXPIRED"
               PROVE  GivenUp(RoomOf(s))' = {}
  BY DEF ExpiryEndsAll, RoomOf
<1>3. <<s, n>> \in LossEvents /\ n # 0 BY ConstantsAssumption DEF LossEvents
<1>4. loss[<<s, n>>].state = "EXPIRED" BY <1>2, <1>3
<1>5. GivenUp(RoomOf(s)) = {} BY <1>4 DEF ExpiryEndsAll
<1>6. QED BY <1>1, <1>5, SeatParts DEF RoomOf

\* Seats are given up before the start, when nobody has been found absent.
LEMMA GiveExpiry ==
  ASSUME PlacesInv, NEW r \in Rooms, room[r].status = "PUBLISHED", NEW freed \in SUBSET Seats,
         NEW status, NEW urgent, Give(r, freed, status, urgent), \A s \in freed : RoomOf(s) = r
  PROVE  ExpiryEndsAll'
<1>. PICK events : events = freed \X {0} OBVIOUS
<1>1. PICK available : RecordLosses(r, events, available) BY DEF Give
<1>2. TypeOK /\ Unrecorded /\ VerdictsNeedStart /\ ExpiryEndsAll
  BY DEF PlacesInv, HostInv, VoidInv, StartInv
<1>3. \A e \in LossEvents : e \notin events => loss'[e] = loss[e]
  BY <1>1, <1>2, RecordedOnly
<1>4. SUFFICES ASSUME NEW s \in Seats, NEW n \in 1 .. MaxMarks, loss'[<<s, n>>].state = "EXPIRED"
               PROVE  GivenUp(RoomOf(s))' = {}
  BY DEF ExpiryEndsAll, RoomOf
<1>5. <<s, n>> \in LossEvents /\ n # 0 /\ n \in 0 .. MaxMarks /\ marks[s] \in 0 .. MaxMarks
      /\ MaxMarks \in Nat
  BY <1>2, ConstantsAssumption DEF LossEvents, TypeOK
<1>6. loss[<<s, n>>].state = "EXPIRED" BY <1>3, <1>4, <1>5
<1>7. GivenUp(RoomOf(s)) = {} BY <1>2, <1>6 DEF ExpiryEndsAll
<1>8. RoomOf(s) # r
  <2>1. ~ (n > marks[s]) BY <1>2, <1>5, <1>6 DEF Unrecorded
  <2>2. marks[s] > 0 BY <1>5, <2>1
  <2>3. QED BY <1>2, <2>2 DEF VerdictsNeedStart
<1>9. GivenUp(RoomOf(s))' \subseteq GivenUp(RoomOf(s))
  BY <1>3, <1>8 DEF GivenUp, PendingLosses, RoomOf
<1>10. QED BY <1>7, <1>9

\* Every step keeps it.
LEMMA ExpiryStep == PlacesInv /\ [Next]_vars => ExpiryEndsAll'
<1> SUFFICES ASSUME PlacesInv, [Next]_vars PROVE ExpiryEndsAll' OBVIOUS
<1>1. /\ TypeOK /\ ExpiryEndsAll
      /\ loss \in [LossEvents -> [state : LossState, at : 0 .. MaxTime]]
  BY DEF PlacesInv, HostInv, TypeOK
<1>2. ASSUME NEW r \in Rooms, RoomStep(r) PROVE ExpiryEndsAll'
  <2>1. CASE ExpireRefill(r)
    <3>1. loss' = LossWith(PendingLosses(r), "EXPIRED") BY <2>1 DEF ExpireRefill
    <3>2. SUFFICES ASSUME NEW s \in Seats, NEW n \in 1 .. MaxMarks,
                          loss'[<<s, n>>].state = "EXPIRED"
                   PROVE  GivenUp(RoomOf(s))' = {}
      BY DEF ExpiryEndsAll, RoomOf
    <3>3. CASE RoomOf(s) = r
      BY <1>1, <3>1, <3>3 DEF LossWith, GivenUp, PendingLosses, RoomOf
    <3>4. CASE RoomOf(s) # r
      <4>1. <<s, n>> \in LossEvents BY ConstantsAssumption DEF LossEvents
      <4>2. loss[<<s, n>>].state = "EXPIRED"
        BY <1>1, <3>1, <3>2, <3>4, <4>1 DEF LossWith, PendingLosses
      <4>3. GivenUp(RoomOf(s)) = {} BY <1>1, <4>2 DEF ExpiryEndsAll
      <4>4. GivenUp(RoomOf(s))' \subseteq GivenUp(RoomOf(s))
        BY <1>1, <3>1 DEF LossWith, GivenUp, PendingLosses, RoomOf
      <4>5. QED BY <4>3, <4>4
    <3>5. QED BY <3>3, <3>4
  <2>2. CASE ~ ExpireRefill(r)
    <3>1. loss' = loss
      BY <1>2, <2>2 DEF RoomStep, UpdateRoom, CancelRoom, StartRoom, Complete, ActivateRefill,
                        DisableRefill
    <3>2. QED BY <1>1, <3>1, ExpiryKept
  <2>3. QED BY <2>1, <2>2
<1>3. ASSUME NEW a \in Apps, AppStep(a) PROVE ExpiryEndsAll'
  <2>1. CASE CloseApp(a) BY <1>1, <2>1, ExpiryKept DEF CloseApp
  <2>2. ASSUME NEW recovered \in SUBSET PendingLosses(Venue[a]), Accept(a, recovered)
        PROVE  ExpiryEndsAll'
    <3>1. loss' = LossWith(recovered, "RECOVERED") BY <2>2 DEF Accept
    <3>2. \A e \in LossEvents : /\ loss'[e].state = "EXPIRED" => loss[e].state = "EXPIRED"
                                /\ loss'[e].state = "PENDING" => loss[e].state = "PENDING"
      BY <1>1, <3>1 DEF LossWith
    <3>3. QED BY <1>1, <3>2, ExpiryKept
  <2>3. QED BY <1>3, <2>1, <2>2 DEF AppStep
<1>4. ASSUME NEW s \in Seats, SeatStep(s) PROVE ExpiryEndsAll'
  <2>1. CASE CancelSeat(s)
    <3>1. PICK urgent : Give(RoomOf(s), LeavingWith(s), "CANCELLED", urgent)
                        /\ room[RoomOf(s)].status = "PUBLISHED" /\ seat[s] = "ACTIVE"
      BY <2>1 DEF CancelSeat
    <3>2. QED BY <3>1, LeavingSeats, SeatParts, GiveExpiry
  <2>2. CASE RemoveSeat(s)
    <3>1. PICK urgent : Give(RoomOf(s), {s}, "REMOVED_BY_HOST", urgent)
                        /\ room[RoomOf(s)].status = "PUBLISHED"
      BY <2>2 DEF RemoveSeat
    <3>2. QED BY <3>1, SeatParts, GiveExpiry
  <2>3. CASE MarkNoShow(s)
    <3>. PICK events : events = {<<s, marks[s] + 1>>} OBVIOUS
    <3>1. PICK available : RecordLosses(RoomOf(s), events, available) BY <2>3 DEF MarkNoShow
    <3>2. \A e \in LossEvents : loss'[e] = loss[e] \/ (e \in events /\ loss'[e].state = "PENDING")
      BY <1>1, <3>1 DEF RecordLosses
    <3>3. \A e \in events : e[2] # 0 BY <1>1, MarkEvents
    <3>4. QED BY <1>1, <3>2, <3>3, ExpiryKept
  <2>4. CASE MarkPresent(s)
    <3>1. loss' = loss \/ \E events : loss' = LossWith(events, "VOIDED")
      BY <2>4 DEF MarkPresent, VoidLoss
    <3>2. \A e \in LossEvents : /\ loss'[e].state = "EXPIRED" => loss[e].state = "EXPIRED"
                                /\ loss'[e].state = "PENDING" => loss[e].state = "PENDING"
      BY <1>1, <3>1 DEF LossWith
    <3>3. QED BY <1>1, <3>2, ExpiryKept
  <2>5. QED BY <1>4, <2>1, <2>2, <2>3, <2>4 DEF SeatStep
<1>5. ASSUME Tick \/ (\E g \in Guests, u \in Users : ClaimGuest(g, u)) \/ UNCHANGED vars
      PROVE  ExpiryEndsAll'
  <2>1. loss' = loss BY <1>5 DEF Tick, ClaimGuest, seating, vars
  <2>2. QED BY <1>1, <2>1, ExpiryKept
<1>6. QED BY <1>2, <1>3, <1>4, <1>5 DEF Next

\* Nobody is found absent without a mark.
LEMMA MarkedStep ==
  ASSUME TypeOK, AbsencesMarked, [Next]_vars
  PROVE  AbsencesMarked'
<1>1. /\ attendance \in [Seats -> Attendance] /\ marks \in [Seats -> 0 .. MaxMarks]
      /\ MaxMarks \in Nat
  BY ConstantsAssumption DEF TypeOK
<1>2. CASE attendance' = attendance /\ marks' = marks BY <1>2 DEF AbsencesMarked
<1>3. ASSUME NEW s \in Seats, MarkNoShow(s) \/ MarkPresent(s) PROVE AbsencesMarked'
  <2>1. CASE MarkNoShow(s)
    <3>1. /\ attendance' = [attendance EXCEPT ![s] = "NO_SHOW"]
          /\ marks' = [marks EXCEPT ![s] = @ + 1]
      BY <2>1 DEF MarkNoShow, Marked, AppendAttendanceLog
    <3>2. marks[s] \in Nat BY <1>1
    <3>3. QED BY <1>1, <3>1, <3>2 DEF AbsencesMarked
  <2>2. CASE MarkPresent(s)
    <3>1. attendance' = [attendance EXCEPT ![s] = "PRESENT"] /\ marks' = marks
      BY <2>2 DEF MarkPresent, Marked
    <3>2. QED BY <1>1, <3>1 DEF AbsencesMarked
  <2>3. QED BY <1>3, <2>1, <2>2
<1>4. ASSUME NEW r \in Rooms, RoomStep(r) PROVE attendance' = attendance /\ marks' = marks
  BY <1>4 DEF RoomStep, UpdateRoom, CancelRoom, StartRoom, Complete, ActivateRefill,
              DisableRefill, ExpireRefill, seating
<1>5. ASSUME NEW a \in Apps, AppStep(a) PROVE attendance' = attendance /\ marks' = marks
  BY <1>5 DEF AppStep, Accept, CloseApp
<1>6. ASSUME NEW s \in Seats, CancelSeat(s) \/ RemoveSeat(s)
      PROVE  attendance' = attendance /\ marks' = marks
  BY <1>6 DEF CancelSeat, RemoveSeat
<1>7. ASSUME Tick \/ (\E g \in Guests, u \in Users : ClaimGuest(g, u)) \/ UNCHANGED vars
      PROVE  attendance' = attendance /\ marks' = marks
  BY <1>7 DEF Tick, ClaimGuest, seating, vars
<1>8. QED BY <1>2, <1>3, <1>4, <1>5, <1>6, <1>7 DEF Next, SeatStep

\* Every step keeps the invariant of the places.
LEMMA PlacesStep == PlacesInv /\ [Next]_vars => PlacesInv'
<1> SUFFICES ASSUME PlacesInv, [Next]_vars PROVE PlacesInv' OBVIOUS
<1>1. HostInv' /\ VoidInv' BY HostStep, VoidStep DEF PlacesInv
<1>2. SeatsFit' /\ ExpiryEndsAll' BY <1>1, SeatsFitStep, ExpiryStep DEF VoidInv
<1>3. AbsencesMarked' BY MarkedStep DEF PlacesInv, HostInv
<1>4. QED BY <1>1, <1>2, <1>3 DEF PlacesInv

\* It holds while no place has been given up.
LEMMA InitPlaces == Init => PlacesInv
<1> SUFFICES ASSUME Init PROVE PlacesInv OBVIOUS
<1>1. HostInv /\ VoidInv /\ TypeOK BY InitHost, InitVoid DEF HostInv
<1>2. \A r \in Rooms : Cardinality(Seated(r)) = 0
  <2>1. \A r \in Rooms : Seated(r) = {} BY DEF Init, Seated, SeatsOf
  <2>2. QED BY <2>1, FS_EmptySet
<1>3. SeatsFit BY <1>1, <1>2, RoomTypes DEF SeatsFit
<1>4. ExpiryEndsAll
  <2>1. \A r \in Rooms : GivenUp(r) = {} BY DEF Init, NoLoss, GivenUp, PendingLosses
  <2>2. QED BY <2>1, SeatParts DEF ExpiryEndsAll
<1>5. AbsencesMarked BY DEF Init, AbsencesMarked
<1>6. QED BY <1>1, <1>3, <1>4, <1>5 DEF PlacesInv

-----------------------------------------------------------------------------
(* What losses and players claim together. *)

\* Players who leave make no more losses than they leave places.
LEMMA SeatsForLosses ==
  ASSUME NEW r, NEW E, NEW F, IsFiniteSet(E), IsFiniteSet(F), Cardinality(E) <= Cardinality(F),
         PendingLosses(r)' \subseteq PendingLosses(r) \cup E,
         F \subseteq Holding(seat, attendance, r),
         Holding(seat', attendance', r) \subseteq Holding(seat, attendance, r) \ F
  PROVE  Claims(r)' <= Claims(r)
<1>. DEFINE P == PendingLosses(r)
            H == Holding(seat, attendance, r)
<1>1. Cardinality(P \cup E) <= Cardinality(P) + Cardinality(E) /\ IsFiniteSet(P \cup E)
  <2>1. /\ IsFiniteSet(P \cup E)
        /\ Cardinality(P \cup E) = Cardinality(P) + Cardinality(E) - Cardinality(P \cap E)
    BY PlacesFinite, FS_Union
  <2>2. IsFiniteSet(P \cap E) BY PlacesFinite, FS_Intersection
  <2>3. Cardinality(P \cap E) \in Nat /\ Cardinality(E) \in Nat BY <2>2, FS_CardinalityType
  <2>4. QED BY <2>1, <2>3, PlacesFinite
<1>2. Cardinality(H \ F) = Cardinality(H) - Cardinality(F) /\ IsFiniteSet(H \ F)
  <2>1. H \cap F = F OBVIOUS
  <2>2. IsFiniteSet(H \ F) /\ Cardinality(H \ F) = Cardinality(H) - Cardinality(H \cap F)
    BY HoldingFinite, FS_Difference
  <2>3. QED BY <2>1, <2>2
<1>3. /\ Cardinality(PendingLosses(r)') <= Cardinality(P \cup E)
      /\ Cardinality(Holding(seat', attendance', r)) <= Cardinality(H \ F)
  BY <1>1, <1>2, FS_Subset
<1>4. Cardinality(E) \in Nat /\ Cardinality(F) \in Nat BY FS_CardinalityType
<1>5. Claims(r) = Cardinality(P) + Cardinality(H) BY DEF Claims
<1>6. Cardinality(P) \in Nat /\ Cardinality(H) \in Nat BY PlacesFinite, HoldingFinite
<1>7. /\ Cardinality(PendingLosses(r)') \in Nat
      /\ Cardinality(Holding(seat', attendance', r)) \in Nat
      /\ Claims(r)' = Cardinality(PendingLosses(r)') + Cardinality(Holding(seat', attendance', r))
  BY PlacesFiniteNext
<1>8. /\ Cardinality(P \cup E) \in Nat /\ Cardinality(H \ F) \in Nat
  BY <1>1, <1>2, FS_CardinalityType
<1>. HIDE DEF P, H
<1>9. QED BY <1>8, <1>1, <1>2, <1>3, <1>4, <1>5, <1>6, <1>7

\* Losses made good are no fewer than the places that are taken.
LEMMA LossesForSeats ==
  ASSUME NEW r, NEW E, NEW F, IsFiniteSet(E), IsFiniteSet(F), Cardinality(F) <= Cardinality(E),
         E \subseteq PendingLosses(r), PendingLosses(r)' \subseteq PendingLosses(r) \ E,
         Holding(seat', attendance', r) \subseteq Holding(seat, attendance, r) \cup F
  PROVE  Claims(r)' <= Claims(r)
<1>. DEFINE P == PendingLosses(r)
            H == Holding(seat, attendance, r)
<1>1. Cardinality(H \cup F) <= Cardinality(H) + Cardinality(F) /\ IsFiniteSet(H \cup F)
  <2>1. /\ IsFiniteSet(H \cup F)
        /\ Cardinality(H \cup F) = Cardinality(H) + Cardinality(F) - Cardinality(H \cap F)
    BY HoldingFinite, FS_Union
  <2>2. IsFiniteSet(H \cap F) BY HoldingFinite, FS_Intersection
  <2>3. Cardinality(H \cap F) \in Nat /\ Cardinality(F) \in Nat BY <2>2, FS_CardinalityType
  <2>4. QED BY <2>1, <2>3, HoldingFinite
<1>2. Cardinality(P \ E) = Cardinality(P) - Cardinality(E) /\ IsFiniteSet(P \ E)
  <2>1. P \cap E = E OBVIOUS
  <2>2. IsFiniteSet(P \ E) /\ Cardinality(P \ E) = Cardinality(P) - Cardinality(P \cap E)
    BY PlacesFinite, FS_Difference
  <2>3. QED BY <2>1, <2>2
<1>3. /\ Cardinality(PendingLosses(r)') <= Cardinality(P \ E)
      /\ Cardinality(Holding(seat', attendance', r)) <= Cardinality(H \cup F)
  BY <1>1, <1>2, FS_Subset
<1>4. Cardinality(E) \in Nat /\ Cardinality(F) \in Nat BY FS_CardinalityType
<1>5. Claims(r) = Cardinality(P) + Cardinality(H) BY DEF Claims
<1>6. Cardinality(P) \in Nat /\ Cardinality(H) \in Nat BY PlacesFinite, HoldingFinite
<1>7. /\ Cardinality(PendingLosses(r)') \in Nat
      /\ Cardinality(Holding(seat', attendance', r)) \in Nat
      /\ Claims(r)' = Cardinality(PendingLosses(r)') + Cardinality(Holding(seat', attendance', r))
  BY PlacesFiniteNext
<1>8. /\ Cardinality(P \ E) \in Nat /\ Cardinality(H \cup F) \in Nat
  BY <1>1, <1>2, FS_CardinalityType
<1>. HIDE DEF P, H
<1>9. QED BY <1>8, <1>1, <1>2, <1>3, <1>4, <1>5, <1>6, <1>7

\* A room where nobody comes in and nothing more is missed.
LEMMA QuietClaims ==
  ASSUME NEW r, PendingLosses(r)' \subseteq PendingLosses(r),
         Holding(seat', attendance', r) \subseteq Holding(seat, attendance, r)
  PROVE  Claims(r)' <= Claims(r)
<1>1. IsFiniteSet({}) /\ Cardinality({}) = 0 BY FS_EmptySet
<1>2. Cardinality({}) <= Cardinality({}) BY <1>1
<1>3. QED BY <1>1, <1>2, SeatsForLosses

\* What the property says of one room.
Fits(r) == Claims(r)' <= Claims(r) \/ Claims(r)' <= room'[r].places

\* Seats given up make as many losses as they leave places.
LEMMA GiveClaims ==
  ASSUME PlacesInv, NEW r \in Rooms, room[r].status = "PUBLISHED", NEW freed \in SUBSET Seats,
         NEW status \in {"CANCELLED", "REMOVED_BY_HOST"}, NEW urgent,
         Give(r, freed, status, urgent), attendance' = attendance,
         \A s \in freed : seat[s] = "ACTIVE" /\ RoomOf(s) = r, NEW q \in Rooms
  PROVE  Claims(q)' <= Claims(q)
<1>. PICK events : events = freed \X {0} OBVIOUS
<1>1. PICK available : RecordLosses(r, events, available) BY DEF Give
<1>2. seat' = [s \in Seats |-> IF s \in freed THEN status ELSE seat[s]] BY DEF Give
<1>3. TypeOK /\ HostInv /\ StartInv BY DEF PlacesInv, HostInv, VoidInv
<1>4. \A e \in LossEvents : e \notin events => loss'[e] = loss[e] BY <1>1, <1>3, RecordedOnly
<1>5. \A e \in events : e[1] \in freed OBVIOUS
<1>6. CASE q # r
  <2>1. Holding(seat', attendance', q) \subseteq Holding(seat, attendance, q)
    BY <1>2, <1>6 DEF Holding, SeatsOf
  <2>2. PendingLosses(q)' \subseteq PendingLosses(q)
    BY <1>4, <1>5, <1>6 DEF PendingLosses, RoomOf
  <2>3. QED BY <2>1, <2>2, QuietClaims
<1>7. CASE q = r
  <2>1. Seated(r) = Holding(seat, attendance, r) BY <1>3, BeforeStart
  <2>2. freed \subseteq Seated(r) BY DEF Seated, SeatsOf
  <2>3. Holding(seat', attendance', r) \subseteq Holding(seat, attendance, r) \ freed
    BY <1>2 DEF Holding, SeatsOf
  <2>4. PendingLosses(r)' \subseteq PendingLosses(r) \cup events
    BY <1>4 DEF PendingLosses, RoomOf
  <2>5. IsFiniteSet(freed) /\ Cardinality(freed) \in Nat
    BY <2>2, PlacesFinite, FS_Subset, FS_CardinalityType
  <2>6. IsFiniteSet(events) /\ Cardinality(events) = Cardinality(freed)
    <3>1. IsFiniteSet({0}) /\ Cardinality({0}) = 1 BY FS_Singleton
    <3>2. IsFiniteSet(events) /\ Cardinality(events) = Cardinality(freed) * Cardinality({0})
      BY <2>5, <3>1, FS_Product
    <3>3. QED BY <2>5, <3>1, <3>2
  <2>7. Cardinality(events) <= Cardinality(freed) BY <2>5, <2>6
  <2>8. QED BY <1>7, <2>1, <2>2, <2>3, <2>4, <2>5, <2>6, <2>7, SeatsForLosses
<1>8. QED BY <1>6, <1>7

\* An acceptance makes good for as many losses as it takes places, or for all.
LEMMA AcceptClaims ==
  ASSUME PlacesInv, PlacesInv', NEW a \in Apps, NEW recovered \in SUBSET PendingLosses(Venue[a]),
         Accept(a, recovered), NEW q \in Rooms, Playable(q)'
  PROVE  Fits(q)
<1>. PICK r : r = Venue[a] OBVIOUS
<1>. PICK k : k = Cardinality(Members[a]) OBVIOUS
<1>. PICK S : S = {s \in Seats : s[1] = a} OBVIOUS
<1>1. TypeOK /\ TypeOK' /\ NotOversold'
  BY DEF PlacesInv, HostInv, VoidInv, StartInv
<1>2. /\ room' = room /\ attendance' = attendance /\ Oldest(r, recovered, k)
      /\ seat' = [s \in Seats |-> IF s[1] = a THEN "ACTIVE" ELSE seat[s]]
      /\ loss' = LossWith(recovered, "RECOVERED")
  BY DEF Accept
<1>3. loss \in [LossEvents -> [state : LossState, at : 0 .. MaxTime]] BY <1>1 DEF TypeOK
<1>4. /\ recovered \subseteq PendingLosses(r)
      /\ \A e \in LossEvents : e \notin recovered => loss'[e] = loss[e]
      /\ \A e \in recovered : loss'[e].state = "RECOVERED"
  BY <1>2, <1>3 DEF LossWith, PendingLosses
<1>5. PendingLosses(q)' \subseteq PendingLosses(q) \ recovered
  BY <1>4 DEF PendingLosses, RoomOf
<1>6. CASE q # r
  <2>1. Holding(seat', attendance', q) \subseteq Holding(seat, attendance, q)
    BY <1>2, <1>6 DEF Holding, SeatsOf, RoomOf
  <2>2. QED BY <1>5, <2>1, QuietClaims DEF Fits
<1>7. CASE q = r /\ Cardinality(recovered) = k
  <2>1. Holding(seat', attendance', q) \subseteq Holding(seat, attendance, q) \cup S
    BY <1>2 DEF Holding, SeatsOf
  <2>2. IsFiniteSet(Members[a]) BY ConstantsAssumption, FS_Subset
  <2>3. IsFiniteSet(S) /\ Cardinality(S) <= k BY <2>2, SeatsOfApplication
  <2>4. IsFiniteSet(recovered) BY <1>4, PlacesFinite, FS_Subset
  <2>5. Cardinality(S) <= Cardinality(recovered) BY <1>7, <2>3
  <2>6. QED BY <1>4, <1>5, <1>7, <2>1, <2>3, <2>4, <2>5, LossesForSeats DEF Fits
<1>8. CASE q = r /\ recovered = PendingLosses(r)
  <2>1. PendingLosses(q)' = {} BY <1>5, <1>8
  <2>2. Claims(q)' = Cardinality(Holding(seat', attendance', q))
    BY <2>1, FS_EmptySet, PlacesFiniteNext
  <2>3. Free(q)' = room'[q].places - room'[q].reserved - Cardinality(Holding(seat', attendance', q))
    BY DEF Free, FreeWith, Holding, SeatsOf, RoomOf
  <2>4. Free(q)' >= 0 BY <1>1 DEF NotOversold
  <2>5. room'[q].places \in Nat /\ room'[q].reserved \in Nat
    BY <1>1, <1>2, RoomTypes
  <2>6. QED BY <2>2, <2>3, <2>4, <2>5, PlacesFiniteNext DEF Fits
<1>9. QED BY <1>2, <1>6, <1>7, <1>8 DEF Oldest

\* An absence frees the place whose loss it reports.
LEMMA AbsenceClaims ==
  ASSUME PlacesInv, NEW s \in Seats, MarkNoShow(s), NEW q \in Rooms
  PROVE  Claims(q)' <= Claims(q)
<1>. PICK events : events = {<<s, marks[s] + 1>>} OBVIOUS
<1>1. TypeOK BY DEF PlacesInv, HostInv
<1>2. attendance \in [Seats -> Attendance] BY <1>1 DEF TypeOK
<1>3. /\ seat' = seat /\ attendance' = [attendance EXCEPT ![s] = "NO_SHOW"]
      /\ seat[s] = "ACTIVE" /\ attendance[s] # "NO_SHOW"
  BY DEF MarkNoShow, CanMark, Marked
<1>4. PICK available : RecordLosses(RoomOf(s), events, available) BY DEF MarkNoShow
<1>5. \A e \in LossEvents : e \notin events => loss'[e] = loss[e] BY <1>1, <1>4, RecordedOnly
<1>6. CASE q # RoomOf(s)
  <2>1. Holding(seat', attendance', q) \subseteq Holding(seat, attendance, q)
    BY <1>2, <1>3, <1>6 DEF Holding, SeatsOf
  <2>2. PendingLosses(q)' \subseteq PendingLosses(q)
    BY <1>5, <1>6 DEF PendingLosses, RoomOf
  <2>3. QED BY <2>1, <2>2, QuietClaims
<1>7. CASE q = RoomOf(s)
  <2>1. /\ {s} \subseteq Holding(seat, attendance, q)
        /\ Holding(seat', attendance', q) \subseteq Holding(seat, attendance, q) \ {s}
    BY <1>2, <1>3, <1>7 DEF Holding, SeatsOf
  <2>2. PendingLosses(q)' \subseteq PendingLosses(q) \cup events
    BY <1>5 DEF PendingLosses, RoomOf
  <2>3. /\ IsFiniteSet(events) /\ Cardinality(events) = 1
        /\ IsFiniteSet({s}) /\ Cardinality({s}) = 1
    BY FS_Singleton
  <2>4. Cardinality(events) <= Cardinality({s}) BY <2>3
  <2>5. QED BY <2>1, <2>2, <2>3, <2>4, SeatsForLosses
<1>8. QED BY <1>6, <1>7

\* Losses by absence are those of different players found absent.
LEMMA AbsencesHaveSeats ==
  ASSUME PlacesInv, NEW r \in Rooms
  PROVE  Claims(r) <= Cardinality(GivenUp(r)) + Cardinality(Seated(r))
<1>. PICK P : P = PendingLosses(r) \ GivenUp(r) OBVIOUS
<1>. PICK H : H = Holding(seat, attendance, r) OBVIOUS
<1>. PICK A : A = Seated(r) \ H OBVIOUS
<1>. DEFINE f == [e \in P |-> e[1]]
<1>1. TypeOK /\ Unrecorded /\ VerdictsNeedStart /\ CorrectionsVoidLosses
  BY DEF PlacesInv, HostInv, VoidInv, StartInv
<1>2. ASSUME NEW e \in P
      PROVE  /\ e[1] \in Seats /\ e = <<e[1], e[2]>> /\ RoomOf(e[1]) = r
             /\ e[2] = marks[e[1]] /\ attendance[e[1]] = "NO_SHOW" /\ seat[e[1]] = "ACTIVE"
  <2>1. e[1] \in Seats /\ e[2] \in 0 .. MaxMarks /\ e = <<e[1], e[2]>> /\ RoomOf(e[1]) = r
        /\ loss[e].state = "PENDING" /\ e[2] # 0
    BY DEF PendingLosses, GivenUp, LossEvents
  <2>2. marks[e[1]] \in Nat /\ MaxMarks \in Nat BY <1>1, <2>1, MarkEvents
  <2>3. ~ (e[2] > marks[e[1]]) BY <1>1, <2>1 DEF Unrecorded
  <2>4. e[2] \in 1 .. marks[e[1]] BY <2>1, <2>2, <2>3
  <2>5. loss[<<e[1], e[2]>>].state \in
          (IF attendance[e[1]] = "NO_SHOW" /\ e[2] = marks[e[1]] THEN {"PENDING", "EXPIRED"}
           ELSE {"VOIDED", "EXPIRED"})
    BY <1>1, <2>1, <2>4 DEF CorrectionsVoidLosses
  <2>6. attendance[e[1]] = "NO_SHOW" /\ e[2] = marks[e[1]] BY <2>1, <2>5
  <2>7. QED BY <1>1, <2>1, <2>6 DEF VerdictsNeedStart
<1>3. f \in Injection(P, A)
  <2>1. f \in [P -> A] BY <1>2 DEF Seated, Holding, SeatsOf
  <2>2. \A d, e \in P : f[d] = f[e] => d = e BY <1>2
  <2>3. QED BY <2>1, <2>2 DEF Injection, IsInjective
<1>4. H \subseteq Seated(r) /\ GivenUp(r) \subseteq PendingLosses(r)
  BY DEF Holding, Seated, GivenUp
<1>5. IsFiniteSet(A) /\ Cardinality(A) = Cardinality(Seated(r)) - Cardinality(H)
  <2>1. IsFiniteSet(A) /\ Cardinality(A) = Cardinality(Seated(r)) - Cardinality(Seated(r) \cap H)
    BY PlacesFinite, FS_Difference
  <2>2. Seated(r) \cap H = H BY <1>4
  <2>3. QED BY <2>1, <2>2
<1>6. Cardinality(P) = Cardinality(PendingLosses(r)) - Cardinality(GivenUp(r))
  <2>1. Cardinality(P)
          = Cardinality(PendingLosses(r)) - Cardinality(PendingLosses(r) \cap GivenUp(r))
    BY PlacesFinite, FS_Difference
  <2>2. PendingLosses(r) \cap GivenUp(r) = GivenUp(r) BY <1>4
  <2>3. QED BY <2>1, <2>2
<1>7. Cardinality(P) <= Cardinality(A) BY <1>3, <1>5, FS_Injection
<1>8. Cardinality(H) \in Nat BY HoldingFinite
<1>9. QED BY <1>5, <1>6, <1>7, <1>8, PlacesFinite DEF Claims

\* No more absences are reported than there are players found absent.
AbsencesAreSeated == \A r \in Rooms : Claims(r) <= Cardinality(GivenUp(r)) + Cardinality(Seated(r))

\* A player found absent who turns up takes back the place whose loss was
\* reported; when that loss has run out, all that is missed are players seated.
LEMMA PresenceClaims ==
  ASSUME PlacesInv, PlacesInv', AbsencesAreSeated', NEW s \in Seats, MarkPresent(s),
         NEW q \in Rooms, Playable(q)'
  PROVE  Fits(q)
<1>. PICK e0 : e0 = <<s, marks[s]>> OBVIOUS
<1>1. TypeOK /\ TypeOK' /\ Unrecorded /\ CorrectionsVoidLosses /\ VerdictsNeedStart
      /\ ExpiryEndsAll' /\ SeatsFit'
  BY DEF PlacesInv, HostInv, VoidInv, StartInv
<1>2. /\ attendance \in [Seats -> Attendance]
      /\ loss \in [LossEvents -> [state : LossState, at : 0 .. MaxTime]]
  BY <1>1 DEF TypeOK
<1>3. /\ seat' = seat /\ room' = room /\ marks' = marks
      /\ attendance' = [attendance EXCEPT ![s] = "PRESENT"]
      /\ attendance[s] = "NO_SHOW" => VoidLoss(RoomOf(s), e0)
      /\ attendance[s] # "NO_SHOW" => loss' = loss
  BY DEF MarkPresent, CanMark, Marked, Reverses, LatestMark
<1>4. \A e \in LossEvents : loss'[e].state = "PENDING" => loss[e].state = "PENDING"
  BY <1>2, <1>3 DEF VoidLoss, LossWith
<1>5. PendingLosses(q)' \subseteq PendingLosses(q) BY <1>4 DEF PendingLosses, RoomOf
<1>6. CASE q # RoomOf(s) \/ attendance[s] # "NO_SHOW"
  <2>1. Holding(seat', attendance', q) \subseteq Holding(seat, attendance, q)
    BY <1>2, <1>3, <1>6 DEF Holding, SeatsOf
  <2>2. QED BY <1>5, <2>1, QuietClaims DEF Fits
<1>7. CASE q = RoomOf(s) /\ attendance[s] = "NO_SHOW" /\ e0 \in PendingLosses(q)
  <2>1. loss' = LossWith({e0}, "VOIDED")
    BY <1>3, <1>7 DEF VoidLoss, PendingLosses
  <2>2. {e0} \subseteq PendingLosses(q) BY <1>7
  <2>3. PendingLosses(q)' \subseteq PendingLosses(q) \ {e0}
    BY <1>2, <2>1 DEF LossWith, PendingLosses, RoomOf
  <2>4. Holding(seat', attendance', q) \subseteq Holding(seat, attendance, q) \cup {s}
    BY <1>2, <1>3 DEF Holding, SeatsOf
  <2>5. /\ IsFiniteSet({e0}) /\ Cardinality({e0}) = 1
        /\ IsFiniteSet({s}) /\ Cardinality({s}) = 1
    BY FS_Singleton
  <2>6. Cardinality({s}) <= Cardinality({e0}) BY <2>5
  <2>7. QED BY <2>2, <2>3, <2>4, <2>5, <2>6, LossesForSeats DEF Fits
<1>8. CASE q = RoomOf(s) /\ attendance[s] = "NO_SHOW" /\ e0 \notin PendingLosses(q)
  <2>1. PICK n : n = marks[s] OBVIOUS
  <2>2. n \in 1 .. MaxMarks /\ e0 \in LossEvents /\ e0 = <<s, n>>
    <3>1. n \in 0 .. MaxMarks /\ MaxMarks \in Nat BY <1>1, <2>1, MarkEvents
    <3>2. marks[s] # 0 BY <1>8 DEF PlacesInv, AbsencesMarked
    <3>3. QED BY <2>1, <3>1, <3>2 DEF LossEvents
  <2>3. loss[e0].state = "EXPIRED"
    <3>1. loss[<<s, n>>].state \in {"PENDING", "EXPIRED"}
      BY <1>1, <1>8, <2>1, <2>2 DEF CorrectionsVoidLosses
    <3>2. QED BY <1>8, <2>2, <3>1 DEF PendingLosses
  <2>4. loss'[<<s, n>>].state = "EXPIRED" BY <1>3, <1>8, <2>2, <2>3 DEF VoidLoss
  <2>5. GivenUp(q)' = {} BY <1>1, <1>8, <2>2, <2>4 DEF ExpiryEndsAll, RoomOf
  <2>6. Claims(q)' <= Cardinality(GivenUp(q)') + Cardinality(Seated(q)')
    BY DEF AbsencesAreSeated
  <2>7. Cardinality(GivenUp(q)') = 0 BY <2>5, FS_EmptySet
  <2>8. Cardinality(Seated(q)') <= room'[q].places BY <1>1 DEF SeatsFit
  <2>9. room'[q].places \in Nat BY <1>1, <1>3, RoomTypes
  <2>10. QED BY <2>6, <2>7, <2>8, <2>9, PlacesFiniteNext DEF Fits
<1>9. QED BY <1>6, <1>7, <1>8

\* No step claims more than there was or than there is room for.
LEMMA ClaimsStep ==
  ASSUME PlacesInv, PlacesInv', AbsencesAreSeated', [Next]_vars, NEW q \in Rooms, Playable(q)'
  PROVE  Fits(q)
<1>1. TypeOK BY DEF PlacesInv, HostInv
<1>2. /\ loss \in [LossEvents -> [state : LossState, at : 0 .. MaxTime]]
      /\ seat \in [Seats -> SeatStatus]
  BY <1>1 DEF TypeOK
<1>3. ASSUME attendance' = attendance,
             \A s \in Seats : seat'[s] = "ACTIVE" => seat[s] = "ACTIVE",
             \A e \in LossEvents : loss'[e].state = "PENDING" => loss[e].state = "PENDING"
      PROVE  Fits(q)
  <2>1. Holding(seat', attendance', q) \subseteq Holding(seat, attendance, q)
    BY <1>3 DEF Holding, SeatsOf
  <2>2. PendingLosses(q)' \subseteq PendingLosses(q) BY <1>3 DEF PendingLosses, RoomOf
  <2>3. QED BY <2>1, <2>2, QuietClaims DEF Fits
<1>4. ASSUME NEW r \in Rooms, RoomStep(r) PROVE Fits(q)
  <2>1. attendance' = attendance
    BY <1>4 DEF RoomStep, UpdateRoom, CancelRoom, StartRoom, Complete, ActivateRefill,
                DisableRefill, ExpireRefill, seating
  <2>2. \A s \in Seats : seat'[s] = "ACTIVE" => seat[s] = "ACTIVE"
    BY <1>2, <1>4 DEF RoomStep, UpdateRoom, CancelRoom, StartRoom, Complete, ActivateRefill,
                      DisableRefill, ExpireRefill, seating
  <2>3. ASSUME NEW e \in LossEvents, loss'[e].state = "PENDING" PROVE loss[e].state = "PENDING"
    <3>1. CASE ExpireRefill(r) BY <1>2, <2>3, <3>1 DEF ExpireRefill, LossWith
    <3>2. CASE ~ ExpireRefill(r)
      BY <1>4, <2>3, <3>2 DEF RoomStep, UpdateRoom, CancelRoom, StartRoom, Complete,
                              ActivateRefill, DisableRefill
    <3>3. QED BY <3>1, <3>2
  <2>4. QED BY <1>3, <2>1, <2>2, <2>3
<1>5. ASSUME NEW a \in Apps, AppStep(a) PROVE Fits(q)
  <2>1. CASE CloseApp(a) BY <1>3, <2>1 DEF CloseApp
  <2>2. QED BY <1>5, <2>1, AcceptClaims DEF AppStep
<1>6. ASSUME NEW s \in Seats, SeatStep(s) PROVE Fits(q)
  <2>1. CASE CancelSeat(s)
    <3>1. PICK urgent : Give(RoomOf(s), LeavingWith(s), "CANCELLED", urgent)
      BY <2>1 DEF CancelSeat
    <3>2. /\ room[RoomOf(s)].status = "PUBLISHED" /\ seat[s] = "ACTIVE"
          /\ attendance' = attendance
      BY <2>1 DEF CancelSeat
    <3>3. Claims(q)' <= Claims(q) BY <3>1, <3>2, LeavingSeats, SeatParts, GiveClaims
    <3>4. QED BY <3>3 DEF Fits
  <2>2. CASE RemoveSeat(s)
    <3>1. PICK freed : freed = {s} OBVIOUS
    <3>2. PICK urgent : Give(RoomOf(s), freed, "REMOVED_BY_HOST", urgent)
      BY <2>2, <3>1 DEF RemoveSeat
    <3>3. /\ room[RoomOf(s)].status = "PUBLISHED" /\ attendance' = attendance
          /\ \A g \in freed : seat[g] = "ACTIVE" /\ RoomOf(g) = RoomOf(s)
          /\ freed \in SUBSET Seats
      BY <2>2, <3>1 DEF RemoveSeat
    <3>4. Claims(q)' <= Claims(q) BY <3>2, <3>3, SeatParts, GiveClaims
    <3>5. QED BY <3>4 DEF Fits
  <2>3. CASE MarkNoShow(s) BY <2>3, AbsenceClaims DEF Fits
  <2>4. CASE MarkPresent(s) BY <2>4, PresenceClaims
  <2>5. QED BY <1>6, <2>1, <2>2, <2>3, <2>4 DEF SeatStep
<1>7. ASSUME Tick \/ (\E g \in Guests, u \in Users : ClaimGuest(g, u)) \/ UNCHANGED vars
      PROVE  Fits(q)
  <2>1. attendance' = attendance /\ seat' = seat /\ loss' = loss
    BY <1>7 DEF Tick, ClaimGuest, seating, vars
  <2>2. QED BY <1>3, <2>1
<1>8. QED BY <1>4, <1>5, <1>6, <1>7 DEF Next

\* No step makes the pending losses and the players of a room that is still to be
\* played more than they were and more than its places, whatever was edited,
\* cancelled, marked, corrected and refilled before.
THEOREM PendingLossesAreEmptyPlaces == Spec => LossesHaveEmptyPlaces
<1>1. PlacesInv => AbsencesAreSeated BY AbsencesHaveSeats DEF AbsencesAreSeated
<1>2. ASSUME PlacesInv, PlacesInv', AbsencesAreSeated', [Next]_vars
      PROVE  [\A r \in Rooms : room'[r].status \in {"PUBLISHED", "IN_PROGRESS"} =>
                 Claims(r)' <= Claims(r) \/ Claims(r)' <= room'[r].places]_vars
  BY <1>2, ClaimsStep DEF Fits, Playable
<1>3. QED BY <1>1, <1>2, InitPlaces, PlacesStep, PTL DEF Spec, LossesHaveEmptyPlaces

=============================================================================
