--------------------- MODULE NotificationDeliveryProofs ---------------------
(***************************************************************************)
(* What players are told and how often their devices ring, for any number  *)
(* of users, rooms, devices, events and passes of the push worker.         *)
(*                                                                         *)
(* Two arguments that share nothing but types.  Telling: the seats of a    *)
(* cancelled room stand still, so whoever had one when its event was       *)
(* worked out is either still to be seen to or known to be told.  Ringing: *)
(* a delivery is in the hands of one pass at most, and one that can still  *)
(* be pushed has been pushed no more often than calls have failed.         *)
(***************************************************************************)
EXTENDS NotificationDelivery, TLAPS

-----------------------------------------------------------------------------
(* The inductive invariant. *)

RoomStatus     == {"OPEN", "CANCELLED", "IN_PROGRESS", "COMPLETED"}
SeatStatus     == {"NONE", "ACTIVE", "CANCELLED", "REMOVED_BY_HOST"}
DeliveryStatus == {"NONE", "PENDING", "PROCESSING", "SENT", "FAILED_RETRYABLE", "DEAD_LETTER"}
PassAt         == {"BETWEEN", "SENT", "FAILED"}

RoomRow     == [status : RoomStatus, start : StartTimes]
EventRow    == [type : Types \cup {Nil}, room : Rooms \cup {Nil}, subject : Users \cup {Nil},
                done : BOOLEAN]
HandlerRow  == [open : BOOLEAN, todo : SUBSET Users, at : Users \cup {Nil}]
DeliveryRow == [status : DeliveryStatus, attempts : Nat, due : BOOLEAN]
PassRow     == [batch : SUBSET Deliveries, at : PassAt, item : Deliveries \cup {Nil}]

\* Rows, events and passes hold what the tables and the worker can hold.
TypeOK ==
  /\ now \in Nat
  /\ room \in [Rooms -> RoomRow]
  /\ seat \in [Rooms \X Users -> SeatStatus]
  /\ event \in [Events -> EventRow]
  /\ handler \in [Events -> HandlerRow]
  /\ disabled \in [Users -> SUBSET Categories]
  /\ note \subseteq Users \X Events
  /\ device \in [Devices -> [owner : Users, enabled : BOOLEAN]]
  /\ delivery \in [Deliveries -> DeliveryRow]
  /\ pass \in [Passes -> PassRow]
  /\ pushes \in [Deliveries -> Nat]
  /\ faults \in Nat /\ settings \in Nat /\ retries \in Nat

\* An event says enough to find whom it concerns.
Addressed ==
  \A e \in Events :
    /\ event[e].type \in ToSubject => event[e].subject \in Users
    /\ event[e].type = "ROOM_CANCELLED" =>
         event[e].room \in Rooms /\ room[event[e].room].status = "CANCELLED"

\* Only events there are get handled and noted down.
Handled ==
  \A e \in Events :
    /\ handler[e].open => event[e].type # Nil
    /\ ~ handler[e].open => handler[e].todo = {} /\ handler[e].at = Nil
    /\ \A u \in Users : <<u, e>> \in note => event[e].type # Nil

\* While a cancellation is handled, nobody it concerns is forgotten.
NobodyForgotten ==
  \A e \in Events : handler[e].open /\ event[e].type = "ROOM_CANCELLED" =>
    \A u \in Users : HadSeat(event[e].room, u) => u \in handler[e].todo \/ Known(u, e)

Telling == Addressed /\ Handled /\ NobodyForgotten /\ CancelledPlayersAreTold

\* No two passes have claimed the same delivery.
OnePassEach == \A p, q \in Passes : p # q => pass[p].batch \cap pass[q].batch = {}

Lost(p, d) == pass[p].at = "FAILED" /\ pass[p].item = d

\* What a pass holds is PROCESSING, or SENT when only the answer was lost.
HeldIsProcessing ==
  \A p \in Passes :
    /\ pass[p].at # "BETWEEN" => pass[p].item \in pass[p].batch
    /\ \A d \in pass[p].batch :
         \/ delivery[d].status = "PROCESSING"
         \/ delivery[d].status = "SENT" /\ Lost(p, d)

\* A pass is to push the delivery, or to record that pushing it failed.
InHand(d) ==
  \E p \in Passes : d \in pass[p].batch /\ ~ (pass[p].at = "SENT" /\ pass[p].item = d)

\* A delivery that can be pushed once more: by the pass that holds it, or by
\* one that will claim it.
MayRing(d) == delivery[d].status \notin {"PROCESSING", "SENT"} \/ InHand(d)

FaultsAnswerPushes == \A d \in Deliveries : MayRing(d) => pushes[d] <= faults

Ringing == OnePassEach /\ HeldIsProcessing /\ FaultsAnswerPushes /\ RepeatsNeedFaults

IInv == TypeOK /\ Telling /\ Ringing

-----------------------------------------------------------------------------
(* Keys and recipients. *)

\* The three kinds of types exclude each other.
LEMMA KindsOfTypes ==
  /\ ToHost \cap ToPlayers = {} /\ ToHost \cap ToSubject = {} /\ ToPlayers \cap ToSubject = {}
  /\ "ROOM_CANCELLED" \in ToPlayers \cap Critical
  /\ Types = ToHost \cup ToPlayers \cup ToSubject /\ Nil \notin Types
<1>1. QED BY NotificationAssumption DEF ToHost, ToPlayers, ToSubject, Critical, Types

\* An event is handled for users, whoever they are.
LEMMA RecipientsAreUsers ==
  ASSUME TypeOK, Addressed, NEW e \in Events, event[e].type # Nil
  PROVE  Recipients(e) \subseteq Users
<1>1. event[e].type \in Types BY DEF TypeOK, EventRow
<1>2. CASE event[e].type \in ToHost
  <2>1. event[e].type \notin ToPlayers /\ event[e].type \notin ToSubject BY <1>2, KindsOfTypes
  <2>2. Recipients(e) = {Host} BY <1>2, <2>1 DEF Recipients
  <2>3. QED BY <2>2, NotificationAssumption
<1>3. CASE event[e].type \in ToPlayers
  <2>1. event[e].type \notin ToHost /\ event[e].type \notin ToSubject BY <1>3, KindsOfTypes
  <2>2. Recipients(e) = ListRoomParticipantUserIds(event[e].room) BY <1>3, <2>1 DEF Recipients
  <2>3. QED BY <2>2 DEF ListRoomParticipantUserIds
<1>4. CASE event[e].type \in ToSubject
  <2>1. event[e].type \notin ToHost /\ event[e].type \notin ToPlayers BY <1>4, KindsOfTypes
  <2>2. Recipients(e) = {event[e].subject} BY <1>4, <2>1 DEF Recipients
  <2>3. event[e].subject \in Users BY <1>4 DEF Addressed
  <2>4. QED BY <2>2, <2>3
<1>5. QED BY <1>1, <1>2, <1>3, <1>4, KindsOfTypes

\* A cancellation concerns everybody who had a seat.
LEMMA CancelledRecipients ==
  ASSUME NEW e \in Events, event[e].type = "ROOM_CANCELLED"
  PROVE  \A u \in Users : HadSeat(event[e].room, u) => u \in Recipients(e)
<1>1. /\ event[e].type \in ToPlayers
      /\ event[e].type \notin ToHost /\ event[e].type \notin ToSubject
  BY KindsOfTypes
<1>2. Recipients(e) = ListRoomParticipantUserIds(event[e].room) BY <1>1 DEF Recipients
<1>3. QED BY <1>2 DEF ListRoomParticipantUserIds, HadSeat

\* Whether somebody has been told stays true while events keep what they say.
LEMMA KnownStays ==
  ASSUME NEW e \in Events, NEW u \in Users, Known(u, e), note \subseteq note',
         \A f \in Events : (<<u, f>> \in note \/ f = e) =>
           /\ event'[f].type = event[f].type /\ event'[f].room = event[f].room
           /\ event'[f].subject = event[f].subject
  PROVE  Known(u, e)'
<1>1. PICK f \in Events : <<u, f>> \in note /\ DedupeKey(f) = DedupeKey(e) BY DEF Known
<1>2. DedupeKey(f)' = DedupeKey(f) BY <1>1 DEF DedupeKey
<1>3. DedupeKey(e)' = DedupeKey(e) BY DEF DedupeKey
<1>4. QED BY <1>1, <1>2, <1>3 DEF Known

-----------------------------------------------------------------------------
(* Rows with one column changed. *)

\* A room keeps its status when it is moved.
LEMMA RoomChange ==
  ASSUME NEW t \in RoomRow
  PROVE  \A x \in StartTimes : LET n == [t EXCEPT !.start = x] IN
           n \in RoomRow /\ n.start = x /\ n.status = t.status
<1>1. QED BY DEF RoomRow

\* An event that is done says what it said.
LEMMA EventChange ==
  ASSUME NEW t \in EventRow
  PROVE  LET n == [t EXCEPT !.done = TRUE] IN
           /\ n \in EventRow /\ n.done = TRUE
           /\ n.type = t.type /\ n.room = t.room /\ n.subject = t.subject
<1>1. QED BY DEF EventRow

\* A handler that has ended holds what it held.
LEMMA HandlerChange ==
  ASSUME NEW t \in HandlerRow
  PROVE  LET n == [t EXCEPT !.open = FALSE] IN
           n \in HandlerRow /\ n.open = FALSE /\ n.todo = t.todo /\ n.at = t.at
<1>1. QED BY DEF HandlerRow

-----------------------------------------------------------------------------
(* Types. *)

\* Tables, events and passes are typed to begin with.
LEMMA InitTypes == Init => TypeOK
<1>1. ASSUME Init PROVE TypeOK
  <2>1. room \in [Rooms -> RoomRow] BY <1>1 DEF Init, RoomRow, RoomStatus
  <2>2. event \in [Events -> EventRow] BY <1>1 DEF Init, EventRow, NoEvent
  <2>3. handler \in [Events -> HandlerRow] BY <1>1 DEF Init, HandlerRow
  <2>4. delivery \in [Deliveries -> DeliveryRow]
    BY <1>1 DEF Init, DeliveryRow, NoDelivery, DeliveryStatus
  <2>5. pass \in [Passes -> PassRow] BY <1>1 DEF Init, PassRow, Between, PassAt
  <2>6. device \in [Devices -> [owner : Users, enabled : BOOLEAN]]
    BY <1>1, NotificationAssumption DEF Init
  <2>7. seat \in [Rooms \X Users -> SeatStatus] BY <1>1 DEF Init, SeatStatus
  <2>8. QED BY <1>1, <2>1, <2>2, <2>3, <2>4, <2>5, <2>6, <2>7 DEF Init, TypeOK
<1>2. QED BY <1>1

\* Appending fills one free row and leaves the others.
LEMMA Appended ==
  ASSUME TypeOK, NEW e \in Events, NEW t \in Types, NEW r \in Rooms, NEW u \in Users \cup {Nil},
         Append(e, t, r, u)
  PROVE  /\ event[e].type = Nil
         /\ event'[e] = [type |-> t, room |-> r, subject |-> u, done |-> FALSE]
         /\ \A f \in Events : f # e => event'[f] = event[f]
         /\ event' \in [Events -> EventRow]
<1>1. QED BY DEF Append, TypeOK, NoEvent, EventRow

\* Cancelling, completing and starting change the status, an edit the start.
LEMMA RoomSaved ==
  ASSUME TypeOK, NEW r \in Rooms
  PROVE  /\ \A x \in RoomStatus : room' = [room EXCEPT ![r].status = x] =>
              /\ room' \in [Rooms -> RoomRow] /\ room'[r].status = x
              /\ \A q \in Rooms : q # r => room'[q] = room[q]
         /\ \A x \in StartTimes : room' = [room EXCEPT ![r].start = x] =>
              /\ room' \in [Rooms -> RoomRow] /\ room'[r].status = room[r].status
              /\ \A q \in Rooms : q # r => room'[q] = room[q]
<1>1. PICK t \in RoomRow : t = room[r] BY DEF TypeOK
<1>2. ASSUME NEW x \in RoomStatus, room' = [room EXCEPT ![r].status = x]
      PROVE  /\ room' \in [Rooms -> RoomRow] /\ room'[r].status = x
             /\ \A q \in Rooms : q # r => room'[q] = room[q]
  <2>0. PICK n : n = [t EXCEPT !.status = x] OBVIOUS
  <2>1. n \in RoomRow /\ n.status = x BY <2>0 DEF RoomRow
  <2>2. room' = [room EXCEPT ![r] = n] BY <1>1, <1>2, <2>0
  <2>3. QED BY <2>1, <2>2 DEF TypeOK
<1>3. ASSUME NEW x \in StartTimes, room' = [room EXCEPT ![r].start = x]
      PROVE  /\ room' \in [Rooms -> RoomRow] /\ room'[r].status = room[r].status
             /\ \A q \in Rooms : q # r => room'[q] = room[q]
  <2>1. PICK n \in RoomRow : n = [t EXCEPT !.start = x] /\ n.status = t.status BY RoomChange
  <2>2. room' = [room EXCEPT ![r] = n] BY <1>1, <1>3, <2>1
  <2>3. QED BY <1>1, <2>1, <2>2 DEF TypeOK
<1>4. QED BY <1>2, <1>3

\* A handler whose user has been told, and one whose event is acknowledged.
LEMMA HandlerSaved ==
  ASSUME TypeOK, NEW e \in Events
  PROVE  /\ handler' = [handler EXCEPT ![e].at = Nil] =>
              /\ handler' \in [Events -> HandlerRow]
              /\ handler'[e].open = handler[e].open /\ handler'[e].at = Nil
              /\ handler'[e].todo = handler[e].todo
              /\ \A f \in Events : f # e => handler'[f] = handler[f]
         /\ handler' = [handler EXCEPT ![e].open = FALSE] =>
              /\ handler' \in [Events -> HandlerRow]
              /\ handler'[e].open = FALSE /\ handler'[e].at = handler[e].at
              /\ handler'[e].todo = handler[e].todo
              /\ \A f \in Events : f # e => handler'[f] = handler[f]
<1>1. PICK t \in HandlerRow : t = handler[e] BY DEF TypeOK
<1>2. ASSUME handler' = [handler EXCEPT ![e].at = Nil]
      PROVE  /\ handler' \in [Events -> HandlerRow]
             /\ handler'[e].open = handler[e].open /\ handler'[e].at = Nil
             /\ handler'[e].todo = handler[e].todo
             /\ \A f \in Events : f # e => handler'[f] = handler[f]
  <2>0. PICK n : n = [t EXCEPT !.at = Nil] OBVIOUS
  <2>1. n \in HandlerRow /\ n.todo = t.todo /\ n.open = t.open /\ n.at = Nil
    BY <2>0 DEF HandlerRow
  <2>2. handler' = [handler EXCEPT ![e] = n] BY <1>1, <1>2, <2>0
  <2>3. QED BY <1>1, <2>1, <2>2 DEF TypeOK
<1>3. ASSUME handler' = [handler EXCEPT ![e].open = FALSE]
      PROVE  /\ handler' \in [Events -> HandlerRow]
             /\ handler'[e].open = FALSE /\ handler'[e].at = handler[e].at
             /\ handler'[e].todo = handler[e].todo
             /\ \A f \in Events : f # e => handler'[f] = handler[f]
  <2>1. PICK n \in HandlerRow : /\ n = [t EXCEPT !.open = FALSE]
                                /\ n.todo = t.todo /\ n.open = FALSE /\ n.at = t.at
    BY HandlerChange
  <2>2. handler' = [handler EXCEPT ![e] = n] BY <1>1, <1>3, <2>1
  <2>3. QED BY <1>1, <2>1, <2>2 DEF TypeOK
<1>4. QED BY <1>2, <1>3

\* An event is acknowledged as it is.
LEMMA EventSaved ==
  ASSUME TypeOK, NEW e \in Events, event' = [event EXCEPT ![e].done = TRUE]
  PROVE  /\ event' \in [Events -> EventRow]
         /\ \A f \in Events : /\ event'[f].type = event[f].type /\ event'[f].room = event[f].room
                              /\ event'[f].subject = event[f].subject
         /\ \A f \in Events : f # e => event'[f] = event[f]
<1>1. PICK t \in EventRow : t = event[e] BY DEF TypeOK
<1>2. PICK n \in EventRow : /\ n = [t EXCEPT !.done = TRUE]
                            /\ n.type = t.type /\ n.room = t.room /\ n.subject = t.subject
  BY EventChange
<1>3. event' = [event EXCEPT ![e] = n] BY <1>1, <1>2
<1>4. QED BY <1>1, <1>2, <1>3 DEF TypeOK

-----------------------------------------------------------------------------
(* What the rest of the product does. *)

\* Rooms that are cancelled stay as they are, and new events say enough.
Settled ==
  /\ \A r \in Rooms : room[r].status = "CANCELLED" =>
       /\ room'[r].status = "CANCELLED"
       /\ \A u \in Users : seat'[<<r, u>>] = seat[<<r, u>>]
  /\ \A f \in Events :
       \/ event'[f] = event[f]
       \/ /\ event[f].type = Nil /\ event'[f].type # Nil /\ ~ event'[f].done
          /\ event'[f].type \in ToSubject => event'[f].subject \in Users
          /\ event'[f].type = "ROOM_CANCELLED" =>
               event'[f].room \in Rooms /\ room'[event'[f].room].status = "CANCELLED"

\* So nobody's notification is lost or owed to somebody else.
LEMMA SettledKeepsTelling ==
  ASSUME TypeOK, Telling, Settled, UNCHANGED <<handler, note>>
  PROVE  Telling'
<1> USE DEF Telling
<1>1. Addressed' BY DEF Addressed, Settled
<1>2. Handled' BY DEF Handled, Settled
<1>3. ASSUME NEW e \in Events, event'[e].type = "ROOM_CANCELLED", handler[e].open \/ event'[e].done
      PROVE  /\ event'[e] = event[e]
             /\ \A u \in Users : /\ HadSeat(event[e].room, u)' <=> HadSeat(event[e].room, u)
                                 /\ Known(u, e) => Known(u, e)'
  <2>1. event'[e] = event[e] BY <1>3 DEF Handled, Settled
  <2>2. event[e].room \in Rooms /\ room[event[e].room].status = "CANCELLED"
    BY <1>3, <2>1 DEF Addressed
  <2>3. ASSUME NEW u \in Users PROVE HadSeat(event[e].room, u)' <=> HadSeat(event[e].room, u)
    <3>1. PICK r \in Rooms : r = event[e].room BY <2>2
    <3>2. r = event'[e].room BY <2>1, <3>1
    <3>3. seat'[<<r, u>>] = seat[<<r, u>>] BY <2>2, <3>1 DEF Settled
    <3>4. QED BY <3>1, <3>2, <3>3 DEF HadSeat
  <2>4. ASSUME NEW u \in Users, Known(u, e) PROVE Known(u, e)'
    <3>1. \A f \in Events : (<<u, f>> \in note \/ f = e) =>
            /\ event'[f].type = event[f].type /\ event'[f].room = event[f].room
            /\ event'[f].subject = event[f].subject
      BY <2>1 DEF Handled, Settled
    <3>2. QED BY <2>4, <3>1, KnownStays
  <2>5. QED BY <2>1, <2>3, <2>4
<1>4. NobodyForgotten'
  <2>1. SUFFICES ASSUME NEW e \in Events, handler[e].open, event'[e].type = "ROOM_CANCELLED",
                        NEW u \in Users, HadSeat(event[e].room, u)'
                 PROVE  u \in handler[e].todo \/ Known(u, e)'
    BY <1>3 DEF NobodyForgotten
  <2>2. QED BY <2>1, <1>3 DEF NobodyForgotten
<1>5. CancelledPlayersAreTold'
  <2>1. SUFFICES ASSUME NEW e \in Events, event'[e].done, event'[e].type = "ROOM_CANCELLED",
                        NEW u \in Users, HadSeat(event[e].room, u)'
                 PROVE  Known(u, e)'
    BY <1>3 DEF CancelledPlayersAreTold
  <2>2. QED BY <2>1, <1>3 DEF CancelledPlayersAreTold
<1>6. QED BY <1>1, <1>2, <1>4, <1>5

\* A new event of this type leaves cancelled rooms alone.
LEMMA AppendSettles ==
  ASSUME TypeOK, NEW e \in Events, NEW t \in Types, NEW r \in Rooms, NEW u \in Users \cup {Nil},
         Append(e, t, r, u), t \in ToSubject => u \in Users,
         t = "ROOM_CANCELLED" => room'[r].status = "CANCELLED",
         \A q \in Rooms : room[q].status = "CANCELLED" =>
           /\ room'[q].status = "CANCELLED"
           /\ \A v \in Users : seat'[<<q, v>>] = seat[<<q, v>>]
  PROVE  event' \in [Events -> EventRow] /\ Settled
<1>1. /\ event[e].type = Nil
      /\ event'[e] = [type |-> t, room |-> r, subject |-> u, done |-> FALSE]
      /\ \A f \in Events : f # e => event'[f] = event[f]
      /\ event' \in [Events -> EventRow]
  BY Appended
<1>2. t # Nil BY KindsOfTypes
<1>3. QED BY <1>1, <1>2 DEF Settled

\* The commands that append an event.
LEMMA SourceSettles ==
  ASSUME TypeOK, NEW e \in Events, NEW r \in Rooms, NEW u \in Users, Source(e, r, u)
  PROVE  TypeOK' /\ Settled /\ UNCHANGED <<handler, stored, delivery, pass, pushes, faults>>
<1>0. /\ "JOIN_REQUEST_ACCEPTED" \in Types /\ "ROOM_MATERIAL_CHANGED" \in Types \ ToSubject
      /\ "ROOM_CANCELLED" \in Types \ ToSubject /\ "ROOM_COMPLETED" \in Types \ ToSubject
  BY DEF Types, ToHost, ToPlayers, ToSubject
<1>1. CASE AcceptApplication(e, r, u)
  <2>1. seat' \in [Rooms \X Users -> SeatStatus]
    BY <1>1 DEF AcceptApplication, SeatStatus, TypeOK
  <2>2. \A q \in Rooms : room[q].status = "CANCELLED" =>
          /\ room'[q].status = "CANCELLED"
          /\ \A v \in Users : seat'[<<q, v>>] = seat[<<q, v>>]
    BY <1>1 DEF AcceptApplication, TypeOK
  <2>3. event' \in [Events -> EventRow] /\ Settled
    BY <1>0, <1>1, <2>2, AppendSettles DEF AcceptApplication
  <2>4. QED BY <1>1, <2>1, <2>3 DEF AcceptApplication, TypeOK, stored, bounds
<1>2. CASE CancelRoom(e, r)
  <2>1. seat' \in [Rooms \X Users -> SeatStatus] BY <1>2 DEF CancelRoom, SeatStatus, TypeOK
  <2>2. room' = [room EXCEPT ![r].status = "CANCELLED"] /\ room[r].status = "OPEN"
    BY <1>2 DEF CancelRoom
  <2>3. "CANCELLED" \in RoomStatus BY DEF RoomStatus
  <2>4. /\ room' \in [Rooms -> RoomRow] /\ room'[r].status = "CANCELLED"
        /\ \A q \in Rooms : q # r => room'[q] = room[q]
    BY <2>2, <2>3, RoomSaved
  <2>5. \A q \in Rooms : room[q].status = "CANCELLED" =>
          /\ room'[q].status = "CANCELLED"
          /\ \A v \in Users : seat'[<<q, v>>] = seat[<<q, v>>]
    BY <1>2, <2>2, <2>4 DEF CancelRoom
  <2>6. event' \in [Events -> EventRow] /\ Settled
    BY <1>0, <1>2, <2>4, <2>5, AppendSettles DEF CancelRoom
  <2>7. QED BY <1>2, <2>1, <2>4, <2>6 DEF CancelRoom, TypeOK, stored, bounds
<1>3. CASE CompleteRoom(e, r)
  <2>1. room' = [room EXCEPT ![r].status = "COMPLETED"] /\ room[r].status = "IN_PROGRESS"
    BY <1>3 DEF CompleteRoom
  <2>2. "COMPLETED" \in RoomStatus BY DEF RoomStatus
  <2>3. room' \in [Rooms -> RoomRow] /\ \A q \in Rooms : q # r => room'[q] = room[q]
    BY <2>1, <2>2, RoomSaved
  <2>4. \A q \in Rooms : room[q].status = "CANCELLED" =>
          /\ room'[q].status = "CANCELLED"
          /\ \A v \in Users : seat'[<<q, v>>] = seat[<<q, v>>]
    BY <1>3, <2>1, <2>3 DEF CompleteRoom
  <2>5. event' \in [Events -> EventRow] /\ Settled
    BY <1>0, <1>3, <2>4, AppendSettles DEF CompleteRoom
  <2>6. QED BY <1>3, <2>3, <2>5 DEF CompleteRoom, TypeOK, stored, bounds
<1>4. CASE Announce(e, r, u)
  <2>1. PICK t \in Announced : Append(e, t, r, IF t \in ToSubject THEN u ELSE Nil)
    BY <1>4 DEF Announce
  <2>2. t \in Types /\ t \in ToHost \cup ToSubject BY NotificationAssumption DEF Types
  <2>3. t # "ROOM_CANCELLED" BY <2>2, KindsOfTypes
  <2>4. PICK w \in Users \cup {Nil} : w = IF t \in ToSubject THEN u ELSE Nil OBVIOUS
  <2>5. Append(e, t, r, w) /\ (t \in ToSubject => w \in Users) BY <2>1, <2>4
  <2>6. \A q \in Rooms : room[q].status = "CANCELLED" =>
          /\ room'[q].status = "CANCELLED"
          /\ \A v \in Users : seat'[<<q, v>>] = seat[<<q, v>>]
    BY <1>4 DEF Announce, source
  <2>7. event' \in [Events -> EventRow] /\ Settled BY <2>2, <2>3, <2>5, <2>6, AppendSettles
  <2>8. QED BY <1>4, <2>7 DEF Announce, TypeOK, source, stored, bounds
<1>5. ASSUME NEW s \in StartTimes, UpdateRoom(e, r, s)
      PROVE  TypeOK' /\ Settled /\ UNCHANGED <<handler, stored, delivery, pass, pushes, faults>>
  <2>1. room' = [room EXCEPT ![r].start = s] BY <1>5 DEF UpdateRoom
  <2>2. /\ room' \in [Rooms -> RoomRow] /\ room'[r].status = room[r].status
        /\ \A q \in Rooms : q # r => room'[q] = room[q]
    BY <2>1, RoomSaved
  <2>3. \A q \in Rooms : room[q].status = "CANCELLED" =>
          /\ room'[q].status = "CANCELLED"
          /\ \A v \in Users : seat'[<<q, v>>] = seat[<<q, v>>]
    BY <1>5, <2>2 DEF UpdateRoom
  <2>4. event' \in [Events -> EventRow] /\ Settled
    BY <1>0, <1>5, <2>3, AppendSettles DEF UpdateRoom
  <2>5. QED BY <1>5, <2>2, <2>4 DEF UpdateRoom, TypeOK, stored, bounds
<1>6. QED BY <1>1, <1>2, <1>3, <1>4, <1>5 DEF Source

\* Everything else outside of the consumer and the push worker.
LEMMA ProductSettles ==
  ASSUME TypeOK,
         \/ Tick
         \/ \E e \in Events, r \in Rooms, u \in Users : Source(e, r, u)
         \/ \E r \in Rooms, u \in Users : LoseSeat(r, u) \/ StartRoom(r)
         \/ \E e \in Events : Remind(e)
  PROVE  TypeOK' /\ Settled /\ UNCHANGED <<handler, stored, delivery, pass, pushes, faults>>
<1>1. CASE Tick
  <2>1. Settled BY <1>1 DEF Tick, Settled
  <2>2. now' \in Nat BY <1>1 DEF Tick, TypeOK
  <2>3. QED BY <1>1, <2>1, <2>2 DEF Tick, TypeOK, stored, bounds
<1>2. CASE \E e \in Events, r \in Rooms, u \in Users : Source(e, r, u)
  BY <1>2, SourceSettles
<1>3. ASSUME NEW r \in Rooms, NEW u \in Users, LoseSeat(r, u)
      PROVE  TypeOK' /\ Settled /\ UNCHANGED <<handler, stored, delivery, pass, pushes, faults>>
  <2>1. PICK s \in {"CANCELLED", "REMOVED_BY_HOST"} : seat' = [seat EXCEPT ![<<r, u>>] = s]
    BY <1>3 DEF LoseSeat
  <2>2. seat' \in [Rooms \X Users -> SeatStatus] BY <2>1 DEF SeatStatus, TypeOK
  <2>3. Settled BY <1>3, <2>1 DEF LoseSeat, Settled, TypeOK
  <2>4. QED BY <1>3, <2>2, <2>3 DEF LoseSeat, TypeOK, stored, bounds
<1>4. ASSUME NEW r \in Rooms, StartRoom(r)
      PROVE  TypeOK' /\ Settled /\ UNCHANGED <<handler, stored, delivery, pass, pushes, faults>>
  <2>1. room' = [room EXCEPT ![r].status = "IN_PROGRESS"] /\ room[r].status = "OPEN"
    BY <1>4 DEF StartRoom
  <2>2. "IN_PROGRESS" \in RoomStatus BY DEF RoomStatus
  <2>3. room' \in [Rooms -> RoomRow] /\ \A q \in Rooms : q # r => room'[q] = room[q]
    BY <2>1, <2>2, RoomSaved
  <2>4. Settled BY <1>4, <2>1, <2>3 DEF StartRoom, Settled
  <2>5. QED BY <1>4, <2>3, <2>4 DEF StartRoom, TypeOK, stored, bounds
<1>5. ASSUME NEW e \in Events, Remind(e)
      PROVE  TypeOK' /\ Settled /\ UNCHANGED <<handler, stored, delivery, pass, pushes, faults>>
  <2>1. PICK t \in {"ROOM_START_REMINDER", "ROOM_COMPLETION_REMINDER"}, r \in Rooms :
          Append(e, t, r, Nil)
    BY <1>5 DEF Remind, ClaimReminderRoomIds
  <2>2. t \in Types \ ToSubject /\ t # "ROOM_CANCELLED"
    BY DEF Types, ToHost, ToPlayers, ToSubject
  <2>3. \A q \in Rooms : room[q].status = "CANCELLED" =>
          /\ room'[q].status = "CANCELLED"
          /\ \A v \in Users : seat'[<<q, v>>] = seat[<<q, v>>]
    BY <1>5 DEF Remind, source
  <2>4. event' \in [Events -> EventRow] /\ Settled BY <2>1, <2>2, <2>3, AppendSettles
  <2>5. QED BY <1>5, <2>4 DEF Remind, TypeOK, source, stored, bounds
<1>6. QED BY <1>1, <1>2, <1>3, <1>4, <1>5

-----------------------------------------------------------------------------
(* The consumer. *)

\* Telling somebody, or passing him over, forgets nobody.
LEMMA HandlingTells ==
  ASSUME TypeOK, Telling, NEW e \in Events, HandleStep(e) \/ InterruptHandler(e)
  PROVE  TypeOK' /\ Telling'
<1> USE DEF Telling
<1>1. CASE IntentsFor(e)
  <2>1. /\ handler'[e] = [open |-> TRUE, todo |-> Recipients(e), at |-> Nil]
        /\ \A f \in Events : f # e => handler'[f] = handler[f]
        /\ event[e].type # Nil /\ UNCHANGED <<room, seat, event, note>>
    BY <1>1 DEF IntentsFor, TypeOK, source, stored
  <2>2. handler' \in [Events -> HandlerRow]
    BY <1>1, RecipientsAreUsers DEF IntentsFor, TypeOK, HandlerRow
  <2>3. TypeOK' BY <1>1, <2>2 DEF IntentsFor, TypeOK, source, stored, bounds
  <2>4. Addressed' BY <2>1 DEF Addressed
  <2>5. Handled' BY <2>1 DEF Handled
  <2>6. CancelledPlayersAreTold' BY <2>1 DEF CancelledPlayersAreTold, HadSeat, Known, DedupeKey
  <2>7. NobodyForgotten'
    <3>1. SUFFICES ASSUME NEW f \in Events, handler'[f].open, event[f].type = "ROOM_CANCELLED",
                          NEW u \in Users, HadSeat(event[f].room, u)
                   PROVE  u \in handler'[f].todo \/ Known(u, f)
      BY <2>1 DEF NobodyForgotten, HadSeat, Known, DedupeKey
    <3>2. CASE f = e BY <2>1, <3>1, <3>2, CancelledRecipients
    <3>3. CASE f # e BY <2>1, <3>1, <3>3 DEF NobodyForgotten
    <3>4. QED BY <3>2, <3>3
  <2>8. QED BY <2>3, <2>4, <2>5, <2>6, <2>7
<1>2. CASE InsertNotification(e)
  <2>1. PICK u \in handler[e].todo, w \in Users \cup {Nil} :
          /\ handler' = [handler EXCEPT ![e].todo = @ \ {u}, ![e].at = w]
          /\ \/ note' = note \cup {<<u, e>>}
             \/ note' = note /\ ~ (Wants(u, e) /\ ~ Known(u, e))
    BY <1>2 DEF InsertNotification, TypeOK, HandlerRow
  <2>2. u \in Users /\ handler[e].open BY DEF TypeOK, HandlerRow, Handled
  <2>3. /\ handler' \in [Events -> HandlerRow]
        /\ handler'[e].open = handler[e].open /\ handler'[e].at = w
        /\ handler'[e].todo = handler[e].todo \ {u}
        /\ \A f \in Events : f # e => handler'[f] = handler[f]
    <3>1. PICK t \in HandlerRow : t = handler[e] BY DEF TypeOK
    <3>2. PICK left : left = t.todo \ {u} OBVIOUS
    <3>3. left \in SUBSET Users BY <3>2 DEF HandlerRow
    <3>4. PICK n : n = [t EXCEPT !.todo = left, !.at = w] OBVIOUS
    <3>5. n \in HandlerRow /\ n.todo = left /\ n.open = t.open /\ n.at = w
      BY <3>3, <3>4 DEF HandlerRow
    <3>6. handler' = [handler EXCEPT ![e] = n] BY <2>1, <3>1, <3>2, <3>4 DEF TypeOK
    <3>7. QED BY <3>1, <3>2, <3>5, <3>6 DEF TypeOK
  <2>4. UNCHANGED <<room, seat, event>> BY <1>2 DEF InsertNotification, source
  <2>5. TypeOK' BY <1>2, <2>1, <2>2, <2>3 DEF InsertNotification, TypeOK, source, bounds
  <2>6. note \subseteq note' BY <2>1
  <2>7. \A v \in Users, f \in Events : Known(v, f) => Known(v, f)' BY <2>4, <2>6, KnownStays
  <2>8. event[e].type \in Critical => Known(u, e)'
    <3>1. ASSUME event[e].type \in Critical PROVE <<u, e>> \in note' \/ Known(u, e)
      BY <2>1, <3>1 DEF Wants
    <3>2. QED BY <2>2, <2>7, <3>1 DEF Known
  <2>9. Addressed' BY <2>4 DEF Addressed
  <2>10. Handled' BY <2>1, <2>2, <2>3, <2>4 DEF Handled
  <2>11. CancelledPlayersAreTold' BY <2>4, <2>7 DEF CancelledPlayersAreTold, HadSeat
  <2>12. NobodyForgotten'
    <3>1. SUFFICES ASSUME NEW f \in Events, handler'[f].open, event[f].type = "ROOM_CANCELLED",
                          NEW v \in Users, HadSeat(event[f].room, v)
                   PROVE  v \in handler'[f].todo \/ Known(v, f)'
      BY <2>4 DEF NobodyForgotten, HadSeat
    <3>2. v \in handler[f].todo \/ Known(v, f) BY <2>3, <3>1 DEF NobodyForgotten
    <3>3. CASE f = e /\ v = u BY <2>8, <3>1, <3>3, KindsOfTypes
    <3>4. QED BY <2>3, <2>7, <3>2, <3>3
  <2>13. QED BY <2>5, <2>9, <2>10, <2>11, <2>12
<1>3. CASE CreateDeliveries(e)
  <2>1. handler' = [handler EXCEPT ![e].at = Nil] BY <1>3 DEF CreateDeliveries
  <2>2. /\ handler' \in [Events -> HandlerRow]
        /\ handler'[e].open = handler[e].open /\ handler'[e].at = Nil
        /\ handler'[e].todo = handler[e].todo
        /\ \A f \in Events : f # e => handler'[f] = handler[f]
    BY <2>1, HandlerSaved
  <2>3. UNCHANGED <<room, seat, event, note>> BY <1>3 DEF CreateDeliveries, source, stored
  <2>4. delivery' \in [Deliveries -> DeliveryRow]
    BY <1>3 DEF CreateDeliveries, NewDelivery, DeliveryRow, DeliveryStatus, TypeOK
  <2>5. TypeOK' BY <1>3, <2>2, <2>4 DEF CreateDeliveries, TypeOK, source, stored, bounds
  <2>6. Handled' BY <2>2, <2>3 DEF Handled
  <2>7. Addressed' /\ CancelledPlayersAreTold'
    BY <2>3 DEF Addressed, CancelledPlayersAreTold, HadSeat, Known, DedupeKey
  <2>8. \A f \in Events, v \in Users : Known(v, f) => Known(v, f)' BY <2>3, KnownStays
  <2>9. NobodyForgotten' BY <2>2, <2>3, <2>8 DEF NobodyForgotten, HadSeat
  <2>10. QED BY <2>5, <2>6, <2>7, <2>9
<1>4. CASE Acknowledge(e)
  <2>1. /\ handler' = [handler EXCEPT ![e].open = FALSE]
        /\ event' = [event EXCEPT ![e].done = TRUE]
        /\ UNCHANGED <<room, seat, note>>
        /\ handler[e].open /\ handler[e].todo = {} /\ handler[e].at = Nil
    BY <1>4 DEF Acknowledge, source, stored
  <2>2. /\ handler' \in [Events -> HandlerRow]
        /\ handler'[e].open = FALSE /\ handler'[e].at = handler[e].at
        /\ handler'[e].todo = handler[e].todo
        /\ \A f \in Events : f # e => handler'[f] = handler[f]
    BY <2>1, HandlerSaved
  <2>3. /\ event' \in [Events -> EventRow]
        /\ \A f \in Events : /\ event'[f].type = event[f].type /\ event'[f].room = event[f].room
                             /\ event'[f].subject = event[f].subject
        /\ \A f \in Events : f # e => event'[f] = event[f]
    BY <2>1, EventSaved
  <2>4. TypeOK' BY <1>4, <2>2, <2>3 DEF Acknowledge, TypeOK, source, stored, bounds
  <2>5. \A v \in Users, f \in Events : Known(v, f) => Known(v, f)' BY <2>1, <2>3, KnownStays
  <2>6. Addressed' BY <2>1, <2>3 DEF Addressed
  <2>7. Handled' BY <2>1, <2>2, <2>3 DEF Handled
  <2>8. NobodyForgotten' BY <2>1, <2>2, <2>3, <2>5 DEF NobodyForgotten, HadSeat
  <2>9. CancelledPlayersAreTold'
    <3>1. SUFFICES ASSUME NEW f \in Events, event'[f].done, event'[f].type = "ROOM_CANCELLED",
                          NEW v \in Users, HadSeat(event[f].room, v)'
                   PROVE  Known(v, f)'
      BY DEF CancelledPlayersAreTold
    <3>2. HadSeat(event[f].room, v) BY <2>1, <2>3, <3>1 DEF HadSeat
    <3>3. CASE f = e BY <2>1, <2>3, <2>5, <3>1, <3>2, <3>3 DEF NobodyForgotten
    <3>4. CASE f # e BY <2>3, <2>5, <3>1, <3>2, <3>4 DEF CancelledPlayersAreTold
    <3>5. QED BY <3>3, <3>4
  <2>10. QED BY <2>4, <2>6, <2>7, <2>8, <2>9
<1>5. CASE InterruptHandler(e)
  <2>1. /\ handler'[e] = [open |-> FALSE, todo |-> {}, at |-> Nil]
        /\ \A f \in Events : f # e => handler'[f] = handler[f]
        /\ UNCHANGED <<room, seat, event, note>>
    BY <1>5 DEF InterruptHandler, TypeOK, source, stored
  <2>2. handler' \in [Events -> HandlerRow] BY <1>5 DEF InterruptHandler, TypeOK, HandlerRow
  <2>3. TypeOK' BY <1>5, <2>2 DEF InterruptHandler, TypeOK, source, stored
  <2>4. Handled' BY <2>1 DEF Handled
  <2>5. Addressed' /\ CancelledPlayersAreTold'
    BY <2>1 DEF Addressed, CancelledPlayersAreTold, HadSeat, Known, DedupeKey
  <2>6. \A f \in Events, v \in Users : Known(v, f) => Known(v, f)' BY <2>1, KnownStays
  <2>7. NobodyForgotten' BY <2>1, <2>6 DEF NobodyForgotten, HadSeat
  <2>8. QED BY <2>3, <2>4, <2>5, <2>7
<1>6. QED BY <1>1, <1>2, <1>3, <1>4, <1>5 DEF HandleStep

-----------------------------------------------------------------------------
(* The push worker. *)

\* Whoever changes neither rooms nor events nor notifications tells nobody else.
LEMMA TellingUndisturbed ==
  ASSUME TypeOK, Telling, UNCHANGED <<room, seat, event, handler, note>>
  PROVE  Telling'
<1>1. Settled BY DEF Settled
<1>2. QED BY <1>1, SettledKeepsTelling

\* Whoever neither holds deliveries nor hands them out leaves the count alone.
LEMMA RingingUndisturbed ==
  ASSUME TypeOK, TypeOK', Ringing, UNCHANGED <<pass, pushes>>, faults' >= faults,
         \A d \in Deliveries :
           \/ delivery'[d].status = delivery[d].status
           \/ /\ delivery[d].status \notin {"PROCESSING", "SENT"}
              /\ delivery'[d].status \notin {"PROCESSING", "SENT"}
  PROVE  Ringing'
<1> USE DEF Ringing
<1>1. faults \in Nat /\ faults' \in Nat /\ pushes \in [Deliveries -> Nat] BY DEF TypeOK
<1>2. OnePassEach' BY DEF OnePassEach
<1>3. \A p \in Passes : pass[p].batch \subseteq Deliveries BY DEF TypeOK, PassRow
<1>4. HeldIsProcessing' BY <1>3 DEF HeldIsProcessing, Lost
<1>5. \A d \in Deliveries : MayRing(d)' => MayRing(d) BY DEF MayRing, InHand
<1>6. FaultsAnswerPushes' BY <1>1, <1>5 DEF FaultsAnswerPushes
<1>7. RepeatsNeedFaults' BY <1>1 DEF RepeatsNeedFaults
<1>8. QED BY <1>2, <1>4, <1>6, <1>7

\* A pass that ends early costs a fault, which answers for all it may have pushed.
LEMMA AbandonRings ==
  ASSUME TypeOK, Ringing, NEW p \in Passes, Abandon(p)
  PROVE  TypeOK' /\ Ringing'
<1> USE DEF Ringing
<1>1. /\ pass'[p] = Between({}) /\ \A q \in Passes : q # p => pass'[q] = pass[q]
      /\ faults' = faults + 1 /\ faults \in Nat
      /\ pushes' = pushes /\ delivery' = delivery /\ pushes \in [Deliveries -> Nat]
  BY DEF Abandon, TypeOK
<1>2. pass' \in [Passes -> PassRow] BY DEF Abandon, TypeOK, PassRow, Between, PassAt
<1>3. TypeOK' BY <1>1, <1>2 DEF Abandon, TypeOK, source, stored
<1>4. OnePassEach' BY <1>1 DEF OnePassEach, Between
<1>5. HeldIsProcessing' BY <1>1 DEF HeldIsProcessing, Between, Lost
<1>6. \A d \in Deliveries : pushes'[d] <= faults' BY <1>1 DEF RepeatsNeedFaults
<1>7. FaultsAnswerPushes' BY <1>6 DEF FaultsAnswerPushes
<1>8. RepeatsNeedFaults' BY <1>1, <1>6 DEF RepeatsNeedFaults
<1>9. QED BY <1>3, <1>4, <1>5, <1>7, <1>8

\* What is claimed was held by nobody, and could have been pushed before.
LEMMA ClaimRings ==
  ASSUME TypeOK, Ringing, NEW p \in Passes, Claim(p)
  PROVE  TypeOK' /\ Ringing'
<1> USE DEF Ringing
<1>1. PICK S \in SUBSET DueDeliveries :
        /\ delivery' = [d \in Deliveries |->
                          IF d \in S
                          THEN [delivery[d] EXCEPT !.status = "PROCESSING", !.attempts = @ + 1]
                          ELSE delivery[d]]
        /\ pass' = [pass EXCEPT ![p] = Between(S)]
  BY DEF Claim
<1>2. /\ pass'[p] = Between(S) /\ \A q \in Passes : q # p => pass'[q] = pass[q]
      /\ pushes' = pushes /\ faults' = faults /\ S \subseteq Deliveries
  BY <1>1 DEF Claim, TypeOK, bounds, DueDeliveries
<1>3. ASSUME NEW d \in Deliveries
      PROVE  /\ delivery'[d] \in DeliveryRow
             /\ d \in S => delivery'[d].status = "PROCESSING"
             /\ d \notin S => delivery'[d] = delivery[d]
  <2>1. PICK t \in DeliveryRow : t = delivery[d] BY DEF TypeOK
  <2>0. PICK k \in Nat : k = t.attempts + 1 BY DEF DeliveryRow
  <2>2. PICK n : n = [t EXCEPT !.status = "PROCESSING", !.attempts = k] OBVIOUS
  <2>3. n \in DeliveryRow /\ n.status = "PROCESSING" BY <2>2 DEF DeliveryRow, DeliveryStatus
  <2>4. CASE d \in S
    <3>1. delivery'[d] = n BY <1>1, <2>0, <2>1, <2>2, <2>4
    <3>2. QED BY <2>3, <2>4, <3>1
  <2>5. CASE d \notin S
    <3>1. delivery'[d] = t BY <1>1, <2>1, <2>5
    <3>2. QED BY <2>1, <2>5, <3>1
  <2>6. QED BY <2>4, <2>5
<1>4. delivery' \in [Deliveries -> DeliveryRow] BY <1>1, <1>3
<1>5. pass' \in [Passes -> PassRow] BY <1>1, <1>2 DEF TypeOK, PassRow, Between, PassAt
<1>6. TypeOK' BY <1>4, <1>5 DEF Claim, TypeOK, source, stored, bounds
<1>7. \A d \in S : delivery[d].status \notin {"PROCESSING", "SENT"}
  BY DEF DueDeliveries, Claimable
<1>8. \A q \in Passes : pass[q].batch \cap S = {} BY <1>7 DEF HeldIsProcessing
<1>9. OnePassEach' BY <1>2, <1>8 DEF OnePassEach, Between
<1>10. \A q \in Passes : pass[q].batch \subseteq Deliveries BY DEF TypeOK, PassRow
<1>11. HeldIsProcessing'
  <2>1. SUFFICES ASSUME NEW q \in Passes
                 PROVE  /\ pass'[q].at # "BETWEEN" => pass'[q].item \in pass'[q].batch
                        /\ \A d \in pass'[q].batch :
                             \/ delivery'[d].status = "PROCESSING"
                             \/ delivery'[d].status = "SENT" /\ Lost(q, d)'
    BY DEF HeldIsProcessing
  <2>2. CASE q = p BY <1>2, <1>3, <2>2 DEF Between
  <2>3. CASE q # p BY <1>2, <1>3, <1>8, <1>10, <2>3 DEF HeldIsProcessing, Lost
  <2>4. QED BY <2>2, <2>3
<1>12. ASSUME NEW d \in Deliveries, MayRing(d)' PROVE MayRing(d)
  <2>1. CASE d \in S BY <1>7, <2>1 DEF MayRing
  <2>2. CASE d \notin S
    <3>1. delivery'[d] = delivery[d] BY <1>3, <2>2
    <3>2. InHand(d)' => InHand(d) BY <1>2, <2>2 DEF InHand, Between
    <3>3. QED BY <1>12, <3>1, <3>2 DEF MayRing
  <2>3. QED BY <2>1, <2>2
<1>13. FaultsAnswerPushes' BY <1>2, <1>12 DEF FaultsAnswerPushes
<1>14. RepeatsNeedFaults' BY <1>2 DEF RepeatsNeedFaults
<1>15. QED BY <1>6, <1>9, <1>11, <1>13, <1>14

\* A delivery leaves the hands of the pass that has dealt with it.
LEMMA NextItemEffect ==
  ASSUME TypeOK, Ringing, NEW p \in Passes, pass[p].at # "BETWEEN", pass' = NextItem(p)
  PROVE  /\ pass' \in [Passes -> PassRow] /\ pass[p].item \in pass[p].batch
         /\ pass[p].item \in Deliveries
         /\ pass'[p] = Between(pass[p].batch \ {pass[p].item})
         /\ \A q \in Passes : q # p => pass'[q] = pass[q]
         /\ \A q \in Passes : pass[p].item \notin pass'[q].batch
         /\ OnePassEach'
<1>1. /\ pass'[p] = Between(pass[p].batch \ {pass[p].item})
      /\ \A q \in Passes : q # p => pass'[q] = pass[q]
  BY DEF NextItem, TypeOK
<1>2. pass[p].batch \subseteq Deliveries /\ pass[p].item \in pass[p].batch
  BY DEF TypeOK, PassRow, Ringing, HeldIsProcessing
<1>3. Between(pass[p].batch \ {pass[p].item}) \in PassRow BY <1>2 DEF Between, PassRow, PassAt
<1>4. pass' \in [Passes -> PassRow] BY <1>3 DEF NextItem, TypeOK
<1>5. \A q \in Passes : pass[p].item \notin pass'[q].batch
  BY <1>1, <1>2 DEF Ringing, OnePassEach, Between
<1>6. OnePassEach' BY <1>1 DEF Ringing, OnePassEach, Between
<1>7. QED BY <1>1, <1>2, <1>4, <1>5, <1>6

\* Once dealt with, it can be pushed again only if no push is unaccounted for.
LEMMA ItemDone ==
  ASSUME TypeOK, Ringing, NEW p \in Passes, pass[p].at # "BETWEEN", pass' = NextItem(p),
         UNCHANGED <<pushes, faults>>, NEW d \in Deliveries, d = pass[p].item,
         \A x \in Deliveries : x # d => delivery'[x] = delivery[x],
         delivery'[d].status = "SENT" \/ pass[p].at = "FAILED"
  PROVE  Ringing'
<1> USE DEF Ringing
<1>1. /\ pass'[p] = Between(pass[p].batch \ {d}) /\ d \in pass[p].batch
      /\ \A q \in Passes : q # p => pass'[q] = pass[q]
      /\ \A q \in Passes : d \notin pass'[q].batch
      /\ OnePassEach'
  BY NextItemEffect
<1>2. \A q \in Passes : pass[q].batch \subseteq Deliveries BY DEF TypeOK, PassRow
<1>3. HeldIsProcessing'
  <2>1. SUFFICES ASSUME NEW q \in Passes
                 PROVE  /\ pass'[q].at # "BETWEEN" => pass'[q].item \in pass'[q].batch
                        /\ \A x \in pass'[q].batch :
                             \/ delivery'[x].status = "PROCESSING"
                             \/ delivery'[x].status = "SENT" /\ Lost(q, x)'
    BY DEF HeldIsProcessing
  <2>2. CASE q = p
    <3>1. pass'[q].at = "BETWEEN" BY <1>1, <2>2 DEF Between
    <3>2. \A x \in pass'[q].batch : x \in pass[p].batch /\ x # d BY <1>1, <2>2 DEF Between
    <3>3. \A x \in pass'[q].batch : delivery[x].status = "PROCESSING"
      BY <3>2 DEF HeldIsProcessing, Lost
    <3>4. QED BY <1>2, <3>1, <3>2, <3>3
  <2>3. CASE q # p
    <3>1. pass'[q] = pass[q] BY <1>1, <2>3
    <3>2. \A x \in pass[q].batch : x # d /\ delivery'[x] = delivery[x] BY <1>1, <1>2, <3>1
    <3>3. QED BY <3>1, <3>2 DEF HeldIsProcessing, Lost
  <2>4. QED BY <2>2, <2>3
<1>4. ASSUME NEW x \in Deliveries, MayRing(x)' PROVE MayRing(x)
  <2>1. CASE x = d
    <3>1. pass[p].at = "FAILED" BY <1>1, <1>4, <2>1 DEF MayRing, InHand
    <3>2. InHand(d) BY <1>1, <3>1 DEF InHand
    <3>3. QED BY <2>1, <3>2 DEF MayRing
  <2>2. CASE x # d
    <3>1. InHand(x)' => InHand(x) BY <1>1, <2>2 DEF InHand, Between
    <3>2. QED BY <1>4, <2>2, <3>1 DEF MayRing
  <2>3. QED BY <2>1, <2>2
<1>5. FaultsAnswerPushes' BY <1>4 DEF FaultsAnswerPushes
<1>6. RepeatsNeedFaults' BY DEF RepeatsNeedFaults
<1>7. QED BY <1>1, <1>3, <1>5, <1>6

\* Recording an outcome, or failing to.
LEMMA RecordRings ==
  ASSUME TypeOK, Ringing, NEW p \in Passes,
         MarkDeliverySent(p) \/ MarkDeliveryFailed(p) \/ LoseRecord(p)
  PROVE  TypeOK' /\ Ringing'
<1> USE DEF Ringing
<1>1. pass[p].at # "BETWEEN" /\ pass[p].item \in pass[p].batch
  BY DEF MarkDeliverySent, MarkDeliveryFailed, LoseRecord, HeldIsProcessing
<1>2. PICK d \in Deliveries : d = pass[p].item BY <1>1 DEF TypeOK, PassRow
<1>3. PICK t \in DeliveryRow : t = delivery[d] BY DEF TypeOK
<1>4. CASE MarkDeliverySent(p)
  <2>1. PICK n : n = [t EXCEPT !.status = "SENT"] OBVIOUS
  <2>2. n \in DeliveryRow /\ n.status = "SENT" BY <2>1 DEF DeliveryRow, DeliveryStatus
  <2>3. delivery' = [delivery EXCEPT ![d] = n] BY <1>2, <1>3, <1>4, <2>1 DEF MarkDeliverySent
  <2>4. /\ delivery' \in [Deliveries -> DeliveryRow] /\ delivery'[d].status = "SENT"
        /\ \A x \in Deliveries : x # d => delivery'[x] = delivery[x]
    BY <2>2, <2>3 DEF TypeOK
  <2>5. pass' = NextItem(p) /\ UNCHANGED <<pushes, faults>>
    BY <1>4 DEF MarkDeliverySent, bounds
  <2>6. pass' \in [Passes -> PassRow] BY <1>1, <2>5, NextItemEffect
  <2>7. TypeOK' BY <1>4, <2>4, <2>6 DEF MarkDeliverySent, TypeOK, source, stored, bounds
  <2>8. Ringing' BY <1>1, <1>2, <2>4, <2>5, ItemDone DEF Ringing
  <2>9. QED BY <2>7, <2>8
<1>5. CASE MarkDeliveryFailed(p)
  <2>0. PICK x \in DeliveryStatus : x = StatusAfterFailure(t.attempts)
    BY DEF StatusAfterFailure, DeliveryStatus
  <2>1. PICK n : n = [t EXCEPT !.due = FALSE, !.status = x] OBVIOUS
  <2>2. n \in DeliveryRow BY <2>1 DEF DeliveryRow
  <2>3. delivery' = [delivery EXCEPT ![d] = n]
    BY <1>2, <1>3, <1>5, <2>0, <2>1 DEF MarkDeliveryFailed, TypeOK
  <2>4. /\ delivery' \in [Deliveries -> DeliveryRow]
        /\ \A y \in Deliveries : y # d => delivery'[y] = delivery[y]
    BY <2>2, <2>3 DEF TypeOK
  <2>5. pass' = NextItem(p) /\ pass[p].at = "FAILED" /\ UNCHANGED <<pushes, faults>>
    BY <1>5 DEF MarkDeliveryFailed, bounds
  <2>6. pass' \in [Passes -> PassRow] BY <1>1, <2>5, NextItemEffect
  <2>7. TypeOK' BY <1>5, <2>4, <2>6 DEF MarkDeliveryFailed, TypeOK, source, stored, bounds
  <2>8. Ringing' BY <1>1, <1>2, <2>4, <2>5, ItemDone DEF Ringing
  <2>9. QED BY <2>7, <2>8
<1>6. CASE LoseRecord(p)
  <2>0. PICK s \in {"SENT", "PROCESSING"} : delivery' = [delivery EXCEPT ![d].status = s]
    BY <1>2, <1>6 DEF LoseRecord
  <2>1. PICK n : n = [t EXCEPT !.status = s] OBVIOUS
  <2>2. n \in DeliveryRow /\ n.status = s BY <2>1 DEF DeliveryRow, DeliveryStatus
  <2>3. delivery' = [delivery EXCEPT ![d] = n] BY <1>3, <2>0, <2>1
  <2>4. /\ delivery' \in [Deliveries -> DeliveryRow] /\ delivery'[d].status = s
        /\ \A x \in Deliveries : x # d => delivery'[x] = delivery[x]
    BY <2>2, <2>3 DEF TypeOK
  <2>5. PICK c \in PassRow : c = pass[p] BY DEF TypeOK
  <2>6. PICK k : k = [c EXCEPT !.at = "FAILED"] OBVIOUS
  <2>7. k \in PassRow /\ k.at = "FAILED" /\ k.batch = c.batch /\ k.item = c.item
    BY <2>6 DEF PassRow, PassAt
  <2>8. pass' = [pass EXCEPT ![p] = k] BY <1>6, <2>5, <2>6 DEF LoseRecord
  <2>9. /\ pass' \in [Passes -> PassRow] /\ pass'[p] = k
        /\ \A q \in Passes : q # p => pass'[q] = pass[q]
    BY <2>7, <2>8 DEF TypeOK
  <2>10. /\ faults' = faults + 1 /\ faults \in Nat /\ pushes' = pushes
         /\ pushes \in [Deliveries -> Nat]
    BY <1>6 DEF LoseRecord, TypeOK
  <2>11. TypeOK' BY <1>6, <2>4, <2>9, <2>10 DEF LoseRecord, TypeOK, source, stored
  <2>12. OnePassEach' BY <2>5, <2>7, <2>9 DEF OnePassEach
  <2>13. \A q \in Passes : pass[q].batch \subseteq Deliveries BY DEF TypeOK, PassRow
  <2>14. HeldIsProcessing'
    <3>1. SUFFICES ASSUME NEW q \in Passes
                   PROVE  /\ pass'[q].at # "BETWEEN" => pass'[q].item \in pass'[q].batch
                          /\ \A x \in pass'[q].batch :
                               \/ delivery'[x].status = "PROCESSING"
                               \/ delivery'[x].status = "SENT" /\ Lost(q, x)'
      BY DEF HeldIsProcessing
    <3>2. CASE q = p
      <4>1. pass'[q].item = d /\ pass'[q].batch = pass[p].batch /\ pass'[q].at = "FAILED"
        BY <1>2, <2>5, <2>7, <2>9, <3>2
      <4>2. pass[p].at = "SENT" BY <1>6 DEF LoseRecord
      <4>3. \A x \in pass[p].batch : delivery[x].status = "PROCESSING"
        BY <4>2 DEF HeldIsProcessing, Lost
      <4>4. QED BY <1>1, <1>2, <2>4, <2>13, <4>1, <4>3 DEF Lost
    <3>3. CASE q # p
      <4>1. pass'[q] = pass[q] BY <2>9, <3>3
      <4>2. \A x \in pass[q].batch : x # d /\ delivery'[x] = delivery[x]
        BY <1>1, <1>2, <2>4, <2>13, <3>3 DEF OnePassEach
      <4>3. QED BY <4>1, <4>2 DEF HeldIsProcessing, Lost
    <3>4. QED BY <3>2, <3>3
  <2>15. \A x \in Deliveries : pushes'[x] <= faults' BY <2>10 DEF RepeatsNeedFaults
  <2>16. FaultsAnswerPushes' BY <2>15 DEF FaultsAnswerPushes
  <2>17. RepeatsNeedFaults' BY <2>10, <2>15 DEF RepeatsNeedFaults
  <2>18. QED BY <2>11, <2>12, <2>14, <2>16, <2>17
<1>7. QED BY <1>4, <1>5, <1>6

\* A push goes out only for what may ring.
LEMMA SendRings ==
  ASSUME TypeOK, Ringing, NEW p \in Passes, Send(p)
  PROVE  TypeOK' /\ Ringing'
<1> USE DEF Ringing
<1>1. PICK d \in pass[p].batch, outcome \in {"SENT", "FAILED"}, reached \in BOOLEAN :
        /\ outcome = "SENT" => reached
        /\ faults' = IF outcome = "FAILED" THEN faults + 1 ELSE faults
        /\ pushes' = IF reached THEN [pushes EXCEPT ![d] = @ + 1] ELSE pushes
        /\ pass' = [pass EXCEPT ![p].at = outcome, ![p].item = d]
  BY DEF Send
<1>2. pass[p].at = "BETWEEN" /\ UNCHANGED delivery BY DEF Send
<1>3. \A q \in Passes : pass[q].batch \subseteq Deliveries BY DEF TypeOK, PassRow
<1>4. d \in Deliveries /\ delivery[d].status = "PROCESSING" /\ InHand(d)
  BY <1>2, <1>3 DEF HeldIsProcessing, Lost, InHand
<1>5. PICK c \in PassRow : c = pass[p] BY DEF TypeOK
<1>6. PICK k : k = [c EXCEPT !.at = outcome, !.item = d] OBVIOUS
<1>7. k \in PassRow /\ k.at = outcome /\ k.item = d /\ k.batch = c.batch
  BY <1>4, <1>6 DEF PassRow, PassAt
<1>8. pass' = [pass EXCEPT ![p] = k] BY <1>1, <1>5, <1>6 DEF TypeOK
<1>9. /\ pass' \in [Passes -> PassRow] /\ pass'[p] = k /\ pass'[p].batch = pass[p].batch
      /\ \A q \in Passes : q # p => pass'[q] = pass[q]
  BY <1>5, <1>7, <1>8 DEF TypeOK
<1>10. /\ faults \in Nat /\ faults' \in Nat /\ pushes \in [Deliveries -> Nat]
       /\ pushes' \in [Deliveries -> Nat]
       /\ pushes'[d] <= pushes[d] + 1 /\ \A x \in Deliveries : x # d => pushes'[x] = pushes[x]
  BY <1>1, <1>4 DEF TypeOK
<1>11. TypeOK' BY <1>9, <1>10 DEF Send, TypeOK, source, stored
<1>12. OnePassEach' BY <1>9 DEF OnePassEach
<1>13. HeldIsProcessing'
  <2>1. SUFFICES ASSUME NEW q \in Passes
                 PROVE  /\ pass'[q].at # "BETWEEN" => pass'[q].item \in pass'[q].batch
                        /\ \A x \in pass'[q].batch :
                             \/ delivery[x].status = "PROCESSING"
                             \/ delivery[x].status = "SENT" /\ Lost(q, x)'
    BY <1>2 DEF HeldIsProcessing
  <2>2. CASE q = p
    <3>1. \A x \in pass[p].batch : delivery[x].status = "PROCESSING"
      BY <1>2 DEF HeldIsProcessing, Lost
    <3>2. QED BY <1>1, <1>7, <1>9, <2>2, <3>1
  <2>3. CASE q # p BY <1>9, <2>3 DEF HeldIsProcessing, Lost
  <2>4. QED BY <2>2, <2>3
<1>14. pushes[d] <= faults BY <1>4 DEF FaultsAnswerPushes, MayRing
<1>15. RepeatsNeedFaults'
  <2>1. faults <= faults' BY <1>1, <1>10
  <2>2. \A x \in Deliveries : pushes'[x] <= 1 + faults'
    BY <1>10, <1>14, <2>1 DEF RepeatsNeedFaults
  <2>3. QED BY <2>2 DEF RepeatsNeedFaults
<1>16. FaultsAnswerPushes'
  <2>1. SUFFICES ASSUME NEW x \in Deliveries, MayRing(x)' PROVE pushes'[x] <= faults'
    BY DEF FaultsAnswerPushes
  <2>2. CASE outcome = "FAILED"
    <3>1. faults' = faults + 1 BY <1>1, <2>2
    <3>2. QED BY <1>10, <1>14, <3>1 DEF RepeatsNeedFaults
  <2>3. CASE outcome = "SENT"
    <3>1. faults' = faults BY <1>1, <2>3
    <3>2. x # d
      <4>1. SUFFICES ASSUME x = d PROVE FALSE OBVIOUS
      <4>2. InHand(d)' BY <1>2, <1>4, <2>1, <4>1 DEF MayRing
      <4>3. PICK q \in Passes : /\ d \in pass'[q].batch
                                /\ ~ (pass'[q].at = "SENT" /\ pass'[q].item = d)
        BY <4>2 DEF InHand
      <4>4. q # p BY <1>7, <1>9, <2>3, <4>3
      <4>5. d \in pass[q].batch BY <1>9, <4>3, <4>4
      <4>6. QED BY <4>4, <4>5 DEF OnePassEach
    <3>3. InHand(x)' => InHand(x) BY <1>2, <1>9 DEF InHand
    <3>4. MayRing(x) BY <1>2, <2>1, <3>3 DEF MayRing
    <3>5. QED BY <1>10, <3>1, <3>2, <3>4 DEF FaultsAnswerPushes
  <2>4. QED BY <2>2, <2>3
<1>17. QED BY <1>11, <1>12, <1>13, <1>15, <1>16

\* Queueing a delivery, making it due and retrying it do not put it in any hands.
LEMMA QueueRings ==
  ASSUME TypeOK, Ringing, NEW d \in Deliveries, BecomeDue(d) \/ RetryDelivery(d)
  PROVE  TypeOK' /\ Ringing'
<1>1. PICK t \in DeliveryRow : t = delivery[d] BY DEF TypeOK
<1>2. CASE BecomeDue(d)
  <2>1. PICK n : n = [t EXCEPT !.due = TRUE] OBVIOUS
  <2>2. n \in DeliveryRow /\ n.status = t.status BY <2>1 DEF DeliveryRow
  <2>3. delivery' = [delivery EXCEPT ![d] = n] BY <1>1, <1>2, <2>1 DEF BecomeDue
  <2>4. /\ delivery' \in [Deliveries -> DeliveryRow]
        /\ \A x \in Deliveries : delivery'[x].status = delivery[x].status
    BY <1>1, <2>2, <2>3 DEF TypeOK
  <2>5. TypeOK' BY <1>2, <2>4 DEF BecomeDue, TypeOK, source, stored, bounds
  <2>6. UNCHANGED <<pass, pushes, faults>> BY <1>2 DEF BecomeDue, bounds
  <2>7. faults' >= faults BY <2>6 DEF TypeOK
  <2>8. QED BY <2>4, <2>5, <2>6, <2>7, RingingUndisturbed
<1>3. CASE RetryDelivery(d)
  <2>1. PICK n : n = [t EXCEPT !.status = "PENDING", !.due = TRUE] OBVIOUS
  <2>2. n \in DeliveryRow /\ n.status = "PENDING" BY <2>1 DEF DeliveryRow, DeliveryStatus
  <2>3. delivery' = [delivery EXCEPT ![d] = n]
    BY <1>1, <1>3, <2>1 DEF RetryDelivery, TypeOK
  <2>4. delivery[d].status \notin {"PROCESSING", "SENT"} BY <1>3 DEF RetryDelivery
  <2>5. /\ delivery' \in [Deliveries -> DeliveryRow] /\ delivery'[d].status = "PENDING"
        /\ \A x \in Deliveries : x # d => delivery'[x] = delivery[x]
    BY <1>1, <2>2, <2>3 DEF TypeOK
  <2>6. retries' \in Nat BY <1>3 DEF RetryDelivery, TypeOK
  <2>7. TypeOK' BY <1>3, <2>5, <2>6 DEF RetryDelivery, TypeOK, source, stored
  <2>8. UNCHANGED <<pass, pushes, faults>> BY <1>3 DEF RetryDelivery
  <2>9. faults' >= faults BY <2>8 DEF TypeOK
  <2>10. QED BY <2>4, <2>5, <2>7, <2>8, <2>9, RingingUndisturbed
<1>4. QED BY <1>2, <1>3

\* The consumer only adds deliveries there were none of.
LEMMA HandlingRings ==
  ASSUME TypeOK, TypeOK', Ringing, NEW e \in Events, HandleStep(e) \/ InterruptHandler(e)
  PROVE  Ringing'
<1>1. UNCHANGED <<pass, pushes>> /\ faults' >= faults
  BY DEF HandleStep, IntentsFor, InsertNotification, CreateDeliveries, Acknowledge,
         InterruptHandler, bounds, TypeOK
<1>2. CASE CreateDeliveries(e)
  <2>1. \A d \in Deliveries :
          \/ delivery'[d].status = delivery[d].status
          \/ /\ delivery[d].status \notin {"PROCESSING", "SENT"}
             /\ delivery'[d].status \notin {"PROCESSING", "SENT"}
    BY <1>2 DEF CreateDeliveries, NoDelivery, NewDelivery
  <2>2. QED BY <1>1, <2>1, RingingUndisturbed
<1>3. CASE UNCHANGED delivery BY <1>1, <1>3, RingingUndisturbed
<1>4. QED BY <1>2, <1>3
           DEF HandleStep, IntentsFor, InsertNotification, Acknowledge, InterruptHandler

\* Preferences and devices are read, and decide on no delivery there is.
LEMMA SettingsKept ==
  ASSUME IInv, NEW u \in Users, NEW d \in Devices, UpdatePreferences(u) \/ RegisterPushDevice(u, d)
  PROVE  IInv'
<1>1. /\ UNCHANGED <<room, seat, event, handler, note, delivery, pass, pushes, faults>>
      /\ TypeOK /\ Telling /\ Ringing
  BY DEF IInv, UpdatePreferences, RegisterPushDevice, source
<1>2. TypeOK'
  <2>1. settings' \in Nat BY <1>1 DEF UpdatePreferences, RegisterPushDevice, TypeOK
  <2>2. CASE UpdatePreferences(u)
    <3>1. PICK c \in {Category(t) : t \in Switched} :
            disabled' = [disabled EXCEPT ![u] = IF c \in @ THEN @ \ {c} ELSE @ \cup {c}]
      BY <2>2 DEF UpdatePreferences
    <3>2. c \in Categories BY NotificationAssumption DEF Categories
    <3>3. disabled' \in [Users -> SUBSET Categories] BY <1>1, <3>1, <3>2 DEF TypeOK
    <3>4. QED BY <1>1, <2>1, <2>2, <3>3 DEF UpdatePreferences, TypeOK, source
  <2>3. CASE RegisterPushDevice(u, d)
    <3>1. device' \in [Devices -> [owner : Users, enabled : BOOLEAN]]
      BY <1>1, <2>3 DEF RegisterPushDevice, TypeOK
    <3>2. QED BY <1>1, <2>1, <2>3, <3>1 DEF RegisterPushDevice, TypeOK, source
  <2>4. QED BY <2>2, <2>3
<1>3. Telling' BY <1>1, TellingUndisturbed
<1>4. faults' >= faults BY <1>1 DEF TypeOK
<1>5. Ringing' BY <1>1, <1>2, <1>4, RingingUndisturbed
<1>6. QED BY <1>2, <1>3, <1>5 DEF IInv

-----------------------------------------------------------------------------
(* What notifications and pushes keep, always. *)

\* The invariant holds to begin with,
LEMMA InitInv == Init => IInv
<1>1. ASSUME Init PROVE IInv
  <2>1. TypeOK BY <1>1, InitTypes
  <2>2. /\ \A e \in Events : event[e].type = Nil /\ ~ event[e].done
        /\ \A e \in Events : ~ handler[e].open /\ handler[e].todo = {} /\ handler[e].at = Nil
        /\ note = {}
    BY <1>1 DEF Init, NoEvent
  <2>3. Telling
    BY <2>2, KindsOfTypes
    DEF Telling, Addressed, Handled, NobodyForgotten, CancelledPlayersAreTold, Types
  <2>4. /\ \A p \in Passes : pass[p].batch = {} /\ pass[p].at = "BETWEEN"
        /\ \A d \in Deliveries : pushes[d] = 0
        /\ faults = 0
    BY <1>1 DEF Init, Between
  <2>5. OnePassEach /\ HeldIsProcessing BY <2>4 DEF OnePassEach, HeldIsProcessing
  <2>6. FaultsAnswerPushes /\ RepeatsNeedFaults
    BY <2>4 DEF FaultsAnswerPushes, RepeatsNeedFaults
  <2>7. QED BY <2>1, <2>3, <2>5, <2>6 DEF IInv, Ringing
<1>2. QED BY <1>1

\* every step keeps it,
LEMMA NextInv == IInv /\ [Next]_vars => IInv'
<1>1. SUFFICES ASSUME IInv, [Next]_vars PROVE IInv' OBVIOUS
<1> USE <1>1 DEF IInv
<1>2. ASSUME TypeOK' /\ Settled /\ UNCHANGED <<handler, stored, delivery, pass, pushes, faults>>
      PROVE  IInv'
  <2>1. Telling' BY <1>2, SettledKeepsTelling DEF stored
  <2>2. faults' >= faults BY <1>2 DEF TypeOK
  <2>3. Ringing' BY <1>2, <2>2, RingingUndisturbed
  <2>4. QED BY <1>2, <2>1, <2>3
<1>3. CASE \/ Tick
           \/ \E e \in Events, r \in Rooms, u \in Users : Source(e, r, u)
           \/ \E r \in Rooms, u \in Users : LoseSeat(r, u) \/ StartRoom(r)
           \/ \E e \in Events : Remind(e)
  BY <1>2, <1>3, ProductSettles
<1>4. CASE \E e \in Events : HandleStep(e) \/ InterruptHandler(e)
  BY <1>4, HandlingTells, HandlingRings
<1>5. CASE \E u \in Users, d \in Devices : UpdatePreferences(u) \/ RegisterPushDevice(u, d)
  BY <1>5, SettingsKept
<1>6. ASSUME NEW p \in Passes, Work(p) \/ LoseRecord(p) \/ Abandon(p) PROVE IInv'
  <2>1. TypeOK' /\ Ringing' BY <1>6, ClaimRings, SendRings, RecordRings, AbandonRings DEF Work
  <2>2. UNCHANGED <<room, seat, event, handler, note>>
    BY <1>6
    DEF Work, Claim, Send, MarkDeliverySent, MarkDeliveryFailed, LoseRecord, Abandon, source, stored
  <2>3. Telling' BY <2>2, TellingUndisturbed
  <2>4. QED BY <2>1, <2>3
<1>7. ASSUME NEW d \in Deliveries, BecomeDue(d) \/ RetryDelivery(d) PROVE IInv'
  <2>1. TypeOK' /\ Ringing' BY <1>7, QueueRings
  <2>2. UNCHANGED <<room, seat, event, handler, note>>
    BY <1>7 DEF BecomeDue, RetryDelivery, source, stored
  <2>3. Telling' BY <2>2, TellingUndisturbed
  <2>4. QED BY <2>1, <2>3
<1>8. CASE UNCHANGED vars
  <2>1. /\ TypeOK' /\ Settled
        /\ UNCHANGED <<handler, stored, delivery, pass, pushes, faults>>
    BY <1>8 DEF vars, source, stored, bounds, TypeOK, Settled
  <2>2. QED BY <1>2, <2>1
<1>9. QED BY <1>3, <1>4, <1>5, <1>6, <1>7, <1>8 DEF Next

\* so it always holds.
LEMMA Inductive == Spec => []IInv
<1>1. QED BY InitInv, NextInv, PTL DEF Spec

\* Tables, handlers and passes hold values of their columns.
THEOREM TypeCorrect == Spec => []TypeOK
<1>1. IInv => TypeOK BY DEF IInv
<1>2. QED BY <1>1, Inductive, PTL

\* Nobody who had a seat in a cancelled room is left out, for any number of
\* players, whoever else's events are handled, interrupted and handled again.
THEOREM NobodyIsLeftOut == Spec => []CancelledPlayersAreTold
<1>1. IInv => CancelledPlayersAreTold BY DEF IInv, Telling
<1>2. QED BY <1>1, Inductive, PTL

\* However many passes of the push worker overlap, no two hold one delivery.
THEOREM PassesShareNothing == Spec => []OnePassEach
<1>1. IInv => OnePassEach BY DEF IInv, Ringing
<1>2. QED BY <1>1, Inductive, PTL

\* However many passes overlap and end early, and whatever operators retry, a
\* device rings again only after as many calls have failed.
THEOREM RingsAreAccountedFor == Spec => []RepeatsNeedFaults
<1>1. IInv => RepeatsNeedFaults BY DEF IInv, Ringing
<1>2. QED BY <1>1, Inductive, PTL

=============================================================================
