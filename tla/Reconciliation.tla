--------------------------- MODULE Reconciliation ---------------------------
(***************************************************************************)
(* What the reconciler would report of the rooms of the core.  It compares *)
(* each room's projection with a recount and writes what it finds down; it *)
(* repairs nothing.  A run reads one snapshot (REPEATABLE READ), so its    *)
(* findings are an expression of one state and a run changes no state of   *)
(* the core.                                                               *)
(***************************************************************************)
EXTENDS RoomParticipation

Occupied(rm, n) == (IF rm.hostPlays THEN 1 ELSE 0) + rm.reserved + n

\* The recount takes every active seat, also of players reported absent.
Expected(r) ==
  LET n == Cardinality(Seated(r))
  IN  [active |-> n, noShows |-> NoShowCount(r),
       available |-> room[r].capacity - Occupied(room[r], n)]

RoomAvailability(r) == proj[r] # Expected(r)

RoomPrestartStatus(r) ==
  /\ room[r].status \in PreStart
  /\ room[r].status # OpenOrFull(Expected(r).available)

CollectRoomFindings ==
  {f \in {"ROOM_AVAILABILITY", "ROOM_PRESTART_STATUS"} \X Rooms :
     /\ room[f[2]].status # "NONE"
     /\ IF f[1] = "ROOM_AVAILABILITY" THEN RoomAvailability(f[2]) ELSE RoomPrestartStatus(f[2])}

\* The reconciler reports exactly the rooms with an absent player: the recount
\* and the projection read by search agree for all others, and disagree on
\* whether an absence frees a slot.
AlarmsAreAbsences ==
  {f[2] : f \in CollectRoomFindings} = {r \in Rooms : Absent(seat, attendance, r) # {}}

=============================================================================
