------------------------------- MODULE Search -------------------------------
(***************************************************************************)
(* What a player or the owner of a party is shown.  Search reads the       *)
(* projection and the seats in a query of its own, widening the radius     *)
(* until there is enough to show; it takes no locks and changes no state   *)
(* of the core.  One sport, active hosts; the order of the cards is left   *)
(* out, and the limit on their number, which is never reached here.        *)
(***************************************************************************)
EXTENDS RoomParticipation, FiniteSetsExt

CONSTANTS
  DefaultRadius, ExpandedRadius, \* radii tried, in kilometres
  MinResults,                    \* fewer rooms than this widen the radius
  Distances,                     \* how far rooms may be from who searches
  Horizons                       \* until when they look for a room

ASSUME SearchAssumption ==
  /\ DefaultRadius \in Nat /\ ExpandedRadius \subseteq Nat /\ IsFiniteSet(ExpandedRadius)
  /\ MinResults \in Nat /\ Distances \subseteq Nat \cup {Nil} /\ Horizons \subseteq Nat

\* Where who searches is: the distance of each room, Nil for a room or a search
\* without coordinates.
Nowhere == [r \in Rooms |-> Nil]
Places  == {Nowhere} \cup [Rooms -> Distances]

\* Another room that keeps one of the users busy.
Busy(users, r) ==
  \E s \in Seats :
    /\ UserOf(s[2]) \in users /\ seat[s] = "ACTIVE"
    /\ app[s[1]].room # r
    /\ room[app[s[1]].room].status \in {"OPEN", "FULL", "IN_PROGRESS"}
    /\ Overlap(app[s[1]].room, r)

Near(place, r, radius) ==
  place # Nowhere => place[r] # Nil /\ place[r] <= radius

\* Mutant: one free slot is enough for a party.
AnySlot(r, members) == proj[r].available >= 1

EnoughSlots(r, members) == proj[r].available >= Cardinality(members)

\* The query's rooms, wherever they are.
Candidates(members, horizon) ==
  {r \in Rooms :
     /\ room[r].status = "OPEN"
     /\ room[r].end > now /\ room[r].start < horizon
     /\ EnoughSlots(r, members)
     /\ ~ Busy(UsersOf(members), r)}

ListNormalCandidates(candidates, place, radius) ==
  {r \in candidates : Near(place, r, radius)}

RadiusSteps == {DefaultRadius} \cup {km \in ExpandedRadius : km > DefaultRadius}

\* What the first radius that finds enough shows, or else the widest.
SearchRooms(candidates, place) ==
  LET found  == [km \in RadiusSteps |-> ListNormalCandidates(candidates, place, km)]
      enough == {km \in RadiusSteps : Cardinality(found[km]) >= MinResults}
  IN  found[IF enough = {} THEN Max(RadiusSteps) ELSE Min(enough)]

\* What participation asks when owner applies for r with these members, and when
\* its host accepts them as things stand.
Joinable(owner, members, r) ==
  /\ room[r].status \in PreStart
  /\ ~ HasActiveApplication(r, owner)
  /\ Available(r) >= Cardinality(members)
  /\ \A u \in UsersOf(members) : ~ ScheduleConflict(u, r)

\* Search and participation agree, each by statements of its own on data of its
\* own: as things stand whoever is shown a room could apply for it and be accepted,
\* or has an active application there already, pending or accepted, for which
\* search does not look; and of the rooms that could take them before the horizon
\* one is left out only for being further away than enough others.
SearchAgreesWithParticipation ==
  \A owner \in Owners, members \in Rosters \cup {{u} : u \in Users}, horizon \in Horizons :
    Snapshot(owner, members) =>
      LET candidates == Candidates(members, horizon)
          joinable   == {r \in Rooms : Joinable(owner, members, r)}
          applied    == {r \in Rooms : HasActiveApplication(r, owner)}
          missed     == {r \in joinable \ candidates :
                           room[r].end > now /\ room[r].start < horizon}
      IN  /\ candidates \subseteq joinable \cup applied /\ missed = {}
          /\ \A place \in Places :
               LET shown == SearchRooms(candidates, place)
               IN  \A r \in candidates \ shown :
                     Near(place, r, Max(RadiusSteps)) => Cardinality(shown) >= MinResults

=============================================================================
