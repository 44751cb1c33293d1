---------------------------- MODULE RoomCommands ----------------------------
(***************************************************************************)
(* What the transactions of RoomTransactions amount to: every command is   *)
(* one step that decides on the tables as they are when it commits, and    *)
(* no lock, statement or session is left to see.                           *)
(*                                                                         *)
(* Three commands are weaker than one step of a database without company,  *)
(* and the difference is all that running side by side can be told by: an  *)
(* acceptance may have read the members of its application before a guest  *)
(* was claimed, a claim may miss seats of its guest, and the applications  *)
(* an acceptance takes back are those it found, whatever they have become. *)
(***************************************************************************)
EXTENDS RoomTransactions

-----------------------------------------------------------------------------
(* The party. *)

\* One row changes while nothing is filed, and the party's status with it.
Compose(m, status, user) ==
  /\ ~PartyHasActiveApplication
  /\ member' = [member EXCEPT ![m] = [status |-> status, user |-> user]]
  /\ party' = StatusOfParty(member')
  /\ UNCHANGED <<friend, room, app, seat, account, stale>>

Bring(m) == m \in Guests /\ member[m].status = "NONE" /\ Compose(m, "GUEST", Nil)

Invite(u) ==
  /\ friend[u] = "ACCEPTED" /\ member[u].status = "NONE"
  /\ \A n \in Rows : ~RegisteredIn(n, u)
  /\ Compose(u, "INVITED", u)

Answer(u, answer) == member[u].status = "INVITED" /\ Compose(u, answer, u)

Leave(m) ==
  /\ m \in InParty /\ member[m].user # Owner
  /\ Compose(m, IF m \in Users THEN "NONE" ELSE "REMOVED", Nil)

\* A guest has an account now, in the party and in every application that brought
\* him along; of his seats the claim reaches those it has seen.
Claim(m, u, reached) ==
  /\ GuestClaimable(m) /\ \A n \in Rows \ {m} : ~RegisteredIn(n, u)
  /\ member' = [member EXCEPT ![m] = [status |-> "CONFIRMED", user |-> u]]
  /\ app' = [a \in Apps |-> IF m \in DOMAIN app[a].users
                            THEN [app[a] EXCEPT !.users[m] = u] ELSE app[a]]
  /\ account' = [x \in Seats |-> IF x \in reached THEN u ELSE account[x]]
  /\ stale' = stale \cup (GuestSeats(m) \ reached)
  /\ UNCHANGED <<friend, party, room, seat>>

Befriends(u) ==
  /\ \/ friend[u] = "NONE" /\ friend' = [friend EXCEPT ![u] = "PENDING"]
     \/ friend[u] = "PENDING"
          /\ \E answer \in {"ACCEPTED", "DECLINED"} : friend' = [friend EXCEPT ![u] = answer]
  /\ UNCHANGED <<party, member, room, app, seat, account, stale>>

-----------------------------------------------------------------------------
(* Applications and seats. *)

File(a, r, owner) ==
  /\ room[r] = "OPEN" /\ (owner = Party => party = "READY")
  /\ InsertApplication(a, r, owner)

Decline(a, status) == app[a].status \in Pending /\ Resolve(a, status)

\* Members as they may have been read: a guest without the account he has by now.
MembersRead(users) ==
  {[m \in DOMAIN users |-> IF m \in before THEN Nil ELSE users[m]] :
     before \in SUBSET (DOMAIN users \cap Guests)}

\* Applications of one of these players for other rooms.  Unless a claim has crossed
\* its acceptance, none that was accepted is taken back.
TakenBack(users, r) ==
  {b \in Apps : /\ app[b].status # "NONE" /\ app[b].room # r
                /\ Known(users) \cap Known(app[b].users) # {}
                /\ app[b].status = "ACCEPTED" => b \in Tangled}

\* All members are seated, in an open room that has a place for each, and none of
\* them holds a seat of his own in another.
Accept(a, users, back) ==
  LET r    == app[a].room
      mine == {x \in Seats : x[1] = a /\ x[2] \in DOMAIN users}
  IN  /\ app[a].status \in Pending /\ room[r] = "OPEN"
      /\ Cardinality(DOMAIN users) <= AvailablePublicSlots(r)
      /\ \A x \in Seats : seat[x] = "ACTIVE" /\ x[2] \in Known(users) => app[x[1]].room = r
      /\ seat' = [x \in Seats |-> IF x \in mine THEN "ACTIVE" ELSE seat[x]]
      /\ account' = [x \in Seats |-> IF x \in mine THEN users[x[2]] ELSE account[x]]
      /\ app' = [b \in Apps |-> IF b = a THEN [app[b] EXCEPT !.status = "ACCEPTED"]
                                ELSE IF b \in back
                                THEN [app[b] EXCEPT !.status = "WITHDRAWN"] ELSE app[b]]
      /\ stale' = stale \cup {x \in mine : users[x[2]] # app[a].users[x[2]]}
      /\ UNCHANGED <<friend, party, member, room>>

TakeAway(x) ==
  /\ seat[x] = "ACTIVE" /\ room[app[x[1]].room] = "OPEN"
  /\ seat' = [seat EXCEPT ![x] = "REMOVED_BY_HOST"]
  /\ UNCHANGED <<friend, party, member, room, app, account, stale>>

\* A player gives up his seat; with the party's owner go exactly his guests.
GiveUp(x) ==
  /\ seat[x] = "ACTIVE" /\ account[x] # Nil /\ room[app[x[1]].room] = "OPEN"
  /\ seat' = [y \in Seats |-> IF y \in {x} \cup GuestsOf(x) THEN "CANCELLED" ELSE seat[y]]
  /\ UNCHANGED <<friend, party, member, room, app, account, stale>>

Cancel(r) ==
  /\ room[r] = "OPEN"
  /\ room' = [room EXCEPT ![r] = "CANCELLED"]
  /\ seat' = [x \in Seats |-> IF x \in Active(r) THEN "CANCELLED" ELSE seat[x]]
  /\ app' = [a \in Apps |-> IF a \in PendingOf(r)
                            THEN [app[a] EXCEPT !.status = "EXPIRED"] ELSE app[a]]
  /\ UNCHANGED <<friend, party, member, account, stale>>

-----------------------------------------------------------------------------

Command ==
  \/ \E m \in Rows : Bring(m) \/ Leave(m)
  \/ \E u \in Users \ {Owner} : Befriends(u) \/ Invite(u)
  \/ \E u \in Users, answer \in {"CONFIRMED", "DECLINED"} : Answer(u, answer)
  \/ \E m \in Guests, u \in Users : \E reached \in SUBSET GuestSeats(m) : Claim(m, u, reached)
  \/ \E a \in Apps, r \in Rooms, owner \in Singles \cup {Party} : File(a, r, owner)
  \/ \E a \in Apps, status \in {"REJECTED", "WITHDRAWN"} : Decline(a, status)
  \/ \E a \in Apps : \E users \in MembersRead(app[a].users) :
       \E back \in SUBSET TakenBack(users, app[a].room) : Accept(a, users, back)
  \/ \E x \in Seats : TakeAway(x) \/ GiveUp(x)
  \/ \E r \in Rooms : Cancel(r)

\* Interleaved statement by statement, the transactions of the participation, party
\* and room services leave the tables as commands would that run one at a time:
\* what one has read and acts on still holds when it commits.
CommandsTakeEffectAtOnce == InitialTables /\ [][UNCHANGED data \/ Command]_data

=============================================================================
