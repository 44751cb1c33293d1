-------------------------- MODULE RoomTransactions --------------------------
(***************************************************************************)
(* Parties, applications and seats when commands really run side by side.  *)
(*                                                                         *)
(* RoomParticipation takes every command as one step.  Here a command is a *)
(* READ COMMITTED transaction of PostgreSQL that locks row after row in    *)
(* the order its code asks for them, reads other rows without a lock, and  *)
(* writes when it commits: between two of its statements other commands    *)
(* run, two commands may wait for each other, and what was read may be old *)
(* when it is used.  A statement that locks several rows takes them in any *)
(* order.  Writes show up at the commit: the rows they touch are locked,   *)
(* or new, so nobody could tell.                                           *)
(*                                                                         *)
(* One party is followed from its first invitation; all rooms are open at  *)
(* the same hours, have one host, and the room's other settings stand      *)
(* still.  A room that was started instead of cancelled locks the same     *)
(* rows in the same order.  No room is under way here: marking attendance  *)
(* locks a seat and its room as a removal does, and is turned away like    *)
(* one for a cancelled room.  Left out are the rows of the reliability and *)
(* statistics tables, which commands lock last, and whatever waits on      *)
(* them.                                                                   *)
(***************************************************************************)
EXTENDS Integers, FiniteSets

CONSTANTS
  Sessions,  \* database connections that run commands
  Rooms,     \* published rooms whose windows overlap
  Users,     \* registered players, by the order of their identifiers
  Owner,     \* the one who owns the party
  Party,     \* the party, as the owner of an application
  Singles,   \* bound: the players who also apply on their own
  Guests,    \* rows of party_members for people without an account
  Apps,      \* identifiers an application can be created with
  Slots,     \* public slots of each room
  MaxCancelled, \* bound: rooms the host may cancel
  Nil        \* the value of a column that is NULL

\* Rows of party_members, and of the member snapshots made from them; a player
\* on his own and a registered member are both known by their account.
Rows  == Users \cup Guests
Seats == Apps \X Rows

ASSUME TransactionsAssumption ==
  /\ Users \subseteq Nat /\ Owner \in Users /\ Singles \subseteq Users
  /\ Users \cap Guests = {} /\ Nil \notin Users /\ Party \notin Users /\ Nil \notin Rooms
  /\ IsFiniteSet(Rows) /\ IsFiniteSet(Apps) /\ Slots \in Nat /\ MaxCancelled \in Nat

VARIABLES
  friend,   \* friendships between the owner and each user
  party,    \* parties.status
  member,   \* party_members: invitation and account
  room,     \* rooms.status, FULL counted as OPEN
  app,      \* room_applications with their member snapshot
  seat,     \* room_participants.status
  account,  \* room_participants.user_id
  stale,    \* history: seats a claim and an acceptance, side by side, left behind
  tx,       \* the command each session runs, and how far it is
  held      \* the locks each session holds

data == <<friend, party, member, room, app, seat, account, stale>>
vars == <<data, tx, held>>

-----------------------------------------------------------------------------
(* Vocabulary. *)

Pending    == {"REQUESTED", "WAITLISTED"}
ActiveApp  == Pending \cup {"ACCEPTED"}

NoApp == [status |-> "NONE", room |-> Nil, owner |-> Nil, users |-> <<>>]

PartyLock      == <<"party">>
FriendLock(u)  == <<"friendship", u>>
MemberLock(m)  == <<"member", m>>
RoomLock(r)    == <<"room", r>>
AppLock(a)     == <<"application", a>>
SeatLock(s)    == <<"participant", s>>
ScheduleLock(u) == <<"schedule", u>>

Present     == {"GUEST", "INVITED", "CONFIRMED", "DECLINED"}
InParty     == {m \in Rows : member[m].status \in Present}
MemberLocks == {MemberLock(m) : m \in InParty}

\* A registered member must have confirmed, a guest is brought along.
CanPartyBeReady(mem) ==
  \A m \in Rows : mem[m].status \in {"NONE", "REMOVED", "GUEST", "CONFIRMED"}

StatusOfParty(mem) == IF CanPartyBeReady(mem) THEN "READY" ELSE "FORMING"

\* Mutant: only an accepted application freezes the party.
PartyIsAccepted == \E a \in Apps : app[a].owner = Party /\ app[a].status = "ACCEPTED"

PartyHasActiveApplication ==
  \E a \in Apps : app[a].owner = Party /\ app[a].status \in ActiveApp

Active(r) == {s \in Seats : app[s[1]].room = r /\ seat[s] = "ACTIVE"}

AvailablePublicSlots(r) == Slots - Cardinality(Active(r))

Known(users) == {users[m] : m \in DOMAIN users} \ {Nil}

\* Mutant: the two rooms of the query are mixed up.
ConflictInRoom(u, r) ==
  \E s \in Seats : account[s] = u /\ seat[s] = "ACTIVE" /\ app[s[1]].room = r

\* The player sits in another room: all of them are played at the same hours.
HasActiveScheduleConflict(u, r) ==
  \E s \in Seats : account[s] = u /\ seat[s] = "ACTIVE" /\ app[s[1]].room # r
                     /\ room[app[s[1]].room] = "OPEN"

\* Mutant: answered applications are withdrawn as well.
ActiveCandidates(a, u) ==
  {b \in Apps \ {a} : app[b].status \in ActiveApp /\ u \in Known(app[b].users)
                        /\ app[b].room # app[a].room /\ room[app[b].room] = "OPEN"}

\* Applications the acceptance of one for room r takes back: pending ones of the
\* player for other open rooms.
Candidates(a, u) ==
  {b \in Apps \ {a} : app[b].status \in Pending /\ u \in Known(app[b].users)
                        /\ app[b].room # app[a].room /\ room[app[b].room] = "OPEN"}

-----------------------------------------------------------------------------
(* Transactions. *)

\* A session between two commands.
Idle == [op |-> "NONE", arg |-> Nil, step |-> "NONE", want |-> {},
         seen |-> <<>>, left |-> {}, taken |-> {}]

Free(lock) == \A s \in Sessions : lock \notin held[s]

\* A command has its first lock and passes the checks of the row behind it: a
\* check that fails there leaves nothing behind.  It asks for the next locks.
Start(s, op, arg, lock, step, locks) ==
  /\ tx[s] = Idle /\ Free(lock)
  /\ held' = [held EXCEPT ![s] = {lock}]
  /\ tx' = [tx EXCEPT ![s] = [Idle EXCEPT !.op = op, !.arg = arg, !.step = step,
                                          !.want = locks]]
  /\ UNCHANGED data

\* The statement of this step can have all its locks.
At(s, op, step) == tx[s].op = op /\ tx[s].step = step /\ \A l \in tx[s].want : Free(l)

\* It runs, and the next one asks for the locks it has not got.
Continue(s, next) ==
  /\ held' = [held EXCEPT ![s] = held[s] \cup tx[s].want]
  /\ tx' = [tx EXCEPT ![s] = [next EXCEPT !.want = next.want \ held'[s]]]
  /\ UNCHANGED data

GoTo(s, step, locks) == Continue(s, [tx[s] EXCEPT !.step = step, !.want = locks])

\* Commit or rollback: every lock is let go.
Release(s) ==
  /\ tx' = [tx EXCEPT ![s] = Idle]
  /\ held' = [held EXCEPT ![s] = {}]

Abort(s) == Release(s) /\ UNCHANGED data

\* A statement that locks several rows takes one after the other, in any order,
\* and holds what it has while it waits.
Acquire(s) ==
  \E l \in tx[s].want :
    /\ Free(l) /\ tx[s].want # {l}
    /\ held' = [held EXCEPT ![s] = held[s] \cup {l}]
    /\ tx' = [tx EXCEPT ![s].want = tx[s].want \ {l}]
    /\ UNCHANGED data

WaitsFor(s, t) == s # t /\ tx[s].want \cap held[t] # {}

\* Sessions on a cycle of waits; the database ends one of them with an error.
Deadlocked(s) ==
  \E ring \in SUBSET Sessions :
    /\ s \in ring
    /\ \A x \in ring : (\E y \in ring : WaitsFor(x, y)) /\ (\E y \in ring : WaitsFor(y, x))

BreakDeadlock(s) == Deadlocked(s) /\ Abort(s)

-----------------------------------------------------------------------------
(* Friendships and the composition of the party. *)

Befriend(u, from, to) ==
  /\ Free(FriendLock(u))
  /\ friend[u] = from
  /\ friend' = [friend EXCEPT ![u] = to]
  /\ UNCHANGED <<party, member, room, app, seat, account, stale, tx, held>>

\* Either side asks: the pair has one row, which a unique index keeps single.
RequestFriendship(u) == Befriend(u, "NONE", "PENDING")

RespondFriendship(u) == \E answer \in {"ACCEPTED", "DECLINED"} : Befriend(u, "PENDING", answer)

RegisteredIn(m, u) == member[m].status \in Present /\ member[m].user = u

\* The party's rows are written, its status follows from them, and the
\* transaction commits.
SaveMember(s, m, status, user) ==
  /\ member' = [member EXCEPT ![m] = [status |-> status, user |-> user]]
  /\ party' = StatusOfParty(member')
  /\ UNCHANGED <<friend, room, app, seat, account, stale>>
  /\ Release(s)

\* The owner invites a friend, whose row is his account, or brings a guest.
AddMember(s) ==
  \/ \E m \in Rows \ {Owner} :
       /\ member[m].status = "NONE"
       /\ ~PartyHasActiveApplication
       /\ Start(s, "add", m, PartyLock, "members", MemberLocks)
  \/ /\ At(s, "add", "members")
     /\ LET m == tx[s].arg IN
        IF m \in Users /\ \E n \in Rows : RegisteredIn(n, m) THEN Abort(s)
        ELSE IF m \in Guests THEN SaveMember(s, m, "GUEST", Nil)
        ELSE GoTo(s, "friendship", {FriendLock(m)})
  \/ /\ At(s, "add", "friendship")
     /\ LET m == tx[s].arg IN
        IF friend[m] = "ACCEPTED" THEN SaveMember(s, m, "INVITED", m) ELSE Abort(s)

\* Whoever was not invited is turned away once his row is locked.
RespondMember(s) ==
  \/ \E m \in Users, answer \in {"CONFIRMED", "DECLINED"} :
       /\ member[m].status = "INVITED" /\ ~PartyHasActiveApplication
       /\ Start(s, "respond", <<m, answer>>, PartyLock, "member", {MemberLock(m)})
  \/ /\ At(s, "respond", "member")
     /\ IF member[tx[s].arg[1]].status = "INVITED"
        THEN GoTo(s, "members", MemberLocks) ELSE Abort(s)
  \/ /\ At(s, "respond", "members")
     /\ SaveMember(s, tx[s].arg[1], tx[s].arg[2], tx[s].arg[1])

\* A removed guest's row never comes back, a friend can be invited again.
RemoveMember(s) ==
  \/ \E m \in InParty \ {Owner} :
       /\ ~PartyHasActiveApplication
       /\ Start(s, "drop", m, PartyLock, "member", {MemberLock(m)})
  \/ /\ At(s, "drop", "member")
     /\ IF member[tx[s].arg].user = Owner THEN Abort(s) ELSE GoTo(s, "members", MemberLocks)
  \/ /\ At(s, "drop", "members")
     /\ SaveMember(s, tx[s].arg, IF tx[s].arg \in Users THEN "NONE" ELSE "REMOVED", Nil)

\* Seats of a guest nobody claimed; the claim's last statement writes those it
\* found when it began.
GuestSeats(m) == {s \in Seats : s[2] = m /\ seat[s] # "NONE" /\ account[s] = Nil}

GuestClaimable(m) == m \in Guests /\ member[m].status = "GUEST"

\* The token finds the guest's row, and only then the party is locked.
ClaimGuest(s) ==
  \/ \E m \in Guests, u \in Users :
       /\ GuestClaimable(m)
       /\ Start(s, "claim", <<m, u>>, MemberLock(m), "party", {PartyLock})
  \/ At(s, "claim", "party") /\ GoTo(s, "members", MemberLocks)
  \/ /\ At(s, "claim", "members")
     /\ LET m == tx[s].arg[1]  u == tx[s].arg[2]  IN
        IF \E n \in Rows \ {m} : RegisteredIn(n, u) THEN Abort(s)
        ELSE Continue(s, [tx[s] EXCEPT !.step = "seats", !.taken = GuestSeats(m),
                                       !.want = {SeatLock(x) : x \in GuestSeats(m)}])
  \/ /\ At(s, "claim", "seats")
     /\ LET m == tx[s].arg[1]  u == tx[s].arg[2]  IN
        /\ member' = [member EXCEPT ![m] = [status |-> "CONFIRMED", user |-> u]]
        /\ app' = [a \in Apps |-> IF m \in DOMAIN app[a].users
                                  THEN [app[a] EXCEPT !.users[m] = u] ELSE app[a]]
        /\ account' = [x \in Seats |-> IF x \in tx[s].taken THEN u ELSE account[x]]
        /\ stale' = stale \cup (GuestSeats(m) \ tx[s].taken)
     /\ UNCHANGED <<friend, party, room, seat>>
     /\ Release(s)

-----------------------------------------------------------------------------
(* Applications. *)

\* Mutant: the room is read without FOR UPDATE.
NoRoomLock(a) == {}

RoomToLock(a) == {RoomLock(app[a].room)}

Resolve(a, status) ==
  /\ app' = [app EXCEPT ![a].status = status]
  /\ UNCHANGED <<friend, party, member, room, seat, account, stale>>

Snapshot(owner) ==
  IF owner = Party THEN [m \in InParty |-> member[m].user]
                   ELSE [m \in {owner} |-> owner]

HasActiveApplication(r, owner) ==
  \E a \in Apps : app[a].room = r /\ app[a].owner = owner /\ app[a].status \in ActiveApp

\* Whoever would not fit may ask to be put on the waiting list.
InsertApplication(a, r, owner) ==
  LET fits == Cardinality(DOMAIN Snapshot(owner)) <= AvailablePublicSlots(r)
  IN  /\ app[a].status = "NONE"
      /\ ~HasActiveApplication(r, owner)
      /\ app' = [app EXCEPT ![a] = [status |-> IF fits THEN "REQUESTED" ELSE "WAITLISTED",
                                    room |-> r, owner |-> owner, users |-> Snapshot(owner)]]
      /\ UNCHANGED <<friend, party, member, room, seat, account, stale>>

\* A player on his own locks nothing but the room.
ApplyAlone(u) ==
  \E a \in Apps, r \in Rooms :
    /\ Free(RoomLock(r)) /\ room[r] = "OPEN"
    /\ InsertApplication(a, r, u)
    /\ UNCHANGED <<tx, held>>

ApplyWithParty(s) ==
  \/ \E a \in Apps, r \in Rooms :
       /\ app[a].status = "NONE" /\ room[r] = "OPEN"
       /\ Start(s, "apply", <<a, r>>, RoomLock(r), "party", {PartyLock})
  \/ /\ At(s, "apply", "party")
     /\ IF party = "READY" THEN GoTo(s, "members", MemberLocks) ELSE Abort(s)
  \/ /\ At(s, "apply", "members")
     /\ LET a == tx[s].arg[1]  r == tx[s].arg[2]  IN
        IF app[a].status = "NONE" /\ ~HasActiveApplication(r, Party)
        THEN InsertApplication(a, r, Party) /\ Release(s) ELSE Abort(s)

WithdrawApplication(a) ==
  /\ Free(AppLock(a))
  /\ app[a].status \in Pending
  /\ Resolve(a, "WITHDRAWN")
  /\ UNCHANGED <<tx, held>>

RejectApplication(s) ==
  \/ \E a \in Apps :
       /\ app[a].status \in Pending
       /\ Start(s, "reject", a, AppLock(a), "room", RoomToLock(a))
  \/ At(s, "reject", "room") /\ Resolve(tx[s].arg, "REJECTED") /\ Release(s)

Least(users) == CHOOSE u \in users : \A v \in users : u <= v

\* Mutant: the schedules of an application are locked in any order.
AllSchedules(users) == {ScheduleLock(u) : u \in users}

\* One schedule after the other is locked, in the order of the identifiers.
NextSchedule(users) == IF users = {} THEN {} ELSE {ScheduleLock(Least(users))}

\* Rooms are accepted for with whoever the members were when they were read,
\* without a lock; the overlapping applications found are withdrawn whatever has
\* become of them while the statement waited for their rows.
AcceptApplication(s) ==
  \/ \E a \in Apps :
       /\ app[a].status \in Pending
       /\ Start(s, "accept", a, AppLock(a), "room", RoomToLock(a))
  \/ /\ At(s, "accept", "room")
     /\ LET users == app[tx[s].arg].users IN
        IF room[app[tx[s].arg].room] # "OPEN" THEN Abort(s)
        ELSE Continue(s, [tx[s] EXCEPT !.step = "schedules", !.want = NextSchedule(Known(users)),
                                   !.seen = users, !.left = Known(users)])
  \/ /\ At(s, "accept", "schedules")
     /\ LET u == Least(tx[s].left)  rest == tx[s].left \ {u}  r == app[tx[s].arg].room  IN
        IF \/ HasActiveScheduleConflict(u, r)
           \/ rest = {} /\ AvailablePublicSlots(r) < Cardinality(DOMAIN tx[s].seen)
        THEN Abort(s)
        ELSE IF rest # {}
        THEN Continue(s, [tx[s] EXCEPT !.want = NextSchedule(rest), !.left = rest])
        ELSE Continue(s, [tx[s] EXCEPT !.step = "overlaps", !.want = {},
                                   !.left = Known(tx[s].seen)])
  \/ /\ At(s, "accept", "overlaps") /\ tx[s].left # {}
     /\ LET u == Least(tx[s].left)  found == Candidates(tx[s].arg, u) \ tx[s].taken  IN
        Continue(s, [tx[s] EXCEPT !.want = {AppLock(b) : b \in found},
                              !.left = tx[s].left \ {u}, !.taken = tx[s].taken \cup found])
  \/ /\ At(s, "accept", "overlaps") /\ tx[s].left = {}
     /\ LET a == tx[s].arg
            mine == {x \in Seats : x[1] = a /\ x[2] \in DOMAIN tx[s].seen}
        IN  /\ seat' = [x \in Seats |-> IF x \in mine THEN "ACTIVE" ELSE seat[x]]
            /\ account' = [x \in Seats |-> IF x \in mine THEN tx[s].seen[x[2]] ELSE account[x]]
            /\ app' = [b \in Apps |-> IF b = a THEN [app[b] EXCEPT !.status = "ACCEPTED"]
                                      ELSE IF b \in tx[s].taken
                                      THEN [app[b] EXCEPT !.status = "WITHDRAWN"] ELSE app[b]]
            /\ stale' = stale \cup {x \in mine : tx[s].seen[x[2]] # app[a].users[x[2]]}
     /\ UNCHANGED <<friend, party, member, room>>
     /\ Release(s)

-----------------------------------------------------------------------------
(* Seats and rooms. *)

RemoveParticipant(s) ==
  \/ \E x \in Seats :
       /\ seat[x] = "ACTIVE"
       /\ Start(s, "remove", x, SeatLock(x), "room", {RoomLock(app[x[1]].room)})
  \/ /\ At(s, "remove", "room")
     /\ IF room[app[tx[s].arg[1]].room] = "OPEN"
        THEN /\ seat' = [seat EXCEPT ![tx[s].arg] = "REMOVED_BY_HOST"]
             /\ UNCHANGED <<friend, party, member, room, app, account, stale>>
             /\ Release(s)
        ELSE Abort(s)

\* Unclaimed guests whose seats go with that of the party's owner.
GuestsOf(x) ==
  {y \in Seats : /\ y[1] = x[1] /\ seat[y] = "ACTIVE" /\ account[y] = Nil
                 /\ app[x[1]].owner = Party /\ account[x] = Owner}

GiveUpSeats(s, gone) ==
  /\ seat' = [y \in Seats |-> IF y \in gone THEN "CANCELLED" ELSE seat[y]]
  /\ UNCHANGED <<friend, party, member, room, app, account, stale>>
  /\ Release(s)

\* The owner's seat takes those of his guests along.  The query that finds them
\* locks the rows it joins, and what was claimed while it waited is left alone.
CancelParticipant(s) ==
  \/ \E x \in Seats :
       /\ seat[x] = "ACTIVE" /\ account[x] # Nil
       /\ Start(s, "leave", x, SeatLock(x), "room", {RoomLock(app[x[1]].room)})
  \/ /\ At(s, "leave", "room")
     /\ LET x == tx[s].arg  found == GuestsOf(x) IN
        IF room[app[x[1]].room] # "OPEN" THEN Abort(s)
        ELSE IF found = {} THEN GiveUpSeats(s, {x})
        ELSE Continue(s, [tx[s] EXCEPT !.step = "guests", !.taken = found,
                                  !.want = {SeatLock(y) : y \in found}
                                             \cup {AppLock(x[1]), PartyLock}])
  \/ /\ At(s, "leave", "guests")
     /\ GiveUpSeats(s, {tx[s].arg} \cup (tx[s].taken \cap GuestsOf(tx[s].arg)))

PendingOf(r) == {a \in Apps : app[a].room = r /\ app[a].status \in Pending}

Cancelling(r) == \E s \in Sessions : tx[s].op = "cancel" /\ tx[s].arg = r

CancelRoom(s) ==
  \/ \E r \in Rooms :
       /\ room[r] = "OPEN"
       /\ Cardinality({q \in Rooms : room[q] # "OPEN" \/ Cancelling(q)}) < MaxCancelled
       /\ Start(s, "cancel", r, RoomLock(r), "seats", {SeatLock(x) : x \in Active(r)})
  \/ At(s, "cancel", "seats")
     /\ GoTo(s, "applications", {AppLock(a) : a \in PendingOf(tx[s].arg)})
  \/ /\ At(s, "cancel", "applications")
     /\ room' = [room EXCEPT ![tx[s].arg] = "CANCELLED"]
     /\ seat' = [x \in Seats |-> IF x \in Active(tx[s].arg) THEN "CANCELLED" ELSE seat[x]]
     /\ app' = [a \in Apps |-> IF a \in PendingOf(tx[s].arg)
                               THEN [app[a] EXCEPT !.status = "EXPIRED"] ELSE app[a]]
     /\ UNCHANGED <<friend, party, member, account, stale>>
     /\ Release(s)

-----------------------------------------------------------------------------

\* The party has just been created: its owner is its only member, and confirmed.
InitialTables ==
  /\ friend = [u \in Users \ {Owner} |-> "NONE"]
  /\ party = "READY"
  /\ member = [m \in Rows |-> IF m = Owner THEN [status |-> "CONFIRMED", user |-> Owner]
                                           ELSE [status |-> "NONE", user |-> Nil]]
  /\ room = [r \in Rooms |-> "OPEN"]
  /\ app = [a \in Apps |-> NoApp]
  /\ seat = [s \in Seats |-> "NONE"]
  /\ account = [s \in Seats |-> Nil]
  /\ stale = {}

Init ==
  /\ InitialTables
  /\ tx = [s \in Sessions |-> Idle]
  /\ held = [s \in Sessions |-> {}]

Statement(s) ==
  \/ AddMember(s) \/ RespondMember(s) \/ RemoveMember(s) \/ ClaimGuest(s)
  \/ ApplyWithParty(s) \/ RejectApplication(s) \/ AcceptApplication(s)
  \/ RemoveParticipant(s) \/ CancelParticipant(s) \/ CancelRoom(s)

\* Commands that lock a single row.
ShortCommand ==
  \/ \E u \in Users \ {Owner} : RequestFriendship(u) \/ RespondFriendship(u)
  \/ \E u \in Singles : ApplyAlone(u)
  \/ \E a \in Apps : WithdrawApplication(a)

Next ==
  \/ ShortCommand
  \/ \E s \in Sessions : Statement(s) \/ Acquire(s) \/ BreakDeadlock(s)

Spec == Init /\ [][Next]_vars

-----------------------------------------------------------------------------
(* What interleaved commands keep. *)

\* While an application of the party is live the party is as the host reviews it:
\* nobody joins or leaves, everybody registered has confirmed, and a guest's
\* claim reaches both, whatever was under way when the application was filed.
FrozenComposition ==
  \A a \in Apps : app[a].owner = Party /\ app[a].status \in ActiveApp =>
    /\ app[a].users = Snapshot(Party)
    /\ CanPartyBeReady(member)

\* Applications with a seat that was accepted while its guest was being claimed.
Tangled == {s[1] : s \in stale}

\* A seat carries the account of the member it was given to, and the application
\* that gave it stays accepted.  Only a claim that runs beside the acceptance, and
\* whose commit falls after one of them has read, breaks this: the seat then has
\* no account for good, and an acceptance elsewhere may withdraw the application.
SeatsFollowAnswers ==
  \A s \in Seats : seat[s] # "NONE" =>
    /\ s \notin stale => account[s] = app[s[1]].users[s[2]]
    /\ s[1] \notin Tangled => app[s[1]].status = "ACCEPTED"

\* However acceptances interleave, nobody is accepted as himself into two rooms
\* that are played at the same time.
AcceptedSchedulesAreDisjoint ==
  \A s, t \in Seats :
    /\ seat[s] = "ACTIVE" /\ seat[t] = "ACTIVE"
    /\ account[s] = account[t] /\ account[s] # Nil
    /\ app[s[1]].room # app[t[1]].room
    => s[2] \in Guests \/ t[2] \in Guests

\* Acceptances that run side by side never seat more than a room holds.
SlotsAreNotOversold == \A r \in Rooms : AvailablePublicSlots(r) >= 0

\* Sessions that ask for a lock against the order the other commands keep: a
\* cancelled room its rows after the room, an owner who leaves his guests' rows
\* after it, a claim the party after its member or a seat after both, and an
\* acceptance other applications after its own.
Backward(s) ==
  \/ tx[s].op = "cancel"
  \/ tx[s].op = "leave" /\ tx[s].step = "guests"
  \/ tx[s].op = "claim" /\ tx[s].step \in {"party", "seats"}
  \/ tx[s].op = "accept" /\ tx[s].step = "overlaps"

\* Commands wait for each other in a circle only where one of them locks against
\* that order: the other answers and removals of a host, players who leave alone
\* and the schedules of two players never do.
DeadlocksAreInversions ==
  \A s \in Sessions : Deadlocked(s) => \E t \in Sessions : Deadlocked(t) /\ Backward(t)
=============================================================================
