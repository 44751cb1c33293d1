----------------------- MODULE RoomTransactionsProofs -----------------------
(***************************************************************************)
(* What row locks keep when commands run side by side, for any number of   *)
(* sessions, rooms, players, guests and applications.                      *)
(*                                                                         *)
(* A command reads under its first locks and writes when it commits.  The  *)
(* argument is one of exclusion: Under(s) says what the command of session *)
(* s has found and still relies on, and which lock keeps it so; Data says  *)
(* how rows agree with each other.  A statement that does not commit can   *)
(* only disturb Under of its own session; a commit ends its own command,   *)
(* so what is to show is Data, and Under of the sessions whose locks it    *)
(* cannot have had.                                                        *)
(*                                                                         *)
(* The third part is about waiting.  Ordered(s) says which kinds of locks  *)
(* the command of s has, and which ones it asks for, so that a circle of   *)
(* waits can be walked from one kind of lock to the next.                  *)
(*                                                                         *)
(* The last part shows that every commit is a step of RoomCommands, and no *)
(* other statement is one.  Standing(s) adds to Under(s) what the guards   *)
(* of that step ask for; Aside(t) says that a commit of somebody else has  *)
(* left alone what t has locked, and so whatever t knows still stands.     *)
(***************************************************************************)
EXTENDS RoomCommands, FiniteSetTheorems, WellFoundedInduction, TLAPS

-----------------------------------------------------------------------------
(* The inductive invariant. *)

MemberStatus == Present \cup {"NONE", "REMOVED"}
AppStatus    == {"NONE", "REJECTED", "WITHDRAWN", "EXPIRED"} \cup ActiveApp
SeatStatus   == {"NONE", "ACTIVE", "CANCELLED", "REMOVED_BY_HOST"}
Accounts     == Users \cup {Nil}
Snapshots    == UNION {[D -> Accounts] : D \in SUBSET Rows}
Owners       == Accounts \cup {Party}

DataTypes ==
  /\ party \in {"FORMING", "READY"}
  /\ member \in [Rows -> [status : MemberStatus, user : Accounts]]
  /\ room \in [Rooms -> {"OPEN", "CANCELLED"}]
  /\ app \in [Apps -> [status : AppStatus, room : Rooms \cup {Nil}, owner : Owners,
                       users : Snapshots]]
  /\ seat \in [Seats -> SeatStatus]
  /\ account \in [Seats -> Accounts]
  /\ stale \subseteq Seats

\* A session's row has its columns, whatever they hold.
IsRow(t) ==
  t = [op |-> t.op, arg |-> t.arg, step |-> t.step, want |-> t.want, seen |-> t.seen,
       left |-> t.left, taken |-> t.taken]

SessionTypes ==
  /\ tx = [s \in Sessions |-> tx[s]] /\ held = [s \in Sessions |-> held[s]]
  /\ \A s \in Sessions : IsRow(tx[s]) /\ tx[s].seen \in Snapshots /\ tx[s].left \subseteq Users

TypeOK == DataTypes /\ SessionTypes

\* No row is locked by two commands.
Exclusion == \A s, t \in Sessions : s # t => held[s] \cap held[t] = {}

\* A registered member is known by his account, in the party, its snapshots and
\* its seats; a guest nobody claimed has none.
Accounted ==
  /\ \A m \in Users : member[m].status \in Present => member[m].user = m
  /\ \A m \in Guests : member[m].status \in {"NONE", "GUEST"} =>
       /\ member[m].user = Nil
       /\ \A a \in Apps : m \in DOMAIN app[a].users => app[a].users[m] = Nil
  /\ \A a \in Apps : \A m \in Users \cap DOMAIN app[a].users : app[a].users[m] = m
  /\ \A x \in Seats : seat[x] # "NONE" /\ x[2] \in Users => account[x] = x[2]

\* Seats belong to members of answered applications, seats held to open rooms.
Seated ==
  /\ \A a \in Apps : app[a].status # "NONE" => app[a].room \in Rooms
  /\ \A x \in Seats : seat[x] # "NONE" =>
       /\ app[x[1]].status \notin {"NONE"} \cup Pending
       /\ x[2] \in DOMAIN app[x[1]].users
  /\ \A x \in Seats : seat[x] = "ACTIVE" => room[app[x[1]].room] = "OPEN"

\* The player holds a seat of his own in another room.
Elsewhere(u, r) == \E x \in Seats : x[2] = u /\ seat[x] = "ACTIVE" /\ app[x[1]].room # r

OneRoomEach ==
  \A x \in Seats : x[2] \in Users /\ seat[x] = "ACTIVE" => ~Elsewhere(x[2], app[x[1]].room)

PartyFollows == party = StatusOfParty(member)

Data ==
  /\ DataTypes /\ Accounted /\ Seated /\ PartyFollows
  /\ FrozenComposition /\ SeatsFollowAnswers /\ OneRoomEach /\ SlotsAreNotOversold

\* The locks a command has once the statement it has reached goes through.
Locks(s) == held[s] \cup tx[s].want

\* Whoever changes the composition holds the party, which has nothing filed.
Editing(s) ==
  /\ tx[s].op = "add" =>
       /\ tx[s].arg \in Rows /\ member[tx[s].arg].status = "NONE"
       /\ tx[s].step = "friendship" => tx[s].arg \in Users
  /\ tx[s].op = "respond" => tx[s].arg \in Users \X {"CONFIRMED", "DECLINED"}
  /\ tx[s].op = "drop" => tx[s].arg \in Rows /\ MemberLock(tx[s].arg) \in Locks(s)
  /\ tx[s].op \in {"add", "respond", "drop"} => PartyLock \in held[s] /\ ~PartyHasActiveApplication

\* Whoever claims a guest holds its row, and has found seats of that guest.
Claiming(s) ==
  tx[s].op = "claim" =>
    /\ tx[s].arg \in Guests \X Users
    /\ MemberLock(tx[s].arg[1]) \in held[s] /\ member[tx[s].arg[1]].status = "GUEST"
    /\ tx[s].step = "seats" =>
         \A x \in tx[s].taken : x \in Seats /\ x[2] = tx[s].arg[1] /\ seat[x] # "NONE"

\* Whoever files for the party holds the room, then the party, which is READY.
Filing(s) ==
  tx[s].op = "apply" =>
    /\ tx[s].arg \in Apps \X Rooms /\ RoomLock(tx[s].arg[2]) \in held[s]
    /\ tx[s].step = "party" => PartyLock \in Locks(s)
    /\ tx[s].step = "members" => PartyLock \in held[s] /\ party = "READY"

\* An application that is being answered stays pending.
Answering(s) ==
  tx[s].op \in {"reject", "accept"} =>
    tx[s].arg \in Apps /\ AppLock(tx[s].arg) \in held[s] /\ app[tx[s].arg].status \in Pending

\* The players an acceptance has checked the schedules of.
Checked(s) ==
  IF tx[s].step = "overlaps" THEN Known(tx[s].seen) ELSE Known(tx[s].seen) \ tx[s].left

\* What an acceptance has found of its room, its players and the applications it
\* takes back, with the locks that keep each of them so.
Accepting(s) ==
  LET a == tx[s].arg
      r == app[a].room
  IN  /\ tx[s].op = "accept" /\ tx[s].step = "room" => RoomLock(r) \in Locks(s)
      /\ tx[s].op = "accept" /\ tx[s].step # "overlaps" => tx[s].taken = {}
      /\ tx[s].op = "accept" /\ tx[s].step \in {"schedules", "overlaps"} =>
           /\ RoomLock(r) \in held[s] /\ room[r] = "OPEN"
           /\ DOMAIN tx[s].seen = DOMAIN app[a].users
           /\ \A m \in Users \cap DOMAIN tx[s].seen : tx[s].seen[m] = m
           /\ \A u \in Checked(s) : ScheduleLock(u) \in held[s] /\ ~Elsewhere(u, r)
           /\ tx[s].step = "schedules" /\ tx[s].left # {} =>
                ScheduleLock(Least(tx[s].left)) \in Locks(s)
           /\ tx[s].left \subseteq Known(tx[s].seen)
           /\ tx[s].step = "overlaps" =>
                AvailablePublicSlots(r) >= Cardinality(DOMAIN tx[s].seen)
           /\ \A b \in tx[s].taken :
                /\ b \in Apps /\ AppLock(b) \in Locks(s) /\ app[b].status # "NONE"
                /\ app[b].status = "ACCEPTED" => b \in Tangled
                /\ Known(tx[s].seen) \cap Known(app[b].users) # {}

\* A seat that is being taken away or given up has been held, and so have those that
\* may go with it.
Removing(s) ==
  tx[s].op \in {"remove", "leave"} =>
    /\ tx[s].arg \in Seats /\ seat[tx[s].arg] # "NONE"
    /\ \A y \in tx[s].taken : y \in Seats /\ seat[y] # "NONE"

\* Whoever cancels a room holds it, and soon every application pending for it.
Closing(s) ==
  tx[s].op = "cancel" =>
    /\ tx[s].arg \in Rooms /\ RoomLock(tx[s].arg) \in held[s]
    /\ tx[s].step = "applications" => \A a \in PendingOf(tx[s].arg) : AppLock(a) \in Locks(s)

Under(s) ==
  /\ Editing(s) /\ Claiming(s) /\ Filing(s) /\ Answering(s) /\ Accepting(s)
  /\ Removing(s) /\ Closing(s)

IInv == Data /\ SessionTypes /\ Exclusion /\ \A s \in Sessions : Under(s)

-----------------------------------------------------------------------------
(* What a statement does to the sessions. *)

\* Only session s moves, and takes no lock another one has.
Moves(s) ==
  /\ SessionTypes'
  /\ \A t \in Sessions : t # s => tx'[t] = tx[t] /\ held'[t] = held[t]
  /\ \A l \in held'[s] : l \in held[s] \/ Free(l)

\* A snapshot is a function on rows, to accounts.
LEMMA SnapshotFacts ==
  ASSUME NEW f \in Snapshots
  PROVE  /\ DOMAIN f \in SUBSET Rows /\ f \in [DOMAIN f -> Accounts]
         /\ \A m \in DOMAIN f : f[m] \in Accounts
         /\ Known(f) \subseteq Users
<1>1. PICK D \in SUBSET Rows : f \in [D -> Accounts] BY DEF Snapshots
<1>2. QED BY <1>1 DEF Known, Accounts

\* A session between two commands has a row like any other.
LEMMA IdleRow ==
  /\ IsRow(Idle) /\ Idle.op = "NONE" /\ Idle.left \subseteq Users /\ Idle.seen \in Snapshots
  /\ Idle.taken = {} /\ Idle.want = {}
<1>1. IsRow(Idle) /\ Idle.op = "NONE" /\ Idle.left = {} /\ Idle.seen = <<>> /\ Idle.taken = {}
      /\ Idle.want = {}
  BY DEF IsRow, Idle
<1>2. <<>> \in [{} -> Accounts] OBVIOUS
<1>3. QED BY <1>1, <1>2 DEF Snapshots

\* A command begins with one lock, and asks for the next ones.
LEMMA StartEffect ==
  ASSUME SessionTypes, NEW s \in Sessions, NEW op, NEW arg, NEW lock, NEW step, NEW locks,
         Start(s, op, arg, lock, step, locks)
  PROVE  /\ Moves(s) /\ UNCHANGED data /\ Free(lock)
         /\ tx'[s].op = op /\ tx'[s].arg = arg /\ tx'[s].step = step /\ tx'[s].want = locks
         /\ tx'[s].taken = {} /\ held'[s] = {lock} /\ Locks(s)' = {lock} \cup locks
<1>0. PICK u : u = [Idle EXCEPT !.op = op, !.arg = arg, !.step = step, !.want = locks]
  OBVIOUS
<1>1. /\ IsRow(u) /\ u.op = op /\ u.arg = arg /\ u.step = step /\ u.want = locks
      /\ u.seen = Idle.seen /\ u.left = Idle.left /\ u.taken = Idle.taken
  <2>1. PICK i : i = Idle OBVIOUS
  <2>2. IsRow(i) BY <2>1, IdleRow
  <2>3. u = [i EXCEPT !.op = op, !.arg = arg, !.step = step, !.want = locks]
    BY <1>0, <2>1
  <2>4. QED BY <2>1, <2>2, <2>3 DEF IsRow
<1>2. tx' = [tx EXCEPT ![s] = u] /\ held' = [held EXCEPT ![s] = {lock}] /\ Free(lock)
      /\ UNCHANGED data
  BY <1>0 DEF Start
<1>3. tx'[s] = u /\ held'[s] = {lock}
      /\ \A t \in Sessions : t # s => tx'[t] = tx[t] /\ held'[t] = held[t]
  BY <1>2 DEF SessionTypes
<1>4. SessionTypes' BY <1>1, <1>2, <1>3, IdleRow DEF SessionTypes
<1>5. QED BY <1>1, <1>2, <1>3, <1>4, IdleRow DEF Moves, Locks

\* The statement has its locks; the next one asks for those still missing.
LEMMA ContinueEffect ==
  ASSUME SessionTypes, NEW s \in Sessions, NEW next, IsRow(next), next.seen \in Snapshots,
         next.left \subseteq Users, Continue(s, next), \A l \in tx[s].want : Free(l)
  PROVE  /\ Moves(s) /\ UNCHANGED data
         /\ tx'[s].op = next.op /\ tx'[s].arg = next.arg /\ tx'[s].step = next.step
         /\ tx'[s].seen = next.seen /\ tx'[s].left = next.left /\ tx'[s].taken = next.taken
         /\ held'[s] = Locks(s) /\ Locks(s)' = Locks(s) \cup next.want
         /\ tx'[s].want = next.want \ Locks(s)
<1> DEFINE u == [next EXCEPT !.want = next.want \ held'[s]]
<1>1. /\ IsRow(u) /\ u.op = next.op /\ u.arg = next.arg /\ u.step = next.step
      /\ u.seen = next.seen /\ u.left = next.left /\ u.taken = next.taken
      /\ u.want = next.want \ held'[s]
  BY DEF IsRow
<1> HIDE DEF u
<1>2. tx' = [tx EXCEPT ![s] = u] /\ held' = [held EXCEPT ![s] = held[s] \cup tx[s].want]
      /\ UNCHANGED data
  BY DEF Continue, u
<1>3. tx'[s] = u /\ held'[s] = held[s] \cup tx[s].want
      /\ \A t \in Sessions : t # s => tx'[t] = tx[t] /\ held'[t] = held[t]
  BY <1>2 DEF SessionTypes
<1>4. SessionTypes' BY <1>1, <1>2, <1>3 DEF SessionTypes
<1>5. QED BY <1>1, <1>2, <1>3, <1>4 DEF Moves, Locks

\* The same, when only the step changes.
LEMMA GoToEffect ==
  ASSUME SessionTypes, NEW s \in Sessions, NEW step, NEW locks, GoTo(s, step, locks),
         \A l \in tx[s].want : Free(l)
  PROVE  /\ Moves(s) /\ UNCHANGED data
         /\ tx'[s].op = tx[s].op /\ tx'[s].arg = tx[s].arg /\ tx'[s].step = step
         /\ tx'[s].seen = tx[s].seen /\ tx'[s].left = tx[s].left
         /\ tx'[s].taken = tx[s].taken
         /\ held'[s] = Locks(s) /\ Locks(s)' = Locks(s) \cup locks
         /\ tx'[s].want = locks \ Locks(s)
<1>0. PICK t : t = tx[s] OBVIOUS
<1>5. PICK next : next = [t EXCEPT !.step = step, !.want = locks] OBVIOUS
<1>1. IsRow(tx[s]) /\ tx[s].seen \in Snapshots /\ tx[s].left \subseteq Users
  BY DEF SessionTypes
<1>2. /\ IsRow(next) /\ next.op = tx[s].op /\ next.arg = tx[s].arg /\ next.step = step
      /\ next.want = locks /\ next.seen = tx[s].seen /\ next.left = tx[s].left
      /\ next.taken = tx[s].taken
  BY <1>0, <1>1, <1>5 DEF IsRow
<1>3. Continue(s, next) BY <1>0, <1>5 DEF GoTo
<1>4. QED BY <1>1, <1>2, <1>3, ContinueEffect

\* A command that ends has no locks.
LEMMA ReleaseEffect ==
  ASSUME SessionTypes, NEW s \in Sessions, Release(s)
  PROVE  Moves(s) /\ tx'[s].op = "NONE" /\ tx'[s].want = {} /\ held'[s] = {}
<1>1. tx'[s] = Idle /\ held'[s] = {}
      /\ \A t \in Sessions : t # s => tx'[t] = tx[t] /\ held'[t] = held[t]
  BY DEF Release, SessionTypes
<1>2. SessionTypes' BY <1>1, IdleRow DEF Release, SessionTypes
<1>3. QED BY <1>1, <1>2, IdleRow DEF Moves

\* One more of the locks a statement asks for; the others are still asked for.
LEMMA AcquireEffect ==
  ASSUME SessionTypes, NEW s \in Sessions, Acquire(s)
  PROVE  /\ Moves(s) /\ UNCHANGED data
         /\ tx'[s].op = tx[s].op /\ tx'[s].arg = tx[s].arg /\ tx'[s].step = tx[s].step
         /\ tx'[s].seen = tx[s].seen /\ tx'[s].left = tx[s].left
         /\ tx'[s].taken = tx[s].taken
         /\ held[s] \subseteq held'[s] /\ Locks(s)' = Locks(s)
         /\ \E l \in tx[s].want :
              tx[s].want # {l} /\ held'[s] = held[s] \cup {l} /\ tx'[s].want = tx[s].want \ {l}
<1>1. PICK l \in tx[s].want :
        /\ tx[s].want # {l}
        /\ Free(l) /\ held' = [held EXCEPT ![s] = held[s] \cup {l}] /\ UNCHANGED data
        /\ tx' = [tx EXCEPT ![s].want = tx[s].want \ {l}]
  BY DEF Acquire
<1> DEFINE u == [tx[s] EXCEPT !.want = tx[s].want \ {l}]
<1>2. IsRow(tx[s]) /\ tx[s].seen \in Snapshots /\ tx[s].left \subseteq Users
  BY DEF SessionTypes
<1>3. /\ IsRow(u) /\ u.op = tx[s].op /\ u.arg = tx[s].arg /\ u.step = tx[s].step
      /\ u.want = tx[s].want \ {l} /\ u.seen = tx[s].seen /\ u.left = tx[s].left
      /\ u.taken = tx[s].taken
  BY <1>2 DEF IsRow
<1>4. tx' = [tx EXCEPT ![s] = u] BY <1>1
<1> HIDE DEF u
<1>5. tx'[s] = u /\ held'[s] = held[s] \cup {l}
      /\ \A t \in Sessions : t # s => tx'[t] = tx[t] /\ held'[t] = held[t]
  BY <1>1, <1>4 DEF SessionTypes
<1>6. SessionTypes' BY <1>1, <1>2, <1>3, <1>4, <1>5 DEF SessionTypes
<1>7. QED BY <1>1, <1>3, <1>5, <1>6 DEF Moves, Locks

\* A session that moves keeps locks exclusive.
LEMMA MovesExclusion ==
  ASSUME Exclusion, NEW s \in Sessions, Moves(s)
  PROVE  Exclusion'
BY DEF Exclusion, Moves, Free

\* A lock somebody has, or waits for and can have, is nobody else's.
LEMMA Others ==
  ASSUME Exclusion, NEW s \in Sessions, NEW t \in Sessions, t # s, NEW l \in held[t]
  PROVE  /\ l \notin held[s] /\ ~Free(l)
         /\ (\A k \in tx[s].want : Free(k)) => l \notin Locks(s)
BY DEF Exclusion, Free, Locks

\* The data commands rely on: friendships are read and used in one statement.
rows == <<party, member, room, app, seat, account, stale>>

\* A command goes on when neither its session nor the data moves.
LEMMA UnderKept ==
  ASSUME NEW t \in Sessions, Under(t), tx'[t] = tx[t], held'[t] = held[t], UNCHANGED rows
  PROVE  Under(t)'
<1>1. Locks(t)' = Locks(t) BY DEF Locks
<1>2. Editing(t)' /\ Claiming(t)' /\ Filing(t)'
  BY <1>1 DEF Under, Editing, Claiming, Filing, rows, PartyHasActiveApplication
<1>3. Answering(t)' /\ Removing(t)' /\ Closing(t)'
  BY <1>1 DEF Under, Answering, Removing, Closing, rows, PendingOf
<1>4. Accepting(t)'
  BY <1>1 DEF Under, Accepting, Checked, Elsewhere, AvailablePublicSlots, Active, Tangled, rows
<1>5. QED BY <1>2, <1>3, <1>4 DEF Under

\* What is said of the data does not change with them.
LEMMA DataKept == Data /\ UNCHANGED rows => Data'
BY DEF Data, rows, DataTypes, Accounted, Seated, PartyFollows, StatusOfParty, CanPartyBeReady,
       FrozenComposition, Snapshot, InParty, SeatsFollowAnswers, Tangled, OneRoomEach,
       Elsewhere, SlotsAreNotOversold, AvailablePublicSlots, Active

\* A command has to keep what its own kind relies on.
LEMMA UnderOfKind ==
  ASSUME NEW s
  PROVE  /\ tx'[s].op = "NONE" => Under(s)'
         /\ tx'[s].op \in {"add", "respond", "drop"} /\ Editing(s)' => Under(s)'
         /\ tx'[s].op = "claim" /\ Claiming(s)' => Under(s)'
         /\ tx'[s].op = "apply" /\ Filing(s)' => Under(s)'
         /\ tx'[s].op = "reject" /\ Answering(s)' => Under(s)'
         /\ tx'[s].op = "accept" /\ Answering(s)' /\ Accepting(s)' => Under(s)'
         /\ tx'[s].op \in {"remove", "leave"} /\ Removing(s)' => Under(s)'
         /\ tx'[s].op = "cancel" /\ Closing(s)' => Under(s)'
BY DEF Under, Editing, Claiming, Filing, Answering, Accepting, Removing, Closing

\* What every step of a session is to keep.
Kept(s) == Moves(s) /\ Data' /\ \A t \in Sessions : Under(t)'

\* A statement that writes nothing has to keep its own command going.
LEMMA QuietKept ==
  ASSUME IInv, NEW s \in Sessions, Moves(s), UNCHANGED data, Under(s)'
  PROVE  Kept(s)
<1>0. UNCHANGED rows BY DEF data, rows
<1>1. \A t \in Sessions : t # s => Under(t)' BY <1>0, UnderKept DEF IInv, Moves
<1>2. QED BY <1>0, <1>1, DataKept DEF IInv, Kept

\* A command that gives up leaves everything as it was.
LEMMA AbortKept ==
  ASSUME IInv, NEW s \in Sessions, Abort(s)
  PROVE  Kept(s)
<1>1. Moves(s) /\ tx'[s].op = "NONE" /\ UNCHANGED data
  BY ReleaseEffect DEF Abort, IInv
<1>2. QED BY <1>1, QuietKept, UnderOfKind

\* A command that commits has to keep the data and what others rely on.
LEMMA CommitKept ==
  ASSUME IInv, NEW s \in Sessions, Release(s), Data',
         \A t \in Sessions : t # s /\ tx'[t] = tx[t] /\ held'[t] = held[t] => Under(t)'
  PROVE  Kept(s)
<1>1. Moves(s) /\ tx'[s].op = "NONE" BY ReleaseEffect DEF IInv
<1>2. \A t \in Sessions : Under(t)' BY <1>1, UnderOfKind DEF Moves
<1>3. QED BY <1>1, <1>2 DEF Kept

\* One more lock disturbs nobody.
LEMMA AcquireKept ==
  ASSUME IInv, NEW s \in Sessions, Acquire(s)
  PROVE  Kept(s)
<1>1. /\ Moves(s) /\ UNCHANGED data
      /\ tx'[s].op = tx[s].op /\ tx'[s].arg = tx[s].arg /\ tx'[s].step = tx[s].step
      /\ tx'[s].seen = tx[s].seen /\ tx'[s].left = tx[s].left
      /\ tx'[s].taken = tx[s].taken
      /\ held[s] \subseteq held'[s] /\ Locks(s)' = Locks(s)
  BY AcquireEffect DEF IInv
<1>2. Under(s) BY DEF IInv
<1>3. Editing(s)' /\ Claiming(s)' /\ Filing(s)'
  BY <1>1, <1>2 DEF Under, Editing, Claiming, Filing, data, PartyHasActiveApplication
<1>4. Answering(s)' /\ Removing(s)' /\ Closing(s)'
  BY <1>1, <1>2 DEF Under, Answering, Removing, Closing, data, PendingOf
<1>5. Accepting(s)'
  BY <1>1, <1>2 DEF Under, Accepting, Checked, Elsewhere, AvailablePublicSlots, Active,
                    Tangled, data
<1>6. Under(s)' BY <1>3, <1>4, <1>5 DEF Under
<1>7. QED BY <1>1, <1>6, QuietKept

-----------------------------------------------------------------------------
(* The composition of the party. *)

\* Nothing of an acceptance, an answer or a cancellation is about the party's
\* rows.
LEMMA MembersAside ==
  ASSUME NEW t \in Sessions, Under(t), tx'[t] = tx[t], held'[t] = held[t],
         UNCHANGED <<room, app, seat, account, stale>>
  PROVE  Answering(t)' /\ Accepting(t)' /\ Removing(t)' /\ Closing(t)'
<1>1. Locks(t)' = Locks(t) BY DEF Locks
<1>2. Answering(t)' /\ Removing(t)' /\ Closing(t)'
  BY <1>1 DEF Under, Answering, Removing, Closing, PendingOf
<1>3. Accepting(t)'
  BY <1>1 DEF Under, Accepting, Checked, Elsewhere, AvailablePublicSlots, Active, Tangled
<1>4. QED BY <1>2, <1>3

\* Whoever saves a member holds the party, so no other command edits it or files
\* for it; a guest being claimed is held by the claim.
LEMMA SaveMemberUnder ==
  ASSUME IInv, NEW s \in Sessions, NEW t \in Sessions, t # s, tx'[t] = tx[t],
         held'[t] = held[t], NEW m \in Rows, NEW status, NEW user,
         SaveMember(s, m, status, user), PartyLock \in held[s], \A l \in tx[s].want : Free(l),
         m \in Users \/ member[m].status # "GUEST" \/ MemberLock(m) \in Locks(s)
  PROVE  Under(t)'
<1>1. Under(t) /\ Exclusion /\ DataTypes BY DEF IInv, Data
<1>2. PartyLock \notin held[t] BY <1>1 DEF Exclusion
<1>3. UNCHANGED <<room, app, seat, account, stale>>
      /\ \A n \in Rows : n # m => member'[n] = member[n]
  BY <1>1 DEF SaveMember, DataTypes
<1>4. Answering(t)' /\ Accepting(t)' /\ Removing(t)' /\ Closing(t)'
  BY <1>1, <1>3, MembersAside
<1>5. Editing(t)' /\ Filing(t)'
  <2>1. tx[t].op \notin {"add", "respond", "drop"}
        /\ ~(tx[t].op = "apply" /\ tx[t].step = "members")
    BY <1>1, <1>2 DEF Under, Editing, Filing
  <2>2. Locks(t)' = Locks(t) BY DEF Locks
  <2>3. QED BY <1>1, <2>1, <2>2 DEF Under, Editing, Filing
<1>6. Claiming(t)'
  <2> SUFFICES ASSUME tx[t].op = "claim" PROVE Claiming(t)'
    BY DEF Claiming
  <2>1. /\ tx[t].arg \in Guests \X Users /\ tx[t].arg[1] \in Rows
        /\ MemberLock(tx[t].arg[1]) \in held[t] /\ member[tx[t].arg[1]].status = "GUEST"
    BY <1>1 DEF Under, Claiming, Rows
  <2>2. MemberLock(tx[t].arg[1]) \notin Locks(s) BY <1>1, <2>1, Others
  <2>3. tx[t].arg[1] # m BY <2>1, <2>2, TransactionsAssumption
  <2>4. QED BY <1>1, <1>3, <2>1, <2>3 DEF Under, Claiming
<1>7. QED BY <1>4, <1>5, <1>6 DEF Under

\* A member is saved while nothing of the party is filed: no snapshot is touched.
LEMMA SaveMemberData ==
  ASSUME Data, NEW s, NEW m \in Rows, NEW status \in MemberStatus, NEW user \in Accounts,
         SaveMember(s, m, status, user), ~PartyHasActiveApplication,
         m \in Users /\ status \in Present => user = m,
         m \in Guests /\ status \in {"NONE", "GUEST"} =>
           user = Nil /\ member[m].status \in {"NONE", "GUEST"}
  PROVE  Data'
<1>1. /\ UNCHANGED <<room, app, seat, account, stale>>
      /\ member' = [member EXCEPT ![m] = [status |-> status, user |-> user]]
      /\ party' = StatusOfParty(member')
  BY DEF SaveMember
<1>2. DataTypes' BY <1>1 DEF Data, DataTypes, StatusOfParty
<1>3. /\ member'[m].status = status /\ member'[m].user = user
      /\ \A n \in Rows : n # m => member'[n] = member[n]
  BY <1>1 DEF Data, DataTypes
<1>4. Accounted'
  BY <1>1, <1>3 DEF Data, Accounted, Rows
<1>5. Seated' BY <1>1 DEF Data, Seated
<1>6. PartyFollows' BY <1>1 DEF PartyFollows
<1>7. FrozenComposition'
  BY <1>1 DEF FrozenComposition, PartyHasActiveApplication
<1>8. SeatsFollowAnswers' /\ OneRoomEach' /\ SlotsAreNotOversold'
  BY <1>1 DEF Data, SeatsFollowAnswers, Tangled, OneRoomEach, Elsewhere, SlotsAreNotOversold,
              AvailablePublicSlots, Active
<1>9. QED BY <1>2, <1>4, <1>5, <1>6, <1>7, <1>8 DEF Data

\* What the two lemmas say together of a command that edits the party.
LEMMA SaveMemberKept ==
  ASSUME IInv, NEW s \in Sessions, NEW m \in Rows, NEW status \in MemberStatus,
         NEW user \in Accounts, SaveMember(s, m, status, user),
         PartyLock \in held[s], ~PartyHasActiveApplication, \A l \in tx[s].want : Free(l),
         m \in Users \/ member[m].status # "GUEST" \/ MemberLock(m) \in Locks(s),
         m \in Users /\ status \in Present => user = m,
         m \in Guests /\ status \in {"NONE", "GUEST"} =>
           user = Nil /\ member[m].status \in {"NONE", "GUEST"}
  PROVE  Kept(s)
<1>1. Data' BY SaveMemberData DEF IInv
<1>2. \A t \in Sessions : t # s /\ tx'[t] = tx[t] /\ held'[t] = held[t] => Under(t)'
  BY SaveMemberUnder
<1>3. Release(s) BY DEF SaveMember
<1>4. QED BY <1>1, <1>2, <1>3, CommitKept

\* A command that edits the party goes on when it keeps the party and the row it
\* is about.
LEMMA EditingGoesOn ==
  ASSUME IInv, NEW s \in Sessions, NEW step, NEW locks, GoTo(s, step, locks),
         \A l \in tx[s].want : Free(l), tx[s].op \in {"add", "respond", "drop"},
         step = "friendship" => tx[s].arg \in Users
  PROVE  Kept(s)
<1>1. /\ Moves(s) /\ UNCHANGED data /\ tx'[s].op = tx[s].op /\ tx'[s].arg = tx[s].arg
      /\ tx'[s].step = step /\ held'[s] = Locks(s) /\ Locks(s)' = Locks(s) \cup locks
  BY GoToEffect DEF IInv
<1>2. Editing(s) BY DEF IInv, Under
<1>3. Editing(s)' BY <1>1, <1>2 DEF Editing, data, PartyHasActiveApplication, Locks
<1>4. Under(s)' BY <1>1, <1>3, UnderOfKind
<1>5. QED BY <1>1, <1>4, QuietKept

\* It begins with the party, which has nothing filed.
LEMMA EditingBegins ==
  ASSUME IInv, NEW s \in Sessions, NEW op \in {"add", "respond", "drop"}, NEW arg,
         NEW step, step # "friendship", NEW locks,
         Start(s, op, arg, PartyLock, step, locks), ~PartyHasActiveApplication,
         op = "add" => arg \in Rows /\ member[arg].status = "NONE",
         op = "respond" => arg \in Users \X {"CONFIRMED", "DECLINED"},
         op = "drop" => arg \in Rows /\ MemberLock(arg) \in locks
  PROVE  Kept(s)
<1>1. /\ Moves(s) /\ UNCHANGED data /\ tx'[s].op = op /\ tx'[s].arg = arg
      /\ tx'[s].step = step /\ held'[s] = {PartyLock} /\ Locks(s)' = {PartyLock} \cup locks
  BY StartEffect DEF IInv
<1>2. Editing(s)' BY <1>1 DEF Editing, data, PartyHasActiveApplication
<1>3. Under(s)' BY <1>1, <1>2, UnderOfKind
<1>4. QED BY <1>1, <1>3, QuietKept

\* Adding a member keeps the invariant: the party has no live application.
LEMMA AddMemberKept ==
  ASSUME IInv, NEW s \in Sessions, AddMember(s)
  PROVE  Kept(s)
<1>1. ASSUME NEW m \in Rows \ {Owner}, member[m].status = "NONE", ~PartyHasActiveApplication,
             Start(s, "add", m, PartyLock, "members", MemberLocks)
      PROVE  Kept(s)
  BY <1>1, EditingBegins
<1> DEFINE m == tx[s].arg
<1>2. tx[s].op = "add" => /\ m \in Rows /\ member[m].status = "NONE"
                          /\ tx[s].step = "friendship" => m \in Users
                          /\ PartyLock \in held[s] /\ ~PartyHasActiveApplication
  BY DEF IInv, Under, Editing
<1> HIDE DEF m
<1>3. /\ Nil \in Accounts /\ "GUEST" \in MemberStatus /\ "INVITED" \in MemberStatus
      /\ Users \cap Guests = {} /\ Users \subseteq Accounts /\ Rows = Users \cup Guests
  BY TransactionsAssumption DEF Accounts, MemberStatus, Present, Rows
<1>4. CASE /\ At(s, "add", "members")
           /\ IF m \in Users /\ \E n \in Rows : RegisteredIn(n, m) THEN Abort(s)
              ELSE IF m \in Guests THEN SaveMember(s, m, "GUEST", Nil)
              ELSE GoTo(s, "friendship", {FriendLock(m)})
  <2>1. tx[s].op = "add" /\ \A l \in tx[s].want : Free(l) BY <1>4 DEF At
  <2>2. CASE Abort(s) BY <2>2, AbortKept
  <2>3. CASE m \in Guests /\ SaveMember(s, m, "GUEST", Nil)
    BY <1>2, <1>3, <2>1, <2>3, SaveMemberKept
  <2>4. CASE m \notin Guests /\ GoTo(s, "friendship", {FriendLock(m)})
    BY <1>2, <1>3, <2>1, <2>4, EditingGoesOn DEF m
  <2>5. QED BY <1>4, <2>2, <2>3, <2>4
<1>5. CASE /\ At(s, "add", "friendship")
           /\ IF friend[m] = "ACCEPTED" THEN SaveMember(s, m, "INVITED", m) ELSE Abort(s)
  <2>1. tx[s].op = "add" /\ \A l \in tx[s].want : Free(l) BY <1>5 DEF At
  <2>2. CASE Abort(s) BY <2>2, AbortKept
  <2>3. CASE SaveMember(s, m, "INVITED", m)
    <3>1. m \in Users BY <1>2, <1>5 DEF At
    <3>2. QED BY <1>2, <1>3, <2>1, <2>3, <3>1, SaveMemberKept
  <2>4. QED BY <1>5, <2>2, <2>3
<1>6. QED BY <1>1, <1>4, <1>5 DEF AddMember, m

\* So does a member's answer, whose row is locked.
LEMMA RespondMemberKept ==
  ASSUME IInv, NEW s \in Sessions, RespondMember(s)
  PROVE  Kept(s)
<1>1. ASSUME NEW m \in Users, NEW answer \in {"CONFIRMED", "DECLINED"}, ~PartyHasActiveApplication,
             Start(s, "respond", <<m, answer>>, PartyLock, "member", {MemberLock(m)})
      PROVE  Kept(s)
  BY <1>1, EditingBegins
<1>2. CASE /\ At(s, "respond", "member")
           /\ IF member[tx[s].arg[1]].status = "INVITED"
              THEN GoTo(s, "members", MemberLocks) ELSE Abort(s)
  <2>1. tx[s].op = "respond" /\ \A l \in tx[s].want : Free(l) BY <1>2 DEF At
  <2>2. QED BY <1>2, <2>1, AbortKept, EditingGoesOn
<1>3. CASE At(s, "respond", "members") /\ SaveMember(s, tx[s].arg[1], tx[s].arg[2], tx[s].arg[1])
  <2>1. tx[s].op = "respond" /\ \A l \in tx[s].want : Free(l) BY <1>3 DEF At
  <2>2. /\ tx[s].arg \in Users \X {"CONFIRMED", "DECLINED"}
        /\ PartyLock \in held[s] /\ ~PartyHasActiveApplication
    BY <2>1 DEF IInv, Under, Editing
  <2>3. PICK m \in Users, answer \in {"CONFIRMED", "DECLINED"} : tx[s].arg = <<m, answer>>
    BY <2>2
  <2>4. SaveMember(s, m, answer, m) BY <1>3, <2>3
  <2>5. m \in Rows /\ m \in Accounts /\ answer \in MemberStatus /\ m \notin Guests
    BY TransactionsAssumption DEF Rows, Accounts, MemberStatus, Present
  <2>6. QED BY <2>1, <2>2, <2>4, <2>5, SaveMemberKept
<1>4. QED BY <1>1, <1>2, <1>3 DEF RespondMember

\* So does leaving or being removed.
LEMMA RemoveMemberKept ==
  ASSUME IInv, NEW s \in Sessions, RemoveMember(s)
  PROVE  Kept(s)
<1>1. ASSUME NEW m \in InParty \ {Owner}, ~PartyHasActiveApplication,
             Start(s, "drop", m, PartyLock, "member", {MemberLock(m)})
      PROVE  Kept(s)
  BY <1>1, EditingBegins DEF InParty
<1>2. CASE /\ At(s, "drop", "member")
           /\ IF member[tx[s].arg].user = Owner THEN Abort(s) ELSE GoTo(s, "members", MemberLocks)
  <2>1. tx[s].op = "drop" /\ \A l \in tx[s].want : Free(l) BY <1>2 DEF At
  <2>2. QED BY <1>2, <2>1, AbortKept, EditingGoesOn
<1>3. CASE /\ At(s, "drop", "members")
           /\ SaveMember(s, tx[s].arg, IF tx[s].arg \in Users THEN "NONE" ELSE "REMOVED", Nil)
  <2>1. tx[s].op = "drop" /\ \A l \in tx[s].want : Free(l) BY <1>3 DEF At
  <2>2. /\ tx[s].arg \in Rows /\ MemberLock(tx[s].arg) \in Locks(s)
        /\ PartyLock \in held[s] /\ ~PartyHasActiveApplication
    BY <2>1 DEF IInv, Under, Editing
  <2>3. PICK m \in Rows : m = tx[s].arg BY <2>2
  <2>4. PICK status : status = IF m \in Users THEN "NONE" ELSE "REMOVED" OBVIOUS
  <2>5. SaveMember(s, m, status, Nil) BY <1>3, <2>3, <2>4
  <2>6. /\ Nil \in Accounts /\ status \in MemberStatus /\ status \notin Present
        /\ m \in Guests => status = "REMOVED"
    BY <2>4, TransactionsAssumption DEF Accounts, MemberStatus, Present
  <2>7. QED BY <2>1, <2>2, <2>3, <2>5, <2>6, SaveMemberKept
<1>4. QED BY <1>1, <1>2, <1>3 DEF RemoveMember

-----------------------------------------------------------------------------
(* The claim of a guest. *)

\* What the last statement of a claim writes.
Claimed(s, m, u) ==
  /\ member' = [member EXCEPT ![m] = [status |-> "CONFIRMED", user |-> u]]
  /\ app' = [a \in Apps |-> IF m \in DOMAIN app[a].users
                            THEN [app[a] EXCEPT !.users[m] = u] ELSE app[a]]
  /\ account' = [x \in Seats |-> IF x \in tx[s].taken THEN u ELSE account[x]]
  /\ stale' = stale \cup (GuestSeats(m) \ tx[s].taken)
  /\ UNCHANGED <<friend, party, room, seat>>

\* A guest's account is new everywhere: nothing else of an application changes,
\* and nobody its members are known by is forgotten.
LEMMA ClaimedApps ==
  ASSUME DataTypes, Accounted, NEW s, NEW m \in Guests, NEW u \in Users,
         member[m].status = "GUEST", Claimed(s, m, u), NEW a \in Apps
  PROVE  /\ app'[a].status = app[a].status /\ app'[a].room = app[a].room
         /\ app'[a].owner = app[a].owner
         /\ DOMAIN app'[a].users = DOMAIN app[a].users
         /\ \A n \in DOMAIN app[a].users :
              app'[a].users[n] = IF n = m THEN u ELSE app[a].users[n]
         /\ app'[a].users \in Snapshots
         /\ Known(app[a].users) \subseteq Known(app'[a].users)
<1>1. PICK f \in Snapshots : app[a].users = f BY DEF DataTypes
<1>2. /\ app[a] \in [status : AppStatus, room : Rooms \cup {Nil}, owner : Owners,
                     users : Snapshots]
      /\ DOMAIN f \in SUBSET Rows /\ f \in [DOMAIN f -> Accounts]
  BY <1>1, SnapshotFacts DEF DataTypes
<1>3. PICK g : g = [f EXCEPT ![m] = u] OBVIOUS
<1>4. CASE m \notin DOMAIN f
  <2>1. app'[a] = app[a] BY <1>1, <1>4 DEF Claimed
  <2>2. QED BY <1>1, <1>2, <1>4, <2>1
<1>5. CASE m \in DOMAIN f
  <2>1. g \in [DOMAIN f -> Accounts] /\ g[m] = u /\ \A n \in DOMAIN f : n # m => g[n] = f[n]
    BY <1>2, <1>3, <1>5 DEF Accounts
  <2>2. app'[a] = [app[a] EXCEPT !.users = g] BY <1>1, <1>3, <1>5 DEF Claimed
  <2>3. /\ app'[a].status = app[a].status /\ app'[a].room = app[a].room
        /\ app'[a].owner = app[a].owner /\ app'[a].users = g
    BY <1>2, <2>2
  <2>4. g \in Snapshots BY <1>2, <2>1 DEF Snapshots
  <2>5. f[m] = Nil BY <1>1, <1>5 DEF Accounted
  <2>6. Known(f) \subseteq Known(g) BY <2>1, <2>5 DEF Known
  <2>7. QED BY <1>1, <1>2, <2>1, <2>3, <2>4, <2>6
<1>6. QED BY <1>4, <1>5

\* The claim reaches the party, its applications and the seats it has found; a
\* seat it has not found is stale.
LEMMA ClaimedData ==
  ASSUME Data, NEW s, NEW m \in Guests, NEW u \in Users, member[m].status = "GUEST",
         \A x \in tx[s].taken : x \in Seats /\ x[2] = m /\ seat[x] # "NONE",
         Claimed(s, m, u)
  PROVE  Data'
<1>0. DataTypes /\ Accounted /\ m \in Rows /\ m \notin Users
  BY TransactionsAssumption DEF Data, Rows
<1>1. \A a \in Apps :
        /\ app'[a].status = app[a].status /\ app'[a].room = app[a].room
        /\ app'[a].owner = app[a].owner
        /\ DOMAIN app'[a].users = DOMAIN app[a].users
        /\ \A n \in DOMAIN app[a].users :
             app'[a].users[n] = IF n = m THEN u ELSE app[a].users[n]
        /\ app'[a].users \in Snapshots
  BY <1>0, ClaimedApps
<1>2. /\ member' = [member EXCEPT ![m] = [status |-> "CONFIRMED", user |-> u]]
      /\ member'[m].status = "CONFIRMED" /\ member'[m].user = u
      /\ \A n \in Rows : n # m => member'[n] = member[n]
      /\ UNCHANGED <<friend, party, room, seat>>
  BY <1>0 DEF Claimed, DataTypes
<1>3. /\ account' = [x \in Seats |-> IF x \in tx[s].taken THEN u ELSE account[x]]
      /\ stale' = stale \cup (GuestSeats(m) \ tx[s].taken)
  BY DEF Claimed
<1>4. DataTypes'
  <2>1. member' \in [Rows -> [status : MemberStatus, user : Accounts]]
    BY <1>0, <1>2 DEF DataTypes, MemberStatus, Present, Accounts
  <2>2. app' \in [Apps -> [status : AppStatus, room : Rooms \cup {Nil}, owner : Owners,
                           users : Snapshots]]
    <3>1. \A a \in Apps : app'[a] = [status |-> app'[a].status, room |-> app'[a].room,
                                     owner |-> app'[a].owner, users |-> app'[a].users]
      BY <1>0 DEF Claimed, DataTypes
    <3>2. app' = [a \in Apps |-> app'[a]] BY DEF Claimed
    <3>3. QED BY <1>0, <1>1, <3>1, <3>2 DEF DataTypes
  <2>3. account' \in [Seats -> Accounts] BY <1>0, <1>3 DEF DataTypes, Accounts
  <2>4. stale' \subseteq Seats BY <1>0, <1>3 DEF DataTypes, GuestSeats
  <2>5. QED BY <1>0, <1>2, <2>1, <2>2, <2>3, <2>4 DEF DataTypes
<1>5. Accounted'
  <2>1. \A n \in Users : member'[n].status \in Present => member'[n].user = n
    BY <1>0, <1>2 DEF Accounted, Rows
  <2>2. \A n \in Guests : member'[n].status \in {"NONE", "GUEST"} =>
          /\ member'[n].user = Nil
          /\ \A a \in Apps : n \in DOMAIN app'[a].users => app'[a].users[n] = Nil
    BY <1>0, <1>1, <1>2 DEF Accounted, Rows
  <2>3. \A a \in Apps : \A n \in Users \cap DOMAIN app'[a].users : app'[a].users[n] = n
    BY <1>0, <1>1 DEF Accounted
  <2>4. \A x \in Seats : seat'[x] # "NONE" /\ x[2] \in Users => account'[x] = x[2]
    BY <1>0, <1>2, <1>3 DEF Accounted
  <2>5. QED BY <2>1, <2>2, <2>3, <2>4 DEF Accounted
<1>6. Seated' BY <1>1, <1>2 DEF Data, Seated, Seats
<1>7. InParty' = InParty BY <1>0, <1>2 DEF InParty, Present
<1>8. CanPartyBeReady(member)' <=> CanPartyBeReady(member)
  BY <1>0, <1>2 DEF CanPartyBeReady
<1>9. PartyFollows' BY <1>2, <1>8 DEF Data, PartyFollows, StatusOfParty
<1>10. FrozenComposition'
  <2> SUFFICES ASSUME NEW a \in Apps, app'[a].owner = Party, app'[a].status \in ActiveApp
               PROVE  app'[a].users = Snapshot(Party)' /\ CanPartyBeReady(member)'
    BY DEF FrozenComposition
  <2>1. app[a].users = Snapshot(Party) /\ CanPartyBeReady(member)
    BY <1>1 DEF Data, FrozenComposition
  <2>2. Snapshot(Party) = [n \in InParty |-> member[n].user]
        /\ Snapshot(Party)' = [n \in InParty |-> member'[n].user]
    BY <1>7 DEF Snapshot
  <2>3. \A n \in InParty : app'[a].users[n] = member'[n].user
    BY <1>1, <1>2, <2>1, <2>2 DEF InParty
  <2>4. DOMAIN app'[a].users = InParty BY <1>1, <2>1, <2>2
  <2>5. app'[a].users = [n \in DOMAIN app'[a].users |-> app'[a].users[n]]
    BY <1>1, SnapshotFacts
  <2>6. QED BY <1>8, <2>1, <2>2, <2>3, <2>4, <2>5
<1>11. SeatsFollowAnswers'
  <2> SUFFICES ASSUME NEW x \in Seats, seat'[x] # "NONE"
               PROVE  /\ x \notin stale' => account'[x] = app'[x[1]].users[x[2]]
                      /\ x[1] \notin Tangled' => app'[x[1]].status = "ACCEPTED"
    BY DEF SeatsFollowAnswers
  <2>1. x[1] \in Apps /\ x[2] \in DOMAIN app[x[1]].users BY <1>2 DEF Data, Seated, Seats
  <2>2. Tangled \subseteq Tangled' BY <1>3 DEF Tangled
  <2>3. x \notin stale => account[x] = app[x[1]].users[x[2]]
    BY <1>2 DEF Data, SeatsFollowAnswers
  <2>4. x[2] = m => app[x[1]].users[x[2]] = Nil BY <1>0, <2>1 DEF Accounted
  <2>5. x \notin stale' => account'[x] = app'[x[1]].users[x[2]]
    BY <1>1, <1>2, <1>3, <2>1, <2>3, <2>4 DEF GuestSeats
  <2>6. QED BY <1>1, <1>2, <2>1, <2>2, <2>5 DEF Data, SeatsFollowAnswers
<1>12. OneRoomEach' /\ SlotsAreNotOversold'
  <2>1. \A r : Active(r)' = Active(r) BY <1>1, <1>2 DEF Active, Seats
  <2>2. \A v, r : Elsewhere(v, r)' <=> Elsewhere(v, r) BY <1>1, <1>2 DEF Elsewhere, Seats
  <2>3. SlotsAreNotOversold' BY <2>1 DEF Data, SlotsAreNotOversold, AvailablePublicSlots
  <2>4. OneRoomEach' BY <1>1, <1>2, <2>2 DEF Data, OneRoomEach, Seats
  <2>5. QED BY <2>3, <2>4
<1>13. QED BY <1>4, <1>5, <1>6, <1>9, <1>10, <1>11, <1>12 DEF Data

\* Nobody else claims that guest, and no other command relies on its account.
LEMMA ClaimedUnder ==
  ASSUME IInv, NEW s \in Sessions, NEW m \in Guests, NEW u \in Users,
         member[m].status = "GUEST", MemberLock(m) \in held[s], Claimed(s, m, u),
         NEW t \in Sessions, t # s, tx'[t] = tx[t], held'[t] = held[t]
  PROVE  Under(t)'
<1>0. /\ DataTypes /\ Accounted /\ Seated /\ m \in Rows /\ Under(t) /\ Exclusion
      /\ Locks(t)' = Locks(t)
  BY DEF IInv, Data, Rows, Locks
<1>1. \A a \in Apps :
        /\ app'[a].status = app[a].status /\ app'[a].room = app[a].room
        /\ app'[a].owner = app[a].owner
        /\ DOMAIN app'[a].users = DOMAIN app[a].users
        /\ Known(app[a].users) \subseteq Known(app'[a].users)
  BY <1>0, ClaimedApps
<1>2. /\ member'[m].status = "CONFIRMED" /\ \A n \in Rows : n # m => member'[n] = member[n]
      /\ UNCHANGED <<friend, party, room, seat>> /\ stale \subseteq stale'
  BY <1>0 DEF Claimed, DataTypes
<1>3. Editing(t)' /\ Filing(t)'
  BY <1>0, <1>1, <1>2 DEF Under, Editing, Filing, PartyHasActiveApplication
<1>4. Claiming(t)'
  <2> SUFFICES ASSUME tx[t].op = "claim" PROVE Claiming(t)'
    BY DEF Claiming
  <2>1. /\ tx[t].arg \in Guests \X Users /\ tx[t].arg[1] \in Rows
        /\ MemberLock(tx[t].arg[1]) \in held[t]
    BY <1>0 DEF Under, Claiming, Rows
  <2>2. MemberLock(tx[t].arg[1]) \notin held[s] BY <1>0, <2>1, Others
  <2>3. tx[t].arg[1] # m BY <2>2
  <2>4. QED BY <1>0, <1>2, <2>1, <2>3 DEF Under, Claiming
<1>5. Answering(t)' /\ Removing(t)' BY <1>0, <1>1, <1>2 DEF Under, Answering, Removing
<1>6. Closing(t)'
  <2>1. \A r : PendingOf(r)' = PendingOf(r) BY <1>1 DEF PendingOf
  <2>2. QED BY <1>0, <2>1 DEF Under, Closing
<1>7. Accepting(t)'
  <2> SUFFICES ASSUME tx[t].op = "accept" PROVE Accepting(t)'
    BY DEF Accepting
  <2>1. \A v, r : Elsewhere(v, r)' <=> Elsewhere(v, r) BY <1>1, <1>2 DEF Elsewhere, Seats
  <2>2. \A r : AvailablePublicSlots(r)' = AvailablePublicSlots(r)
    <3>1. \A r : Active(r)' = Active(r) BY <1>1, <1>2 DEF Active, Seats
    <3>2. QED BY <3>1 DEF AvailablePublicSlots
  <2>3. Tangled \subseteq Tangled' BY <1>2 DEF Tangled
  <2>4. tx[t].arg \in Apps BY <1>0 DEF Under, Answering
  <2>5. \A b \in Apps : Known(tx[t].seen) \cap Known(app[b].users) # {} =>
                          Known(tx[t].seen) \cap Known(app'[b].users) # {}
    BY <1>1
  <2>6. Known(tx[t].seen)' = Known(tx[t].seen) /\ Checked(t)' = Checked(t)
        /\ Known(tx'[t].seen) = Known(tx[t].seen)
    BY DEF Checked, Known
  <2>7. QED
    BY <1>0, <1>1, <1>2, <2>1, <2>2, <2>3, <2>4, <2>5, <2>6 DEF Under, Accepting
<1>8. QED BY <1>3, <1>4, <1>5, <1>6, <1>7 DEF Under

\* A claim changes accounts in rows, snapshots and seats alike.
LEMMA ClaimGuestKept ==
  ASSUME IInv, NEW s \in Sessions, ClaimGuest(s)
  PROVE  Kept(s)
<1>1. ASSUME NEW m \in Guests, NEW u \in Users, GuestClaimable(m),
             Start(s, "claim", <<m, u>>, MemberLock(m), "party", {PartyLock})
      PROVE  Kept(s)
  <2>1. /\ Moves(s) /\ UNCHANGED data /\ tx'[s].op = "claim" /\ tx'[s].arg = <<m, u>>
        /\ tx'[s].step = "party" /\ held'[s] = {MemberLock(m)}
    BY <1>1, StartEffect DEF IInv
  <2>2. Claiming(s)' BY <1>1, <2>1 DEF Claiming, GuestClaimable, data
  <2>3. QED BY <2>1, <2>2, QuietKept, UnderOfKind
<1>2. ASSUME At(s, "claim", "party"), GoTo(s, "members", MemberLocks)
      PROVE  Kept(s)
  <2>1. tx[s].op = "claim" /\ Claiming(s) /\ \A l \in tx[s].want : Free(l)
    BY <1>2 DEF At, IInv, Under
  <2>2. /\ Moves(s) /\ UNCHANGED data /\ tx'[s].op = tx[s].op /\ tx'[s].arg = tx[s].arg
        /\ tx'[s].step = "members" /\ held'[s] = Locks(s)
    BY <1>2, <2>1, GoToEffect DEF IInv
  <2>3. Claiming(s)' BY <2>1, <2>2 DEF Claiming, data, Locks
  <2>4. QED BY <2>1, <2>2, <2>3, QuietKept, UnderOfKind
<1> DEFINE m == tx[s].arg[1]
           u == tx[s].arg[2]
<1>3. tx[s].op = "claim" =>
        /\ tx[s].arg \in Guests \X Users /\ m \in Guests /\ u \in Users
        /\ MemberLock(m) \in held[s] /\ member[m].status = "GUEST"
  BY DEF IInv, Under, Claiming
<1>4. ASSUME At(s, "claim", "members"),
             Continue(s, [tx[s] EXCEPT !.step = "seats", !.taken = GuestSeats(m),
                                       !.want = {SeatLock(x) : x \in GuestSeats(m)}])
      PROVE  Kept(s)
  <2>0. PICK t : t = tx[s] OBVIOUS
  <2>1. PICK next : next = [t EXCEPT !.step = "seats", !.taken = GuestSeats(m),
                                     !.want = {SeatLock(x) : x \in GuestSeats(m)}]
    OBVIOUS
  <2>2. IsRow(t) /\ t.seen \in Snapshots /\ t.left \subseteq Users
    BY <2>0 DEF IInv, SessionTypes
  <2>3. /\ IsRow(next) /\ next.op = t.op /\ next.arg = t.arg /\ next.step = "seats"
        /\ next.seen = t.seen /\ next.left = t.left /\ next.taken = GuestSeats(m)
    BY <2>1, <2>2 DEF IsRow
  <2>4. Continue(s, next) BY <1>4, <2>0, <2>1
  <2>5. tx[s].op = "claim" /\ \A l \in tx[s].want : Free(l) BY <1>4 DEF At
  <2>6. /\ Moves(s) /\ UNCHANGED data /\ tx'[s].op = next.op /\ tx'[s].arg = next.arg
        /\ tx'[s].step = next.step /\ tx'[s].taken = next.taken /\ held'[s] = Locks(s)
    BY <2>0, <2>2, <2>3, <2>4, <2>5, ContinueEffect DEF IInv
  <2>7. Claiming(s)'
    BY <1>3, <2>0, <2>3, <2>5, <2>6 DEF Claiming, data, Locks, GuestSeats
  <2>8. QED BY <2>0, <2>3, <2>5, <2>6, <2>7, QuietKept, UnderOfKind
<1>5. ASSUME At(s, "claim", "seats"), Claimed(s, m, u), Release(s)
      PROVE  Kept(s)
  <2>1. /\ m \in Guests /\ u \in Users /\ MemberLock(m) \in held[s]
        /\ member[m].status = "GUEST"
        /\ \A x \in tx[s].taken : x \in Seats /\ x[2] = m /\ seat[x] # "NONE"
    BY <1>3, <1>5 DEF At, IInv, Under, Claiming
  <2>2. Data' BY <1>5, <2>1, ClaimedData DEF IInv
  <2>3. \A t \in Sessions : t # s /\ tx'[t] = tx[t] /\ held'[t] = held[t] => Under(t)'
    BY <1>5, <2>1, ClaimedUnder
  <2>4. QED BY <1>5, <2>2, <2>3, CommitKept
<1>6. QED BY <1>1, <1>2, <1>4, <1>5, AbortKept DEF ClaimGuest, Claimed

-----------------------------------------------------------------------------
(* Filing an application. *)

\* The snapshot taken of the party, or of a player on his own.
LEMMA SnapshotIsAccounted ==
  ASSUME Data, NEW owner \in Singles \cup {Party}
  PROVE  LET f == Snapshot(owner) IN
         /\ f \in Snapshots
         /\ \A m \in Users \cap DOMAIN f : f[m] = m
         /\ \A m \in Guests \cap DOMAIN f : member[m].status \in {"NONE", "GUEST"} => f[m] = Nil
<1>1. CASE owner = Party
  <2>1. PICK f : f = [m \in InParty |-> member[m].user] OBVIOUS
  <2>2. f = Snapshot(owner) BY <1>1, <2>1 DEF Snapshot
  <2>3. InParty \in SUBSET Rows /\ f \in [InParty -> Accounts]
    BY <2>1 DEF InParty, Data, DataTypes
  <2>4. f \in Snapshots BY <2>3 DEF Snapshots
  <2>5. \A m \in Users \cap InParty : f[m] = m BY <2>1 DEF InParty, Data, Accounted
  <2>6. \A m \in Guests \cap InParty : member[m].status \in {"NONE", "GUEST"} => f[m] = Nil
    BY <2>1 DEF Data, Accounted
  <2>7. DOMAIN f = InParty BY <2>1
  <2>8. QED BY <2>2, <2>4, <2>5, <2>6, <2>7
<1>2. CASE owner # Party
  <2>1. PICK f : f = [m \in {owner} |-> owner] OBVIOUS
  <2>2. f = Snapshot(owner) BY <1>2, <2>1 DEF Snapshot
  <2>3. owner \in Users /\ owner \notin Guests BY <1>2, TransactionsAssumption
  <2>4. {owner} \in SUBSET Rows /\ f \in [{owner} -> Accounts]
    BY <2>1, <2>3 DEF Rows, Accounts
  <2>5. f \in Snapshots BY <2>4 DEF Snapshots
  <2>6. QED BY <2>1, <2>2, <2>3, <2>5
<1>3. QED BY <1>1, <1>2

\* What is filed, as a row of its own.
LEMMA InsertedApp ==
  ASSUME DataTypes, NEW a \in Apps, NEW r, NEW owner, InsertApplication(a, r, owner)
  PROVE  /\ app[a].status = "NONE" /\ UNCHANGED <<friend, party, member, room, seat, account, stale>>
         /\ app'[a].status \in Pending /\ app'[a].room = r /\ app'[a].owner = owner
         /\ app'[a].users = Snapshot(owner)
         /\ app'[a] = [status |-> app'[a].status, room |-> r, owner |-> owner,
                       users |-> Snapshot(owner)]
         /\ app' = [app EXCEPT ![a] = app'[a]]
         /\ \A b \in Apps : b # a => app'[b] = app[b]
<1>1. PICK row : /\ app' = [app EXCEPT ![a] = row] /\ row.status \in Pending
                 /\ row.room = r /\ row.owner = owner /\ row.users = Snapshot(owner)
                 /\ row = [status |-> row.status, room |-> r, owner |-> owner,
                           users |-> Snapshot(owner)]
  <2>1. PICK f : f = Snapshot(owner) OBVIOUS
  <2>2. CASE Cardinality(DOMAIN Snapshot(owner)) <= AvailablePublicSlots(r)
    <3>1. app' = [app EXCEPT ![a] = [status |-> "REQUESTED", room |-> r, owner |-> owner,
                                     users |-> f]]
      BY <2>1, <2>2 DEF InsertApplication
    <3>2. PICK row : row = [status |-> "REQUESTED", room |-> r, owner |-> owner, users |-> f]
      OBVIOUS
    <3>3. /\ app' = [app EXCEPT ![a] = row] /\ row.status \in Pending
          /\ row.room = r /\ row.owner = owner /\ row.users = Snapshot(owner)
          /\ row = [status |-> row.status, room |-> r, owner |-> owner,
                    users |-> Snapshot(owner)]
      BY <2>1, <3>1, <3>2 DEF Pending
    <3>4. QED BY <3>3
  <2>3. CASE ~(Cardinality(DOMAIN Snapshot(owner)) <= AvailablePublicSlots(r))
    <3>1. app' = [app EXCEPT ![a] = [status |-> "WAITLISTED", room |-> r, owner |-> owner,
                                     users |-> f]]
      BY <2>1, <2>3 DEF InsertApplication
    <3>2. PICK row : row = [status |-> "WAITLISTED", room |-> r, owner |-> owner, users |-> f]
      OBVIOUS
    <3>3. /\ app' = [app EXCEPT ![a] = row] /\ row.status \in Pending
          /\ row.room = r /\ row.owner = owner /\ row.users = Snapshot(owner)
          /\ row = [status |-> row.status, room |-> r, owner |-> owner,
                    users |-> Snapshot(owner)]
      BY <2>1, <3>1, <3>2 DEF Pending
    <3>4. QED BY <3>3
  <2>4. QED BY <2>2, <2>3
<1>2. app'[a] = row /\ \A b \in Apps : b # a => app'[b] = app[b] BY <1>1 DEF DataTypes
<1>3. QED BY <1>1, <1>2 DEF InsertApplication

\* Nobody has a seat of an application that was not there, and a party that is
\* READY is filed as it is.
LEMMA InsertedData ==
  ASSUME Data, NEW a \in Apps, NEW r \in Rooms, NEW owner \in Singles \cup {Party},
         owner = Party => party = "READY", InsertApplication(a, r, owner)
  PROVE  Data'
<1>0. DataTypes BY DEF Data
<1>1. /\ app[a].status = "NONE" /\ UNCHANGED <<friend, party, member, room, seat, account, stale>>
      /\ app'[a].status \in Pending /\ app'[a].room = r /\ app'[a].owner = owner
      /\ app'[a].users = Snapshot(owner)
      /\ app'[a] = [status |-> app'[a].status, room |-> r, owner |-> owner,
                    users |-> Snapshot(owner)]
      /\ app' = [app EXCEPT ![a] = app'[a]]
      /\ \A b \in Apps : b # a => app'[b] = app[b]
  BY <1>0, InsertedApp
<1>2. /\ app'[a].users \in Snapshots
      /\ \A m \in Users \cap DOMAIN app'[a].users : app'[a].users[m] = m
      /\ \A m \in Guests \cap DOMAIN app'[a].users :
           member[m].status \in {"NONE", "GUEST"} => app'[a].users[m] = Nil
  BY <1>1, SnapshotIsAccounted
<1>3. \A x \in Seats : seat[x] # "NONE" => x[1] \in Apps /\ app'[x[1]] = app[x[1]]
  BY <1>1 DEF Data, Seated, Seats
<1>4. DataTypes'
  <2>1. app'[a].status \in AppStatus /\ owner \in Owners
    BY <1>1, TransactionsAssumption DEF AppStatus, ActiveApp, Owners, Accounts
  <2>2. app'[a] \in [status : AppStatus, room : Rooms \cup {Nil}, owner : Owners,
                     users : Snapshots]
    BY <1>1, <1>2, <2>1
  <2>3. app' \in [Apps -> [status : AppStatus, room : Rooms \cup {Nil}, owner : Owners,
                           users : Snapshots]]
    BY <1>0, <1>1, <2>2 DEF DataTypes
  <2>4. QED BY <1>0, <1>1, <2>3 DEF DataTypes
<1>5. Accounted'
  <2>1. \A b \in Apps : \A m \in Users \cap DOMAIN app'[b].users : app'[b].users[m] = m
    BY <1>1, <1>2 DEF Data, Accounted
  <2>2. \A m \in Guests : member[m].status \in {"NONE", "GUEST"} =>
          \A b \in Apps : m \in DOMAIN app'[b].users => app'[b].users[m] = Nil
    BY <1>1, <1>2 DEF Data, Accounted
  <2>3. QED BY <1>1, <2>1, <2>2 DEF Data, Accounted
<1>6. Seated'
  <2>1. \A b \in Apps : app'[b].status # "NONE" => app'[b].room \in Rooms
    BY <1>1 DEF Data, Seated
  <2>2. QED BY <1>1, <1>3, <2>1 DEF Data, Seated
<1>7. PartyFollows' BY <1>1 DEF Data, PartyFollows, StatusOfParty, CanPartyBeReady
<1>8. FrozenComposition'
  <2> SUFFICES ASSUME NEW b \in Apps, app'[b].owner = Party, app'[b].status \in ActiveApp
               PROVE  app'[b].users = Snapshot(Party)' /\ CanPartyBeReady(member)'
    BY DEF FrozenComposition
  <2>1. Snapshot(Party)' = Snapshot(Party) /\ CanPartyBeReady(member)' = CanPartyBeReady(member)
    BY <1>1 DEF Snapshot, InParty, CanPartyBeReady
  <2>2. CASE b = a
    <3>1. owner = Party /\ party = "READY" BY <1>1, <2>2
    <3>2. CanPartyBeReady(member) BY <3>1 DEF Data, PartyFollows, StatusOfParty
    <3>3. QED BY <1>1, <2>1, <2>2, <3>1, <3>2
  <2>3. CASE b # a BY <1>1, <2>1, <2>3 DEF Data, FrozenComposition
  <2>4. QED BY <2>2, <2>3
<1>9. SeatsFollowAnswers'
  BY <1>1, <1>3 DEF Data, SeatsFollowAnswers, Tangled
<1>10. OneRoomEach' /\ SlotsAreNotOversold'
  <2>1. \A q : Active(q)' = Active(q) BY <1>1, <1>3 DEF Active
  <2>2. \A v, q : Elsewhere(v, q)' <=> Elsewhere(v, q) BY <1>1, <1>3 DEF Elsewhere
  <2>3. SlotsAreNotOversold' BY <2>1 DEF Data, SlotsAreNotOversold, AvailablePublicSlots
  <2>4. OneRoomEach' BY <1>1, <1>3, <2>2 DEF Data, OneRoomEach
  <2>5. QED BY <2>3, <2>4
<1>11. QED BY <1>4, <1>5, <1>6, <1>7, <1>8, <1>9, <1>10 DEF Data

\* Whoever closes the room, or edits the party, of a new application would hold
\* the lock it was filed under; an application that others answer or take back
\* was there before.
LEMMA InsertedUnder ==
  ASSUME IInv, NEW a \in Apps, NEW r \in Rooms, NEW owner \in Singles \cup {Party},
         InsertApplication(a, r, owner),
         NEW t \in Sessions, tx'[t] = tx[t], held'[t] = held[t],
         RoomLock(r) \notin held[t], owner = Party => PartyLock \notin held[t]
  PROVE  Under(t)'
<1>0. DataTypes /\ Seated /\ Under(t) /\ Locks(t)' = Locks(t) BY DEF IInv, Data, Locks
<1>1. /\ app[a].status = "NONE" /\ UNCHANGED <<friend, party, member, room, seat, account, stale>>
      /\ app'[a].status \in Pending /\ app'[a].room = r /\ app'[a].owner = owner
      /\ app'[a].users = Snapshot(owner)
      /\ app'[a] = [status |-> app'[a].status, room |-> r, owner |-> owner,
                    users |-> Snapshot(owner)]
      /\ app' = [app EXCEPT ![a] = app'[a]]
      /\ \A b \in Apps : b # a => app'[b] = app[b]
  BY <1>0, InsertedApp
<1>2. \A x \in Seats : seat[x] # "NONE" => x[1] \in Apps /\ app'[x[1]] = app[x[1]]
  BY <1>0, <1>1 DEF Seated, Seats
<1>3. Editing(t)'
  <2>1. CASE tx[t].op \in {"add", "respond", "drop"}
    <3>1. owner # Party BY <1>0, <2>1 DEF Under, Editing
    <3>2. ~PartyHasActiveApplication' BY <1>0, <1>1, <2>1, <3>1
      DEF Under, Editing, PartyHasActiveApplication
    <3>3. QED BY <1>0, <1>1, <2>1, <3>2 DEF Under, Editing
  <2>2. QED BY <1>0, <2>1 DEF Editing
<1>4. Claiming(t)' /\ Filing(t)' /\ Removing(t)'
  BY <1>0, <1>1 DEF Under, Claiming, Filing, Removing
<1>5. Answering(t)'
  BY <1>0, <1>1 DEF Under, Answering, Pending
<1>6. Closing(t)'
  <2> SUFFICES ASSUME tx[t].op = "cancel" PROVE Closing(t)'
    BY DEF Closing
  <2>1. tx[t].arg # r BY <1>0 DEF Under, Closing
  <2>2. PendingOf(tx[t].arg)' = PendingOf(tx[t].arg)
    BY <1>1, <2>1 DEF PendingOf, Pending
  <2>3. QED BY <1>0, <2>2 DEF Under, Closing
<1>7. Accepting(t)'
  <2> SUFFICES ASSUME tx[t].op = "accept" PROVE Accepting(t)'
    BY DEF Accepting
  <2>1. \A v, q : Elsewhere(v, q)' <=> Elsewhere(v, q) BY <1>1, <1>2 DEF Elsewhere
  <2>2. \A q : AvailablePublicSlots(q)' = AvailablePublicSlots(q)
    <3>1. \A q : Active(q)' = Active(q) BY <1>1, <1>2 DEF Active
    <3>2. QED BY <3>1 DEF AvailablePublicSlots
  <2>3. Tangled' = Tangled BY <1>1 DEF Tangled
  <2>4. tx[t].arg \in Apps /\ app'[tx[t].arg] = app[tx[t].arg]
    BY <1>0, <1>1 DEF Under, Answering, Pending
  <2>5. \A b \in Apps : app[b].status # "NONE" => app'[b] = app[b] BY <1>1
  <2>6. Checked(t)' = Checked(t) /\ Known(tx'[t].seen) = Known(tx[t].seen)
    BY DEF Checked, Known
  <2>7. QED
    BY <1>0, <1>1, <2>1, <2>2, <2>3, <2>4, <2>5, <2>6 DEF Under, Accepting
<1>8. QED BY <1>3, <1>4, <1>5, <1>6, <1>7 DEF Under

\* An application of the party takes the members the locked party has.
LEMMA ApplyWithPartyKept ==
  ASSUME IInv, NEW s \in Sessions, ApplyWithParty(s)
  PROVE  Kept(s)
<1>1. ASSUME NEW a \in Apps, NEW r \in Rooms,
             Start(s, "apply", <<a, r>>, RoomLock(r), "party", {PartyLock})
      PROVE  Kept(s)
  <2>1. /\ Moves(s) /\ UNCHANGED data /\ tx'[s].op = "apply" /\ tx'[s].arg = <<a, r>>
        /\ tx'[s].step = "party" /\ held'[s] = {RoomLock(r)} /\ tx'[s].want = {PartyLock}
    BY <1>1, StartEffect DEF IInv
  <2>2. Filing(s)' BY <2>1 DEF Filing, Locks
  <2>3. QED BY <2>1, <2>2, QuietKept, UnderOfKind
<1>2. ASSUME At(s, "apply", "party"), party = "READY", GoTo(s, "members", MemberLocks)
      PROVE  Kept(s)
  <2>1. /\ tx[s].op = "apply" /\ Filing(s) /\ \A l \in tx[s].want : Free(l)
        /\ tx[s].step = "party"
    BY <1>2 DEF At, IInv, Under
  <2>2. /\ Moves(s) /\ UNCHANGED data /\ tx'[s].op = tx[s].op /\ tx'[s].arg = tx[s].arg
        /\ tx'[s].step = "members" /\ held'[s] = Locks(s)
    BY <1>2, <2>1, GoToEffect DEF IInv
  <2>3. PartyLock \in Locks(s) BY <2>1 DEF Filing
  <2>4. Filing(s)' BY <1>2, <2>1, <2>2, <2>3 DEF Filing, data, Locks
  <2>5. QED BY <2>1, <2>2, <2>4, QuietKept, UnderOfKind
<1> DEFINE a == tx[s].arg[1]
           r == tx[s].arg[2]
<1>3. ASSUME At(s, "apply", "members"), InsertApplication(a, r, Party), Release(s)
      PROVE  Kept(s)
  <2>1. /\ a \in Apps /\ r \in Rooms /\ RoomLock(r) \in held[s] /\ PartyLock \in held[s]
        /\ party = "READY"
    BY <1>3 DEF At, IInv, Under, Filing
  <2>2. Data' BY <1>3, <2>1, InsertedData DEF IInv
  <2>3. ASSUME NEW t \in Sessions, t # s, tx'[t] = tx[t], held'[t] = held[t]
        PROVE  Under(t)'
    <3>1. RoomLock(r) \notin held[t] /\ PartyLock \notin held[t]
      BY <2>1, <2>3 DEF IInv, Exclusion
    <3>2. QED BY <1>3, <2>1, <2>3, <3>1, InsertedUnder
  <2>4. QED BY <1>3, <2>2, <2>3, CommitKept
<1>4. QED BY <1>1, <1>2, <1>3, AbortKept DEF ApplyWithParty

-----------------------------------------------------------------------------
(* Answers, removals and cancellations. *)

\* The seats of a room are finitely many.
LEMMA SlotsFacts ==
  ASSUME NEW r
  PROVE  /\ IsFiniteSet(Active(r)) /\ Cardinality(Active(r)) \in Nat
         /\ AvailablePublicSlots(r) \in Int
<1>1. IsFiniteSet(Seats)
  BY FS_Product, TransactionsAssumption DEF Seats
<1>2. Active(r) \subseteq Seats BY DEF Active
<1>3. IsFiniteSet(Active(r)) BY <1>1, <1>2, FS_Subset
<1>4. Cardinality(Active(r)) \in Nat BY <1>3, FS_CardinalityType
<1>5. QED BY <1>3, <1>4, TransactionsAssumption DEF AvailablePublicSlots

\* A room that loses seats gains slots.
LEMMA SlotsGrow ==
  ASSUME NEW r, Active(r)' \subseteq Active(r)
  PROVE  AvailablePublicSlots(r)' >= AvailablePublicSlots(r)
<1>1. IsFiniteSet(Active(r)) /\ Cardinality(Active(r)) \in Nat BY SlotsFacts
<1>2. IsFiniteSet(Active(r)') /\ Cardinality(Active(r)') <= Cardinality(Active(r))
  BY <1>1, FS_Subset
<1>3. Cardinality(Active(r)') \in Nat BY <1>2, FS_CardinalityType
<1>4. QED BY <1>1, <1>2, <1>3, TransactionsAssumption DEF AvailablePublicSlots

\* What an answer, a removal or a cancellation does beside the command of t:
\* applications whose lock t has not got are closed, seats are not forgotten, and
\* the rooms and schedules t has locked fill up no further.
Beside(t) ==
  /\ UNCHANGED <<party, member>>
  /\ \A b \in Apps :
       /\ app'[b].room = app[b].room /\ app'[b].owner = app[b].owner
       /\ app'[b].users = app[b].users
       /\ app'[b].status # app[b].status =>
            /\ AppLock(b) \notin held[t] /\ app[b].status # "NONE"
            /\ app'[b].status \notin {"NONE"} \cup Pending
            /\ app'[b].status = "ACCEPTED" =>
                 /\ app[b].status \in Pending
                 /\ tx[t].op = "accept" /\ b \in tx[t].taken => b \in Tangled'
  /\ \A x \in Seats : seat[x] # "NONE" => seat'[x] # "NONE"
  /\ Tangled \subseteq Tangled'
  /\ \A r \in Rooms : RoomLock(r) \in held[t] => room'[r] = room[r] /\ Active(r)' \subseteq Active(r)
  /\ \A u \in Users : \A r :
       ScheduleLock(u) \in held[t] /\ Elsewhere(u, r)' => Elsewhere(u, r)

\* A commit beside a session leaves what that session relies on.
LEMMA BesideUnder ==
  ASSUME Data, SessionTypes, NEW t \in Sessions, Under(t), tx'[t] = tx[t], held'[t] = held[t], Beside(t)
  PROVE  Under(t)'
<1>0. Locks(t)' = Locks(t) BY DEF Locks
<1>1. PartyHasActiveApplication' => PartyHasActiveApplication
  BY DEF Beside, PartyHasActiveApplication, ActiveApp
<1>2. Editing(t)' /\ Filing(t)'
  BY <1>0, <1>1 DEF Under, Editing, Filing, Beside
<1>3. Claiming(t)' /\ Removing(t)'
  BY DEF Under, Claiming, Removing, Beside
<1>4. Answering(t)'
  BY DEF Under, Answering, Beside
<1>5. Closing(t)'
  <2>1. \A r : PendingOf(r)' \subseteq PendingOf(r) BY DEF PendingOf, Beside
  <2>2. QED BY <1>0, <2>1 DEF Under, Closing, Beside
<1>6. Accepting(t)'
  <2> SUFFICES ASSUME tx[t].op = "accept" PROVE Accepting(t)'
    BY DEF Accepting
  <2>1. PICK a : a = tx[t].arg OBVIOUS
  <2>2. PICK r : r = app[a].room OBVIOUS
  <2>3. a \in Apps /\ app'[a].room = r BY <2>1, <2>2 DEF Under, Answering, Beside
  <2>4. Checked(t)' = Checked(t) /\ Known(tx'[t].seen) = Known(tx[t].seen)
    BY DEF Checked, Known
  <2>5. CASE tx[t].step \notin {"schedules", "overlaps"}
    BY <1>0, <2>1, <2>2, <2>3, <2>5 DEF Under, Accepting
  <2>6. CASE tx[t].step \in {"schedules", "overlaps"}
    <3>1. /\ RoomLock(r) \in held[t] /\ room[r] = "OPEN"
          /\ DOMAIN tx[t].seen = DOMAIN app[a].users
          /\ \A m \in Users \cap DOMAIN tx[t].seen : tx[t].seen[m] = m
          /\ \A u \in Checked(t) : ScheduleLock(u) \in held[t] /\ ~Elsewhere(u, r)
          /\ tx[t].step = "schedules" /\ tx[t].left # {} =>
               ScheduleLock(Least(tx[t].left)) \in Locks(t)
          /\ tx[t].left \subseteq Known(tx[t].seen)
          /\ tx[t].step = "overlaps" =>
               AvailablePublicSlots(r) >= Cardinality(DOMAIN tx[t].seen)
          /\ tx[t].step # "overlaps" => tx[t].taken = {}
          /\ \A b \in tx[t].taken :
               /\ b \in Apps /\ AppLock(b) \in Locks(t) /\ app[b].status # "NONE"
               /\ app[b].status = "ACCEPTED" => b \in Tangled
               /\ Known(tx[t].seen) \cap Known(app[b].users) # {}
      BY <2>1, <2>2, <2>6 DEF Under, Accepting
    <3>2. room'[r] = "OPEN" /\ Active(r)' \subseteq Active(r)
      <4>1. app[a].status \in Pending BY <2>1 DEF Under, Answering
      <4>2. r \in Rooms BY <2>2, <2>3, <4>1 DEF Data, Seated, Pending
      <4>3. QED BY <3>1, <4>2 DEF Beside
    <3>3. tx[t].step = "overlaps" =>
            AvailablePublicSlots(r)' >= Cardinality(DOMAIN tx[t].seen)
      <4>1. Active(r)' \subseteq Active(r) /\ AvailablePublicSlots(r)' \in Int
            /\ AvailablePublicSlots(r) \in Int
            /\ AvailablePublicSlots(r)' >= AvailablePublicSlots(r)
        <5>1. AvailablePublicSlots(r) \in Int BY SlotsFacts
        <5>2. AvailablePublicSlots(r)' \in Int
          <6>1. IsFiniteSet(Active(r)') BY <3>2, SlotsFacts, FS_Subset
          <6>2. Cardinality(Active(r)') \in Nat BY <6>1, FS_CardinalityType
          <6>3. QED BY <6>2, TransactionsAssumption DEF AvailablePublicSlots
        <5>3. QED BY <3>2, <5>1, <5>2, SlotsGrow
      <4>2. Cardinality(DOMAIN tx[t].seen) \in Nat
        <5>1. app[a].users \in Snapshots BY <2>3 DEF Data, DataTypes
        <5>2. DOMAIN tx[t].seen \subseteq Rows BY <3>1, <5>1, SnapshotFacts
        <5>3. IsFiniteSet(DOMAIN tx[t].seen) BY <5>2, FS_Subset, TransactionsAssumption
        <5>4. QED BY <5>3, FS_CardinalityType
      <4>3. QED BY <3>1, <4>1, <4>2
    <3>4. \A u \in Checked(t) : ScheduleLock(u) \in held[t] /\ ~Elsewhere(u, r)'
      <4>1. Checked(t) \subseteq Users BY SnapshotFacts DEF Checked, SessionTypes
      <4>2. QED BY <3>1, <4>1 DEF Beside
    <3>5. \A b \in tx[t].taken :
            /\ b \in Apps /\ AppLock(b) \in Locks(t) /\ app'[b].status # "NONE"
            /\ app'[b].status = "ACCEPTED" => b \in Tangled'
            /\ Known(tx[t].seen) \cap Known(app'[b].users) # {}
      BY <3>1 DEF Beside
    <3>6. DOMAIN tx[t].seen = DOMAIN app'[a].users BY <2>3, <3>1 DEF Beside
    <3>7. QED
      BY <1>0, <2>1, <2>3, <2>4, <2>6, <3>1, <3>2, <3>3, <3>4, <3>5, <3>6 DEF Accepting
  <2>7. QED BY <2>5, <2>6
<1>7. QED BY <1>2, <1>3, <1>4, <1>5, <1>6 DEF Under

\* Data when applications without a seat are closed and seats given up, those of
\* a cancelled room included.
LEMMA ClosedData ==
  ASSUME Data, UNCHANGED <<party, member, account, stale>>,
         app' \in [Apps -> [status : AppStatus, room : Rooms \cup {Nil}, owner : Owners,
                            users : Snapshots]],
         seat' \in [Seats -> SeatStatus], room' \in [Rooms -> {"OPEN", "CANCELLED"}],
         \A b \in Apps :
           /\ app'[b].room = app[b].room /\ app'[b].owner = app[b].owner
           /\ app'[b].users = app[b].users
           /\ app'[b].status # app[b].status =>
                app[b].status \in Pending /\ app'[b].status \notin {"NONE"} \cup ActiveApp,
         \A x \in Seats :
           /\ seat'[x] # "NONE" => seat[x] # "NONE"
           /\ seat'[x] = "ACTIVE" => seat[x] = "ACTIVE" /\ room'[app[x[1]].room] = "OPEN"
  PROVE  Data'
<1>1. DataTypes' BY DEF Data, DataTypes
<1>2. Accounted' BY DEF Data, Accounted
<1>3. \A x \in Seats : seat[x] # "NONE" => x[1] \in Apps /\ app'[x[1]].status = app[x[1]].status
  BY DEF Data, Seated, Seats
<1>4. Seated'
  <2>1. \A b \in Apps : app'[b].status # "NONE" => app'[b].room \in Rooms
    BY DEF Data, Seated, Pending
  <2>2. \A x \in Seats : seat'[x] # "NONE" =>
          /\ app'[x[1]].status \notin {"NONE"} \cup Pending
          /\ x[2] \in DOMAIN app'[x[1]].users
    BY <1>3 DEF Data, Seated, Seats
  <2>3. \A x \in Seats : seat'[x] = "ACTIVE" => room'[app'[x[1]].room] = "OPEN"
    BY DEF Seats
  <2>4. QED BY <2>1, <2>2, <2>3 DEF Seated
<1>5. PartyFollows' BY DEF Data, PartyFollows, StatusOfParty, CanPartyBeReady
<1>6. FrozenComposition'
  <2>1. Snapshot(Party)' = Snapshot(Party) /\ CanPartyBeReady(member)' = CanPartyBeReady(member)
    BY DEF Snapshot, InParty, CanPartyBeReady
  <2>2. \A b \in Apps : app'[b].status \in ActiveApp => app[b].status \in ActiveApp
    BY DEF ActiveApp
  <2>3. QED BY <2>1, <2>2 DEF Data, FrozenComposition
<1>7. SeatsFollowAnswers'
  BY <1>3 DEF Data, SeatsFollowAnswers, Tangled, Seats
<1>8. \A q : Active(q)' \subseteq Active(q) BY DEF Active, Seats
<1>9. \A v, q : Elsewhere(v, q)' => Elsewhere(v, q) BY DEF Elsewhere, Seats
<1>10. OneRoomEach' BY <1>9 DEF Data, OneRoomEach, Seats
<1>11. SlotsAreNotOversold'
  <2> SUFFICES ASSUME NEW r \in Rooms PROVE AvailablePublicSlots(r)' >= 0
    BY DEF SlotsAreNotOversold
  <2>1. AvailablePublicSlots(r) >= 0 /\ AvailablePublicSlots(r) \in Int
    BY SlotsFacts DEF Data, SlotsAreNotOversold
  <2>2. AvailablePublicSlots(r)' \in Int
    <3>1. IsFiniteSet(Active(r)') BY <1>8, SlotsFacts, FS_Subset
    <3>2. QED BY <3>1, FS_CardinalityType, TransactionsAssumption DEF AvailablePublicSlots
  <2>3. QED BY <1>8, <2>1, <2>2, SlotsGrow
<1>12. QED BY <1>1, <1>2, <1>4, <1>5, <1>6, <1>7, <1>10, <1>11 DEF Data

\* A single answer.
LEMMA ResolveEffect ==
  ASSUME Data, NEW a \in Apps, app[a].status \in Pending,
         NEW status \in {"WITHDRAWN", "REJECTED"}, Resolve(a, status)
  PROVE  /\ Data'
         /\ \A t \in Sessions : AppLock(a) \notin held[t] => Beside(t)
<1>1. UNCHANGED <<friend, party, member, room, seat, account, stale>>
  BY DEF Resolve
<1>2. \A b \in Apps :
        /\ app'[b].room = app[b].room /\ app'[b].owner = app[b].owner
        /\ app'[b].users = app[b].users
        /\ b = a => app'[b].status = status
        /\ b # a => app'[b].status = app[b].status
  BY DEF Resolve, Data, DataTypes
<1>3. app' \in [Apps -> [status : AppStatus, room : Rooms \cup {Nil}, owner : Owners,
                         users : Snapshots]]
  BY DEF Resolve, Data, DataTypes, AppStatus
<1>4. Data'
  <2>1. /\ seat' \in [Seats -> SeatStatus] /\ room' \in [Rooms -> {"OPEN", "CANCELLED"}]
        /\ \A x \in Seats : seat'[x] = "ACTIVE" =>
             seat[x] = "ACTIVE" /\ room'[app[x[1]].room] = "OPEN"
    BY <1>1 DEF Data, DataTypes, Seated
  <2>2. \A b \in Apps : app'[b].status # app[b].status =>
          app[b].status \in Pending /\ app'[b].status \notin {"NONE"} \cup ActiveApp
    BY <1>2 DEF Pending, ActiveApp
  <2>3. QED BY <1>1, <1>2, <1>3, <2>1, <2>2, ClosedData
<1>5. ASSUME NEW t \in Sessions, AppLock(a) \notin held[t]
      PROVE  Beside(t)
  <2>1. \A q : Active(q)' = Active(q) BY <1>1, <1>2 DEF Active, Seats
  <2>2. \A v, q : Elsewhere(v, q)' <=> Elsewhere(v, q) BY <1>1, <1>2 DEF Elsewhere, Seats
  <2>3. QED BY <1>1, <1>2, <1>5, <2>1, <2>2 DEF Beside, Tangled, Pending
<1>6. QED BY <1>4, <1>5

\* A rejection ends a locked application that is still pending.
LEMMA RejectApplicationKept ==
  ASSUME IInv, NEW s \in Sessions, RejectApplication(s)
  PROVE  Kept(s)
<1>1. ASSUME NEW a \in Apps, app[a].status \in Pending,
             Start(s, "reject", a, AppLock(a), "room", RoomToLock(a))
      PROVE  Kept(s)
  <2>1. /\ Moves(s) /\ UNCHANGED data /\ tx'[s].op = "reject" /\ tx'[s].arg = a
        /\ held'[s] = {AppLock(a)}
    BY <1>1, StartEffect DEF IInv
  <2>2. Answering(s)' BY <1>1, <2>1 DEF Answering, data
  <2>3. QED BY <2>1, <2>2, QuietKept, UnderOfKind
<1>2. ASSUME At(s, "reject", "room"), Resolve(tx[s].arg, "REJECTED"), Release(s)
      PROVE  Kept(s)
  <2>1. PICK a : a = tx[s].arg OBVIOUS
  <2>2. a \in Apps /\ AppLock(a) \in held[s] /\ app[a].status \in Pending
    BY <1>2, <2>1 DEF At, IInv, Under, Answering
  <2>3. Data' /\ \A t \in Sessions : AppLock(a) \notin held[t] => Beside(t)
    BY <1>2, <2>1, <2>2, ResolveEffect DEF IInv
  <2>4. ASSUME NEW t \in Sessions, t # s, tx'[t] = tx[t], held'[t] = held[t]
        PROVE  Under(t)'
    <3>1. AppLock(a) \notin held[t] BY <2>2, <2>4 DEF IInv, Exclusion
    <3>2. QED BY <2>3, <2>4, <3>1, BesideUnder DEF IInv
  <2>5. QED BY <1>2, <2>3, <2>4, CommitKept
<1>3. QED BY <1>1, <1>2 DEF RejectApplication

\* Seats that are emptied reopen no application, and disturb nobody.
LEMMA SeatsEmptied ==
  ASSUME Data, seat' \in [Seats -> SeatStatus],
         UNCHANGED <<friend, party, member, room, app, account, stale>>,
         \A y \in Seats : /\ seat'[y] # "NONE" <=> seat[y] # "NONE"
                          /\ seat'[y] = "ACTIVE" => seat[y] = "ACTIVE"
  PROVE  Data' /\ \A t \in Sessions : Beside(t)
<1>1. \A y \in Seats : seat'[y] = "ACTIVE" => room'[app[y[1]].room] = "OPEN"
  BY DEF Data, Seated
<1>2. Data'
  <2>1. /\ app' \in [Apps -> [status : AppStatus, room : Rooms \cup {Nil}, owner : Owners,
                              users : Snapshots]]
        /\ room' \in [Rooms -> {"OPEN", "CANCELLED"}]
    BY DEF Data, DataTypes
  <2>2. QED BY <1>1, <2>1, ClosedData
<1>3. \A t \in Sessions : Beside(t)
  <2>1. \A q : Active(q)' \subseteq Active(q) BY DEF Active
  <2>2. \A v, q : Elsewhere(v, q)' => Elsewhere(v, q) BY DEF Elsewhere
  <2>3. QED BY <2>1, <2>2 DEF Beside, Tangled
<1>4. QED BY <1>2, <1>3

\* A removal ends a seat.
LEMMA RemoveParticipantKept ==
  ASSUME IInv, NEW s \in Sessions, RemoveParticipant(s)
  PROVE  Kept(s)
<1>1. ASSUME NEW x \in Seats, seat[x] = "ACTIVE",
             Start(s, "remove", x, SeatLock(x), "room", {RoomLock(app[x[1]].room)})
      PROVE  Kept(s)
  <2>1. Moves(s) /\ UNCHANGED data /\ tx'[s].op = "remove" /\ tx'[s].arg = x
        /\ tx'[s].taken = {}
    BY <1>1, StartEffect DEF IInv
  <2>2. Removing(s)' BY <1>1, <2>1 DEF Removing, data
  <2>3. QED BY <2>1, <2>2, QuietKept, UnderOfKind
<1>2. ASSUME At(s, "remove", "room"), Release(s),
             seat' = [seat EXCEPT ![tx[s].arg] = "REMOVED_BY_HOST"],
             UNCHANGED <<friend, party, member, room, app, account, stale>>
      PROVE  Kept(s)
  <2>1. PICK x : x = tx[s].arg OBVIOUS
  <2>2. x \in Seats /\ seat[x] # "NONE" BY <1>2, <2>1 DEF At, IInv, Under, Removing
  <2>3. /\ seat' \in [Seats -> SeatStatus]
        /\ seat'[x] = "REMOVED_BY_HOST" /\ \A y \in Seats : y # x => seat'[y] = seat[y]
    BY <1>2, <2>1, <2>2 DEF IInv, Data, DataTypes, SeatStatus
  <2>4. Data' /\ \A t \in Sessions : Beside(t)
    BY <1>2, <2>2, <2>3, SeatsEmptied DEF IInv
  <2>5. \A t \in Sessions : tx'[t] = tx[t] /\ held'[t] = held[t] => Under(t)'
    BY <2>4, BesideUnder DEF IInv
  <2>6. QED BY <1>2, <2>4, <2>5, CommitKept
<1>3. QED BY <1>1, <1>2, AbortKept DEF RemoveParticipant

\* Seats that are given up have been held.
LEMMA GiveUpSeatsKept ==
  ASSUME IInv, NEW s \in Sessions, NEW gone, \A y \in gone : y \in Seats /\ seat[y] # "NONE",
         GiveUpSeats(s, gone)
  PROVE  Kept(s)
<1>1. /\ seat' \in [Seats -> SeatStatus]
      /\ \A y \in Seats : seat'[y] = IF y \in gone THEN "CANCELLED" ELSE seat[y]
  BY DEF GiveUpSeats, IInv, Data, DataTypes, SeatStatus
<1>2. Data' /\ \A t \in Sessions : Beside(t)
  BY <1>1, SeatsEmptied DEF GiveUpSeats, IInv
<1>3. \A t \in Sessions : tx'[t] = tx[t] /\ held'[t] = held[t] => Under(t)'
  BY <1>2, BesideUnder DEF IInv
<1>4. QED BY <1>2, <1>3, CommitKept DEF GiveUpSeats

\* A player who leaves ends his seat, and the party's owner those of his guests.
LEMMA CancelParticipantKept ==
  ASSUME IInv, NEW s \in Sessions, CancelParticipant(s)
  PROVE  Kept(s)
<1>1. ASSUME NEW x \in Seats, seat[x] = "ACTIVE",
             Start(s, "leave", x, SeatLock(x), "room", {RoomLock(app[x[1]].room)})
      PROVE  Kept(s)
  <2>1. Moves(s) /\ UNCHANGED data /\ tx'[s].op = "leave" /\ tx'[s].arg = x
        /\ tx'[s].taken = {}
    BY <1>1, StartEffect DEF IInv
  <2>2. Removing(s)' BY <1>1, <2>1 DEF Removing, data
  <2>3. QED BY <2>1, <2>2, QuietKept, UnderOfKind
<1>2. tx[s].op = "leave" =>
        /\ tx[s].arg \in Seats /\ seat[tx[s].arg] # "NONE"
        /\ \A y \in tx[s].taken : y \in Seats /\ seat[y] # "NONE"
  BY DEF IInv, Under, Removing
<1>3. ASSUME At(s, "leave", "room"), NEW found, NEW locks, found = GuestsOf(tx[s].arg),
             Continue(s, [tx[s] EXCEPT !.step = "guests", !.taken = found, !.want = locks])
      PROVE  Kept(s)
  <2>0. PICK t : t = tx[s] OBVIOUS
  <2>1. PICK next : next = [t EXCEPT !.step = "guests", !.taken = found, !.want = locks]
    OBVIOUS
  <2>2. /\ IsRow(t) /\ t.seen \in Snapshots /\ t.left \subseteq Users /\ t.op = "leave"
        /\ \A l \in tx[s].want : Free(l)
    BY <1>3, <2>0 DEF IInv, SessionTypes, At
  <2>3. /\ IsRow(next) /\ next.op = "leave" /\ next.arg = t.arg /\ next.taken = found
        /\ next.seen = t.seen /\ next.left = t.left
    BY <2>1, <2>2 DEF IsRow
  <2>4. Continue(s, next) BY <1>3, <2>0, <2>1
  <2>5. /\ Moves(s) /\ UNCHANGED data /\ tx'[s].op = "leave" /\ tx'[s].arg = tx[s].arg
        /\ tx'[s].taken = found
    BY <2>0, <2>2, <2>3, <2>4, ContinueEffect DEF IInv
  <2>6. \A y \in found : y \in Seats /\ seat[y] # "NONE" BY <1>3 DEF GuestsOf
  <2>7. Removing(s)' BY <1>2, <2>0, <2>2, <2>5, <2>6 DEF Removing, data
  <2>8. QED BY <2>5, <2>7, QuietKept, UnderOfKind
<1>4. ASSUME At(s, "leave", "room"), GiveUpSeats(s, {tx[s].arg})
      PROVE  Kept(s)
  BY <1>2, <1>4, GiveUpSeatsKept DEF At
<1>5. ASSUME At(s, "leave", "guests"), NEW found, found \subseteq tx[s].taken,
             GiveUpSeats(s, {tx[s].arg} \cup found)
      PROVE  Kept(s)
  BY <1>2, <1>5, GiveUpSeatsKept DEF At
<1>6. QED BY <1>1, <1>3, <1>4, <1>5, AbortKept DEF CancelParticipant

\* What the last statement of a cancellation writes.
Cancelled(r) ==
  /\ room' = [room EXCEPT ![r] = "CANCELLED"]
  /\ seat' = [x \in Seats |-> IF x \in Active(r) THEN "CANCELLED" ELSE seat[x]]
  /\ app' = [a \in Apps |-> IF a \in PendingOf(r)
                            THEN [app[a] EXCEPT !.status = "EXPIRED"] ELSE app[a]]
  /\ UNCHANGED <<friend, party, member, account, stale>>

\* What cancelling a room writes keeps the data, and disturbs no session that holds
\* neither the room nor one of its pending applications.
LEMMA CancelledEffect ==
  ASSUME Data, NEW r \in Rooms, Cancelled(r)
  PROVE  /\ Data'
         /\ \A t \in Sessions :
              /\ RoomLock(r) \notin held[t]
              /\ \A a \in PendingOf(r) : AppLock(a) \notin held[t]
              => Beside(t)
<1>1. /\ \A b \in Apps :
           /\ app'[b].room = app[b].room /\ app'[b].owner = app[b].owner
           /\ app'[b].users = app[b].users
           /\ b \in PendingOf(r) => app'[b].status = "EXPIRED"
           /\ b \notin PendingOf(r) => app'[b].status = app[b].status
      /\ app' \in [Apps -> [status : AppStatus, room : Rooms \cup {Nil}, owner : Owners,
                            users : Snapshots]]
  BY DEF Data, DataTypes, AppStatus, Cancelled
<1>2. \A b \in Apps : app'[b].status # app[b].status =>
        /\ b \in PendingOf(r) /\ app[b].status \in Pending
        /\ app'[b].status \notin {"NONE", "ACCEPTED"} \cup ActiveApp
  BY <1>1 DEF PendingOf, Pending, ActiveApp
<1>3. /\ room' \in [Rooms -> {"OPEN", "CANCELLED"}]
      /\ \A q \in Rooms : q # r => room'[q] = room[q]
  BY DEF Data, DataTypes, Cancelled
<1>4. /\ seat' \in [Seats -> SeatStatus]
      /\ \A x \in Seats : x \in Active(r) => seat'[x] = "CANCELLED"
      /\ \A x \in Seats : x \notin Active(r) => seat'[x] = seat[x]
  BY DEF Data, DataTypes, SeatStatus, Cancelled
<1>5. \A x \in Seats :
        /\ seat'[x] # "NONE" <=> seat[x] # "NONE"
        /\ seat'[x] = "ACTIVE" => seat[x] = "ACTIVE" /\ room'[app[x[1]].room] = "OPEN"
  <2> SUFFICES ASSUME NEW x \in Seats
               PROVE  /\ seat'[x] # "NONE" <=> seat[x] # "NONE"
                      /\ seat'[x] = "ACTIVE" => seat[x] = "ACTIVE" /\ room'[app[x[1]].room] = "OPEN"
    OBVIOUS
  <2>1. x \in Active(r) => seat[x] = "ACTIVE" /\ seat'[x] = "CANCELLED" BY <1>4 DEF Active
  <2>2. seat'[x] = "ACTIVE" => seat[x] = "ACTIVE" /\ app[x[1]].room # r
    BY <1>4 DEF Active
  <2>3. seat[x] = "ACTIVE" => app[x[1]].room \in Rooms /\ room[app[x[1]].room] = "OPEN"
    BY DEF Data, Seated, Seats
  <2>4. QED BY <1>3, <1>4, <2>1, <2>2, <2>3
<1>6. UNCHANGED <<friend, party, member, account, stale>> BY DEF Cancelled
<1>7. Data' BY <1>1, <1>2, <1>3, <1>4, <1>5, <1>6, ClosedData
<1>8. ASSUME NEW t \in Sessions, RoomLock(r) \notin held[t],
             \A a \in PendingOf(r) : AppLock(a) \notin held[t]
      PROVE  Beside(t)
  <2>1. \A q : Active(q)' \subseteq Active(q) BY <1>1, <1>5 DEF Active, Seats
  <2>2. \A v, q : Elsewhere(v, q)' => Elsewhere(v, q) BY <1>1, <1>5 DEF Elsewhere, Seats
  <2>3. \A q \in Rooms : RoomLock(q) \in held[t] => room'[q] = room[q]
    BY <1>3, <1>8
  <2>4. QED BY <1>1, <1>2, <1>5, <1>6, <1>8, <2>1, <2>2, <2>3 DEF Beside, Tangled, Pending
<1>9. QED BY <1>7, <1>8

\* Cancelling a room keeps the invariant.
LEMMA CancelRoomKept ==
  ASSUME IInv, NEW s \in Sessions, CancelRoom(s)
  PROVE  Kept(s)
<1>1. ASSUME NEW r \in Rooms,
             Start(s, "cancel", r, RoomLock(r), "seats", {SeatLock(x) : x \in Active(r)})
      PROVE  Kept(s)
  <2>1. /\ Moves(s) /\ UNCHANGED data /\ tx'[s].op = "cancel" /\ tx'[s].arg = r
        /\ tx'[s].step = "seats" /\ held'[s] = {RoomLock(r)}
    BY <1>1, StartEffect DEF IInv
  <2>2. Closing(s)' BY <2>1 DEF Closing
  <2>3. QED BY <2>1, <2>2, QuietKept, UnderOfKind
<1>2. ASSUME At(s, "cancel", "seats"),
             GoTo(s, "applications", {AppLock(a) : a \in PendingOf(tx[s].arg)})
      PROVE  Kept(s)
  <2>1. tx[s].op = "cancel" /\ Closing(s) /\ \A l \in tx[s].want : Free(l)
    BY <1>2 DEF At, IInv, Under
  <2>2. PICK locks : locks = {AppLock(a) : a \in PendingOf(tx[s].arg)} OBVIOUS
  <2>3. GoTo(s, "applications", locks) BY <1>2, <2>2
  <2>4. /\ Moves(s) /\ UNCHANGED data /\ tx'[s].op = tx[s].op /\ tx'[s].arg = tx[s].arg
        /\ tx'[s].step = "applications" /\ held'[s] = Locks(s)
        /\ Locks(s)' = Locks(s) \cup locks
    BY <2>1, <2>3, GoToEffect DEF IInv
  <2>5. PendingOf(tx[s].arg)' = PendingOf(tx[s].arg) BY <2>4 DEF PendingOf, data
  <2>6. \A a \in PendingOf(tx[s].arg)' : AppLock(a) \in Locks(s)' BY <2>2, <2>4, <2>5
  <2>7. Closing(s)' BY <2>1, <2>4, <2>6 DEF Closing, Locks
  <2>8. QED BY <2>1, <2>4, <2>7, QuietKept, UnderOfKind
<1>3. ASSUME At(s, "cancel", "applications"), Cancelled(tx[s].arg), Release(s)
      PROVE  Kept(s)
  <2>1. PICK r : r = tx[s].arg OBVIOUS
  <2>2. /\ r \in Rooms /\ RoomLock(r) \in held[s] /\ \A l \in tx[s].want : Free(l)
        /\ \A a \in PendingOf(r) : AppLock(a) \in Locks(s)
    BY <1>3, <2>1 DEF At, IInv, Under, Closing
  <2>3. /\ Data'
        /\ \A t \in Sessions :
             RoomLock(r) \notin held[t] /\ (\A a \in PendingOf(r) : AppLock(a) \notin held[t])
             => Beside(t)
    BY <1>3, <2>1, <2>2, CancelledEffect DEF IInv
  <2>4. ASSUME NEW t \in Sessions, t # s, tx'[t] = tx[t], held'[t] = held[t]
        PROVE  Under(t)'
    <3>1. RoomLock(r) \notin held[t] /\ \A a \in PendingOf(r) : AppLock(a) \notin held[t]
      BY <2>2, <2>4, Others DEF IInv
    <3>2. QED BY <2>3, <2>4, <3>1, BesideUnder DEF IInv
  <2>5. QED BY <1>3, <2>3, <2>4, CommitKept
<1>4. QED BY <1>1, <1>2, <1>3 DEF CancelRoom, Cancelled

-----------------------------------------------------------------------------
(* Acceptances. *)

\* Among players there is a first one: identifiers are numbers.
LEMMA LeastIsOne ==
  ASSUME NEW S \in SUBSET Users, S # {}
  PROVE  Least(S) \in S /\ \A v \in S : Least(S) <= v
<1>1. S \subseteq Nat BY TransactionsAssumption
<1>2. PICK u \in S : \A v \in S : <<v, u>> \notin OpToRel(<, Nat)
  BY <1>1, NatLessThanWellFounded, WFMin, Zenon
<1>3. \A v \in S : u <= v
  <2> TAKE v \in S
  <2>1. u \in Nat /\ v \in Nat BY <1>1
  <2>2. ~(v < u) BY <1>2, <2>1, Zenon DEF OpToRel
  <2>3. QED BY <2>1, <2>2
<1>4. QED BY <1>3 DEF Least

\* A player with a seat of his own elsewhere is found by the query.
LEMMA NoConflictFound ==
  ASSUME Data, NEW u \in Users, NEW r, ~HasActiveScheduleConflict(u, r)
  PROVE  ~Elsewhere(u, r)
BY DEF Data, Accounted, Seated, HasActiveScheduleConflict, Elsewhere

\* The room is locked, and the members are read.
LEMMA AcceptRoomKept ==
  ASSUME IInv, NEW s \in Sessions, NEW users, users = app[tx[s].arg].users,
         At(s, "accept", "room"), room[app[tx[s].arg].room] = "OPEN",
         Continue(s, [tx[s] EXCEPT !.step = "schedules", !.want = NextSchedule(Known(users)),
                                   !.seen = users, !.left = Known(users)])
  PROVE  Kept(s)
<1>0. PICK t : t = tx[s] OBVIOUS
<1>1. PICK next : next = [t EXCEPT !.step = "schedules", !.want = NextSchedule(Known(users)),
                                   !.seen = users, !.left = Known(users)]
  OBVIOUS
<1>2. IsRow(t) BY <1>0 DEF IInv, SessionTypes
<1>3. /\ IsRow(next) /\ next.op = t.op /\ next.arg = t.arg /\ next.step = "schedules"
      /\ next.seen = users /\ next.left = Known(users) /\ next.taken = t.taken
      /\ next.want = NextSchedule(Known(users))
  BY <1>1, <1>2 DEF IsRow
<1>4. /\ t.op = "accept" /\ t.step = "room" /\ \A l \in tx[s].want : Free(l)
      /\ Answering(s) /\ Accepting(s)
  BY <1>0 DEF At, IInv, Under
<1>5. PICK a : a = t.arg OBVIOUS
<1>6. a \in Apps /\ AppLock(a) \in held[s] /\ app[a].status \in Pending
      /\ RoomLock(app[a].room) \in Locks(s) /\ t.taken = {}
  BY <1>0, <1>4, <1>5 DEF Answering, Accepting
<1>7. users \in Snapshots /\ \A m \in Users \cap DOMAIN users : users[m] = m
  BY <1>0, <1>5, <1>6 DEF IInv, Data, DataTypes, Accounted
<1>8. Known(users) \subseteq Users BY <1>7, SnapshotFacts
<1>9. /\ Moves(s) /\ UNCHANGED data
      /\ tx'[s].op = "accept" /\ tx'[s].arg = a /\ tx'[s].step = "schedules"
      /\ tx'[s].seen = users /\ tx'[s].left = Known(users) /\ tx'[s].taken = {}
      /\ held'[s] = Locks(s) /\ Locks(s)' = Locks(s) \cup NextSchedule(Known(users))
  <2>1. Continue(s, next) BY <1>0, <1>1
  <2>2. next.seen \in Snapshots /\ next.left \subseteq Users BY <1>3, <1>7, <1>8
  <2>3. SessionTypes BY DEF IInv
  <2>4. /\ Moves(s) /\ UNCHANGED data
        /\ tx'[s].op = next.op /\ tx'[s].arg = next.arg /\ tx'[s].step = next.step
        /\ tx'[s].seen = next.seen /\ tx'[s].left = next.left /\ tx'[s].taken = next.taken
        /\ held'[s] = Locks(s) /\ Locks(s)' = Locks(s) \cup next.want
    BY <1>3, <1>4, <2>1, <2>2, <2>3, ContinueEffect
  <2>5. QED BY <1>3, <1>4, <1>5, <1>6, <2>4
<1>10. Answering(s)' BY <1>6, <1>9 DEF Answering, data, Locks
<1>11. Checked(s)' = {} BY <1>9 DEF Checked, Known
<1>12. Accepting(s)'
  <2>1. RoomLock(app'[a].room) \in held'[s] /\ room'[app'[a].room] = "OPEN"
    BY <1>0, <1>5, <1>6, <1>9 DEF data
  <2>2. DOMAIN users = DOMAIN app'[a].users BY <1>0, <1>5, <1>9 DEF data
  <2>3. Known(users)' = Known(users) /\ Known(tx'[s].seen) = Known(users)
    BY <1>9 DEF Known
  <2>4. Known(users) # {} => ScheduleLock(Least(Known(users))) \in Locks(s)'
    BY <1>9 DEF NextSchedule
  <2>5. QED BY <1>7, <1>9, <1>11, <2>1, <2>2, <2>3, <2>4 DEF Accepting
<1>13. Under(s)' BY <1>9, <1>10, <1>12, UnderOfKind
<1>14. QED BY <1>9, <1>13, QuietKept

\* What an acceptance has found when a statement of it goes through, and what the
\* next row of its session may record.
Found(s, next) ==
  LET a == tx[s].arg
      r == app[a].room
      checked == IF next.step = "overlaps" THEN Known(next.seen)
                                           ELSE Known(next.seen) \ next.left
      locks == Locks(s) \cup next.want
  IN  /\ IsRow(next) /\ next.op = "accept" /\ next.arg = a /\ next.seen = tx[s].seen
      /\ next.step \in {"schedules", "overlaps"} /\ next.left \subseteq Known(next.seen)
      /\ \A u \in checked : ScheduleLock(u) \in Locks(s) /\ ~Elsewhere(u, r)
      /\ next.step = "schedules" /\ next.left # {} => ScheduleLock(Least(next.left)) \in locks
      /\ next.step = "schedules" => next.taken = {}
      /\ next.step = "overlaps" => AvailablePublicSlots(r) >= Cardinality(DOMAIN next.seen)
      /\ \A b \in next.taken :
           /\ b \in Apps /\ AppLock(b) \in locks /\ app[b].status # "NONE"
           /\ app[b].status = "ACCEPTED" => b \in Tangled
           /\ Known(next.seen) \cap Known(app[b].users) # {}

\* An acceptance that goes on to its next locks has found what it will rely on.
LEMMA AcceptGoesOn ==
  ASSUME IInv, NEW s \in Sessions, tx[s].op = "accept", tx[s].step \in {"schedules", "overlaps"},
         \A l \in tx[s].want : Free(l), NEW next, Found(s, next), Continue(s, next)
  PROVE  Kept(s)
<1>0. PICK a : a = tx[s].arg OBVIOUS
<1>1. PICK r : r = app[a].room OBVIOUS
<1>2. PICK seen : seen = tx[s].seen OBVIOUS
<1>3. /\ a \in Apps /\ AppLock(a) \in held[s] /\ app[a].status \in Pending
      /\ RoomLock(r) \in held[s] /\ room[r] = "OPEN" /\ DOMAIN seen = DOMAIN app[a].users
      /\ \A m \in Users \cap DOMAIN seen : seen[m] = m
  BY <1>0, <1>1, <1>2 DEF IInv, Under, Answering, Accepting
<1>4. IsRow(next) /\ next.seen = seen /\ next.op = "accept" /\ next.arg = a
  BY <1>0, <1>2 DEF Found
<1>5. next.seen \in Snapshots /\ next.left \subseteq Users
  <2>1. next.seen \in Snapshots BY <1>2, <1>4 DEF IInv, SessionTypes
  <2>2. Known(next.seen) \subseteq Users BY <2>1, SnapshotFacts
  <2>3. QED BY <2>1, <2>2 DEF Found
<1>6. /\ Moves(s) /\ UNCHANGED data
      /\ tx'[s].op = next.op /\ tx'[s].arg = next.arg /\ tx'[s].step = next.step
      /\ tx'[s].seen = next.seen /\ tx'[s].left = next.left /\ tx'[s].taken = next.taken
      /\ held'[s] = Locks(s) /\ Locks(s)' = Locks(s) \cup next.want
  <2>1. SessionTypes BY DEF IInv
  <2>2. QED BY <1>4, <1>5, <2>1, ContinueEffect
<1>7. Answering(s)' BY <1>3, <1>4, <1>6 DEF Answering, data, Locks
<1>8. app'[a].room = r /\ DOMAIN app'[a].users = DOMAIN seen /\ room' = room /\ app' = app
  BY <1>1, <1>3, <1>6 DEF data
<1>9. \A u, q : Elsewhere(u, q)' <=> Elsewhere(u, q) BY <1>6 DEF data, Elsewhere
<1>10. AvailablePublicSlots(r)' = AvailablePublicSlots(r) /\ Tangled' = Tangled
  BY <1>6 DEF data, AvailablePublicSlots, Active, Tangled
<1>11. Known(tx'[s].seen) = Known(seen)
       /\ Checked(s)' = IF next.step = "overlaps" THEN Known(seen) ELSE Known(seen) \ next.left
  BY <1>4, <1>6 DEF Checked, Known
<1>12. Accepting(s)'
  <2>1. \A u \in Checked(s)' : ScheduleLock(u) \in held'[s] /\ ~Elsewhere(u, r)'
    BY <1>0, <1>1, <1>4, <1>6, <1>9, <1>11 DEF Found
  <2>2. next.step = "schedules" /\ next.left # {} => ScheduleLock(Least(next.left)) \in Locks(s)'
    BY <1>6 DEF Found
  <2>3. /\ next.left \subseteq Known(seen)
        /\ next.step = "schedules" => next.taken = {}
        /\ next.step \in {"schedules", "overlaps"}
    BY <1>4 DEF Found
  <2>4. next.step = "overlaps" => AvailablePublicSlots(r)' >= Cardinality(DOMAIN seen)
    BY <1>0, <1>1, <1>4, <1>10 DEF Found
  <2>5. \A b \in next.taken :
          /\ b \in Apps /\ AppLock(b) \in Locks(s)' /\ app'[b].status # "NONE"
          /\ app'[b].status = "ACCEPTED" => b \in Tangled'
          /\ Known(seen) \cap Known(app'[b].users) # {}
    BY <1>4, <1>6, <1>8, <1>10 DEF Found
  <2>6. QED
    BY <1>3, <1>4, <1>6, <1>8, <1>11, <2>1, <2>2, <2>3, <2>4, <2>5 DEF Accepting, Locks
<1>13. Under(s)' BY <1>4, <1>6, <1>7, <1>12, UnderOfKind
<1>14. QED BY <1>6, <1>13, QuietKept

\* One more schedule is locked, and free.
LEMMA AcceptScheduleKept ==
  ASSUME IInv, NEW s \in Sessions, At(s, "accept", "schedules"),
         NEW u, u = Least(tx[s].left), NEW rest, rest = tx[s].left \ {u},
         NEW r, r = app[tx[s].arg].room, ~HasActiveScheduleConflict(u, r),
         ~(rest = {} /\ AvailablePublicSlots(r) < Cardinality(DOMAIN tx[s].seen)),
         IF rest # {}
         THEN Continue(s, [tx[s] EXCEPT !.want = NextSchedule(rest), !.left = rest])
         ELSE Continue(s, [tx[s] EXCEPT !.step = "overlaps", !.want = {},
                                        !.left = Known(tx[s].seen)])
  PROVE  Kept(s)
<1>0. PICK t : t = tx[s] OBVIOUS
<1>1. /\ t.op = "accept" /\ t.step = "schedules" /\ \A l \in tx[s].want : Free(l)
      /\ Answering(s) /\ Accepting(s) /\ IsRow(t) /\ t.seen \in Snapshots
  BY <1>0 DEF At, IInv, Under, SessionTypes
<1>2. /\ t.taken = {} /\ t.left \subseteq Known(t.seen)
      /\ \A v \in Known(t.seen) \ t.left : ScheduleLock(v) \in held[s] /\ ~Elsewhere(v, r)
      /\ t.left # {} => ScheduleLock(u) \in Locks(s)
  <2>1. Checked(s) = Known(t.seen) \ t.left BY <1>0, <1>1 DEF Checked
  <2>2. QED BY <1>0, <1>1, <2>1 DEF Accepting
<1>3. Known(t.seen) \subseteq Users BY <1>1, SnapshotFacts
<1>4. \A v \in Known(t.seen) \ rest : ScheduleLock(v) \in Locks(s) /\ ~Elsewhere(v, r)
  <2> TAKE v \in Known(t.seen) \ rest
  <2>1. CASE v \notin t.left BY <1>2, <2>1 DEF Locks
  <2>2. CASE v \in t.left
    <3>1. v = u /\ u \in Users BY <1>0, <1>3, <2>2
    <3>2. ~Elsewhere(u, r) BY <3>1, NoConflictFound DEF IInv
    <3>3. QED BY <1>2, <2>2, <3>1, <3>2
  <2>3. QED BY <2>1, <2>2
<1>5. CASE rest # {}
  <2>1. PICK next : next = [t EXCEPT !.want = NextSchedule(rest), !.left = rest] OBVIOUS
  <2>2. /\ IsRow(next) /\ next.op = t.op /\ next.arg = t.arg /\ next.step = t.step
        /\ next.seen = t.seen /\ next.left = rest /\ next.taken = t.taken
        /\ next.want = NextSchedule(rest)
    BY <1>1, <2>1 DEF IsRow
  <2>3. Continue(s, next) BY <1>0, <1>5, <2>1
  <2>4. next.step = "schedules" /\ next.taken = {} /\ next.left \subseteq Known(next.seen)
    BY <1>0, <1>1, <1>2, <2>2
  <2>5. ScheduleLock(Least(rest)) \in next.want BY <1>5, <2>2 DEF NextSchedule
  <2>6. \A v \in Known(next.seen) \ next.left :
          ScheduleLock(v) \in Locks(s) /\ ~Elsewhere(v, app[tx[s].arg].room)
    BY <1>4, <2>2
  <2>7. Found(s, next) BY <1>0, <1>1, <2>2, <2>4, <2>5, <2>6 DEF Found
  <2>8. QED BY <1>0, <1>1, <2>3, <2>7, AcceptGoesOn
<1>6. CASE rest = {}
  <2>1. PICK next : next = [t EXCEPT !.step = "overlaps", !.want = {}, !.left = Known(t.seen)]
    OBVIOUS
  <2>2. /\ IsRow(next) /\ next.op = t.op /\ next.arg = t.arg /\ next.step = "overlaps"
        /\ next.seen = t.seen /\ next.left = Known(t.seen) /\ next.taken = t.taken
        /\ next.want = {}
    BY <1>1, <2>1 DEF IsRow
  <2>3. Continue(s, next) BY <1>0, <1>6, <2>1
  <2>4. AvailablePublicSlots(r) >= Cardinality(DOMAIN next.seen)
    <3>1. AvailablePublicSlots(r) \in Int BY SlotsFacts
    <3>2. DOMAIN t.seen \subseteq Rows BY <1>1, SnapshotFacts
    <3>3. IsFiniteSet(DOMAIN t.seen) BY <3>2, FS_Subset, TransactionsAssumption
    <3>4. Cardinality(DOMAIN t.seen) \in Nat BY <3>3, FS_CardinalityType
    <3>5. QED BY <1>0, <1>6, <2>2, <3>1, <3>4
  <2>5. \A v \in Known(next.seen) :
          ScheduleLock(v) \in Locks(s) /\ ~Elsewhere(v, app[tx[s].arg].room)
    BY <1>4, <1>6, <2>2
  <2>6. Found(s, next) BY <1>0, <1>1, <1>2, <2>2, <2>4, <2>5 DEF Found
  <2>7. QED BY <1>0, <1>1, <2>3, <2>6, AcceptGoesOn
<1>7. QED BY <1>5, <1>6

\* The overlapping applications of one more player are locked.
LEMMA AcceptOverlapKept ==
  ASSUME IInv, NEW s \in Sessions, At(s, "accept", "overlaps"), tx[s].left # {},
         NEW u, u = Least(tx[s].left), NEW found,
         found = Candidates(tx[s].arg, u) \ tx[s].taken,
         Continue(s, [tx[s] EXCEPT !.want = {AppLock(b) : b \in found},
                                   !.left = tx[s].left \ {u}, !.taken = tx[s].taken \cup found])
  PROVE  Kept(s)
<1>0. PICK t : t = tx[s] OBVIOUS
<1>1. /\ t.op = "accept" /\ t.step = "overlaps" /\ \A l \in tx[s].want : Free(l)
      /\ Accepting(s) /\ IsRow(t) /\ t.seen \in Snapshots /\ t.left \subseteq Users
  BY <1>0 DEF At, IInv, Under, SessionTypes
<1>2. PICK r : r = app[tx[s].arg].room OBVIOUS
<1>3. /\ t.left \subseteq Known(t.seen)
      /\ \A v \in Known(t.seen) : ScheduleLock(v) \in held[s] /\ ~Elsewhere(v, r)
      /\ AvailablePublicSlots(r) >= Cardinality(DOMAIN t.seen)
      /\ \A b \in t.taken :
           /\ b \in Apps /\ AppLock(b) \in Locks(s) /\ app[b].status # "NONE"
           /\ app[b].status = "ACCEPTED" => b \in Tangled
           /\ Known(t.seen) \cap Known(app[b].users) # {}
  <2>1. Checked(s) = Known(t.seen) BY <1>0, <1>1 DEF Checked
  <2>2. QED BY <1>0, <1>1, <1>2, <2>1 DEF Accepting
<1>4. u \in t.left BY <1>0, <1>1, LeastIsOne
<1>5. PICK next : next = [t EXCEPT !.want = {AppLock(b) : b \in found},
                                   !.left = t.left \ {u}, !.taken = t.taken \cup found]
  OBVIOUS
<1>6. /\ IsRow(next) /\ next.op = t.op /\ next.arg = t.arg /\ next.step = t.step
      /\ next.seen = t.seen /\ next.left = t.left \ {u} /\ next.taken = t.taken \cup found
      /\ next.want = {AppLock(b) : b \in found}
  BY <1>1, <1>5 DEF IsRow
<1>7. Continue(s, next) BY <1>0, <1>5
<1>8. \A b \in next.taken :
        /\ b \in Apps /\ AppLock(b) \in Locks(s) \cup next.want /\ app[b].status # "NONE"
        /\ app[b].status = "ACCEPTED" => b \in Tangled
        /\ Known(next.seen) \cap Known(app[b].users) # {}
  <2> TAKE b \in next.taken
  <2>1. CASE b \in t.taken BY <1>3, <1>6, <2>1
  <2>2. CASE b \in found
    <3>1. b \in Apps /\ app[b].status \in Pending /\ u \in Known(app[b].users)
      BY <2>2 DEF Candidates
    <3>2. AppLock(b) \in next.want BY <1>6, <2>2
    <3>3. u \in Known(next.seen) BY <1>3, <1>4, <1>6
    <3>4. QED BY <3>1, <3>2, <3>3 DEF Pending
  <2>3. QED BY <1>6, <2>1, <2>2
<1>9. \A v \in Known(next.seen) : ScheduleLock(v) \in Locks(s) /\ ~Elsewhere(v, r)
  BY <1>3, <1>6 DEF Locks
<1>10. Found(s, next) BY <1>0, <1>1, <1>2, <1>3, <1>6, <1>8, <1>9 DEF Found
<1>11. QED BY <1>0, <1>1, <1>7, <1>10, AcceptGoesOn

\* What the last statement of an acceptance writes.
Accepted(s, a, mine) ==
  /\ seat' = [x \in Seats |-> IF x \in mine THEN "ACTIVE" ELSE seat[x]]
  /\ account' = [x \in Seats |-> IF x \in mine THEN tx[s].seen[x[2]] ELSE account[x]]
  /\ app' = [b \in Apps |-> IF b = a THEN [app[b] EXCEPT !.status = "ACCEPTED"]
                            ELSE IF b \in tx[s].taken
                            THEN [app[b] EXCEPT !.status = "WITHDRAWN"] ELSE app[b]]
  /\ stale' = stale \cup {x \in mine : tx[s].seen[x[2]] # app[a].users[x[2]]}
  /\ UNCHANGED <<friend, party, member, room>>

\* What an acceptance that has passed every statement before its last one knows.
Decided(s, a, r, seen, mine) ==
  /\ a \in Apps /\ AppLock(a) \in held[s] /\ app[a].status \in Pending
  /\ r = app[a].room /\ r \in Rooms /\ RoomLock(r) \in held[s] /\ room[r] = "OPEN"
  /\ seen = tx[s].seen /\ seen \in Snapshots /\ DOMAIN seen = DOMAIN app[a].users
  /\ \A m \in Users \cap DOMAIN seen : seen[m] = m
  /\ \A u \in Known(seen) : ScheduleLock(u) \in held[s] /\ ~Elsewhere(u, r)
  /\ AvailablePublicSlots(r) >= Cardinality(DOMAIN seen)
  /\ \A b \in tx[s].taken :
       /\ b \in Apps /\ AppLock(b) \in Locks(s) /\ app[b].status # "NONE"
       /\ app[b].status = "ACCEPTED" => b \in Tangled
  /\ mine = {x \in Seats : x[1] = a /\ x[2] \in DOMAIN seen}

\* An acceptance at its last statement has decided about slots, schedules and members.
LEMMA AcceptedIsDecided ==
  ASSUME IInv, NEW s \in Sessions, tx[s].op = "accept", tx[s].step = "overlaps",
         NEW mine, mine = {x \in Seats : x[1] = tx[s].arg /\ x[2] \in DOMAIN tx[s].seen}
  PROVE  Decided(s, tx[s].arg, app[tx[s].arg].room, tx[s].seen, mine)
<1>1. PICK a : a = tx[s].arg OBVIOUS
<1>2. PICK r : r = app[a].room OBVIOUS
<1>3. PICK seen : seen = tx[s].seen OBVIOUS
<1>4. a \in Apps /\ AppLock(a) \in held[s] /\ app[a].status \in Pending
  BY <1>1 DEF IInv, Under, Answering
<1>5. r \in Rooms BY <1>2, <1>4 DEF IInv, Data, Seated, Pending
<1>6. seen \in Snapshots BY <1>3 DEF IInv, SessionTypes
<1>7. Accepting(s) /\ Checked(s) = Known(seen) BY <1>3 DEF IInv, Under, Checked
<1>8. QED BY <1>1, <1>2, <1>3, <1>4, <1>5, <1>6, <1>7 DEF Accepting, Decided

\* An accepted application's status, and that of those taken back.
LEMMA AcceptedApps ==
  ASSUME DataTypes, NEW s, NEW a \in Apps, NEW mine, Accepted(s, a, mine)
  PROVE  /\ app' \in [Apps -> [status : AppStatus, room : Rooms \cup {Nil}, owner : Owners,
                               users : Snapshots]]
         /\ \A b \in Apps :
              /\ app'[b].room = app[b].room /\ app'[b].owner = app[b].owner
              /\ app'[b].users = app[b].users
              /\ b = a => app'[b].status = "ACCEPTED"
              /\ b # a /\ b \in tx[s].taken => app'[b].status = "WITHDRAWN"
              /\ b # a /\ b \notin tx[s].taken => app'[b].status = app[b].status
BY DEF DataTypes, Accepted, AppStatus, ActiveApp

\* The new seats fit: there are as many as members were counted.
LEMMA AcceptedFits ==
  ASSUME Data, NEW s, NEW a, NEW r, NEW seen, NEW mine, Decided(s, a, r, seen, mine),
         Active(r)' \subseteq Active(r) \cup mine
  PROVE  AvailablePublicSlots(r)' >= 0
<1>1. mine = {a} \X DOMAIN seen
  <2>1. DOMAIN seen \subseteq Rows /\ a \in Apps BY SnapshotFacts DEF Decided
  <2>2. \A x \in {a} \X DOMAIN seen : x \in mine BY <2>1 DEF Decided, Seats
  <2>3. \A x \in mine : x \in {a} \X DOMAIN seen BY DEF Decided, Seats
  <2>4. QED BY <2>2, <2>3
<1>2. IsFiniteSet(DOMAIN seen) /\ Cardinality(DOMAIN seen) \in Nat
  <2>1. DOMAIN seen \subseteq Rows BY SnapshotFacts DEF Decided
  <2>2. IsFiniteSet(DOMAIN seen) BY <2>1, FS_Subset, TransactionsAssumption
  <2>3. QED BY <2>2, FS_CardinalityType
<1>3. IsFiniteSet(mine) /\ Cardinality(mine) = Cardinality(DOMAIN seen)
  <2>1. IsFiniteSet({a}) /\ Cardinality({a}) = 1 BY FS_Singleton
  <2>2. /\ IsFiniteSet({a} \X DOMAIN seen)
        /\ Cardinality({a} \X DOMAIN seen) = Cardinality({a}) * Cardinality(DOMAIN seen)
    BY <1>2, <2>1, FS_Product
  <2>3. QED BY <1>1, <1>2, <2>1, <2>2
<1>4. IsFiniteSet(Active(r)) /\ Cardinality(Active(r)) \in Nat BY SlotsFacts
<1>5. /\ IsFiniteSet(Active(r) \cup mine)
      /\ Cardinality(Active(r) \cup mine)
           = Cardinality(Active(r)) + Cardinality(mine) - Cardinality(Active(r) \cap mine)
  BY <1>3, <1>4, FS_Union
<1>6. Cardinality(Active(r) \cap mine) \in Nat
  <2>1. IsFiniteSet(Active(r) \cap mine) BY <1>3, <1>4, FS_Intersection
  <2>2. QED BY <2>1, FS_CardinalityType
<1>7. /\ IsFiniteSet(Active(r)')
      /\ Cardinality(Active(r)') <= Cardinality(Active(r) \cup mine)
  BY <1>5, FS_Subset
<1>8. Cardinality(Active(r)') \in Nat BY <1>7, FS_CardinalityType
<1>9. Slots - Cardinality(Active(r)) >= Cardinality(DOMAIN seen)
  BY DEF Decided, AvailablePublicSlots
<1>10. QED
  BY <1>2, <1>3, <1>4, <1>5, <1>6, <1>7, <1>8, <1>9, TransactionsAssumption
  DEF AvailablePublicSlots

\* The seats after an acceptance.
LEMMA AcceptedSeats ==
  ASSUME Data, NEW s, NEW a, NEW r, NEW seen, NEW mine, Decided(s, a, r, seen, mine),
         Accepted(s, a, mine)
  PROVE  /\ mine \subseteq Seats /\ \A x \in mine : x[1] = a /\ x[2] \in DOMAIN seen
         /\ \A x \in Seats : seat[x] # "NONE" => x[1] # a /\ x \notin mine
         /\ \A x \in mine : seat'[x] = "ACTIVE" /\ account'[x] = seen[x[2]]
         /\ \A x \in Seats : x \notin mine => seat'[x] = seat[x] /\ account'[x] = account[x]
         /\ \A x \in Seats : x[1] \in Apps /\ app'[x[1]].room = app[x[1]].room
         /\ \A q : q # r => Active(q)' \subseteq Active(q)
         /\ Active(r)' \subseteq Active(r) \cup mine
         /\ \A v, q : Elsewhere(v, q)' =>
              Elsewhere(v, q) \/ (v \in DOMAIN seen /\ q # r)
<1>0. DataTypes /\ a \in Apps /\ app[a].status \in Pending /\ r = app[a].room
  BY DEF Data, Decided
<1>1. mine \subseteq Seats /\ \A x \in mine : x[1] = a /\ x[2] \in DOMAIN seen
  BY DEF Decided
<1>2. \A x \in Seats : seat[x] # "NONE" => x[1] # a /\ x \notin mine
  BY <1>0, <1>1 DEF Data, Seated
<1>3. /\ \A x \in mine : seat'[x] = "ACTIVE" /\ account'[x] = seen[x[2]]
      /\ \A x \in Seats : x \notin mine => seat'[x] = seat[x] /\ account'[x] = account[x]
  BY <1>1 DEF Accepted, Decided
<1>4. \A x \in Seats : x[1] \in Apps /\ app'[x[1]].room = app[x[1]].room
  BY <1>0, AcceptedApps DEF Seats
<1>5. \A q : q # r => Active(q)' \subseteq Active(q)
  BY <1>0, <1>1, <1>3, <1>4 DEF Active
<1>6. Active(r)' \subseteq Active(r) \cup mine
  BY <1>3, <1>4 DEF Active
<1>7. \A v, q : Elsewhere(v, q)' => Elsewhere(v, q) \/ (v \in DOMAIN seen /\ q # r)
  BY <1>0, <1>1, <1>3, <1>4 DEF Elsewhere
<1>8. QED BY <1>1, <1>2, <1>3, <1>4, <1>5, <1>6, <1>7

\* An acceptance keeps what rows say of each other.
LEMMA AcceptedData ==
  ASSUME Data, NEW s, NEW a, NEW r, NEW seen, NEW mine, Decided(s, a, r, seen, mine),
         Accepted(s, a, mine)
  PROVE  Data'
<1>0. DataTypes /\ a \in Apps /\ app[a].status \in Pending /\ r = app[a].room
  BY DEF Data, Decided
<1>1. /\ mine \subseteq Seats /\ \A x \in mine : x[1] = a /\ x[2] \in DOMAIN seen
      /\ \A x \in Seats : seat[x] # "NONE" => x[1] # a /\ x \notin mine
      /\ \A x \in mine : seat'[x] = "ACTIVE" /\ account'[x] = seen[x[2]]
      /\ \A x \in Seats : x \notin mine => seat'[x] = seat[x] /\ account'[x] = account[x]
      /\ \A x \in Seats : x[1] \in Apps /\ app'[x[1]].room = app[x[1]].room
      /\ \A q : q # r => Active(q)' \subseteq Active(q)
      /\ Active(r)' \subseteq Active(r) \cup mine
      /\ \A v, q : Elsewhere(v, q)' => Elsewhere(v, q) \/ (v \in DOMAIN seen /\ q # r)
  BY AcceptedSeats
<1>2. /\ app' \in [Apps -> [status : AppStatus, room : Rooms \cup {Nil}, owner : Owners,
                            users : Snapshots]]
      /\ \A b \in Apps :
           /\ app'[b].room = app[b].room /\ app'[b].owner = app[b].owner
           /\ app'[b].users = app[b].users
           /\ b = a => app'[b].status = "ACCEPTED"
           /\ b # a /\ b \in tx[s].taken => app'[b].status = "WITHDRAWN"
           /\ b # a /\ b \notin tx[s].taken => app'[b].status = app[b].status
  BY <1>0, AcceptedApps
<1>3. /\ UNCHANGED <<party, member, room>>
      /\ stale' = stale \cup {x \in mine : seen[x[2]] # app[a].users[x[2]]}
  BY DEF Accepted, Decided
<1>4. /\ \A m \in DOMAIN seen : seen[m] \in Accounts
      /\ \A m \in Users \cap DOMAIN seen : seen[m] = m
      /\ DOMAIN seen = DOMAIN app[a].users /\ r \in Rooms /\ room[r] = "OPEN"
      /\ \A u \in Known(seen) : ~Elsewhere(u, r)
      /\ \A b \in tx[s].taken :
           b \in Apps /\ app[b].status # "NONE" /\ (app[b].status = "ACCEPTED" => b \in Tangled)
  BY SnapshotFacts DEF Decided
<1>5. DataTypes'
  <2>1. seat' \in [Seats -> SeatStatus] BY <1>0 DEF Accepted, DataTypes, SeatStatus
  <2>2. account' \in [Seats -> Accounts]
    <3>1. account' = [x \in Seats |-> account'[x]] BY DEF Accepted
    <3>2. \A x \in Seats : account'[x] \in Accounts BY <1>0, <1>1, <1>4 DEF DataTypes
    <3>3. QED BY <3>1, <3>2
  <2>3. stale' \subseteq Seats BY <1>0, <1>1, <1>3 DEF DataTypes
  <2>4. QED BY <1>0, <1>2, <1>3, <2>1, <2>2, <2>3 DEF DataTypes
<1>6. Accounted' BY <1>1, <1>2, <1>3, <1>4 DEF Data, Accounted
<1>7. Seated'
  <2>1. \A b \in Apps : app'[b].status # "NONE" => app'[b].room \in Rooms
    BY <1>0, <1>2, <1>4 DEF Data, Seated, Pending
  <2>2. \A x \in Seats : seat'[x] # "NONE" =>
          /\ app'[x[1]].status \notin {"NONE"} \cup Pending
          /\ x[2] \in DOMAIN app'[x[1]].users
    <3> TAKE x \in Seats
    <3>1. CASE x \in mine BY <1>0, <1>1, <1>2, <1>4, <3>1 DEF Pending
    <3>2. CASE x \notin mine
      <4>1. seat'[x] = seat[x] BY <1>1, <3>2
      <4>2. QED BY <1>1, <1>2, <4>1 DEF Data, Seated, Pending
    <3>3. QED BY <3>1, <3>2
  <2>3. \A x \in Seats : seat'[x] = "ACTIVE" => room'[app'[x[1]].room] = "OPEN"
    BY <1>0, <1>1, <1>3, <1>4 DEF Data, Seated
  <2>4. QED BY <2>1, <2>2, <2>3 DEF Seated
<1>8. PartyFollows' BY <1>3 DEF Data, PartyFollows, StatusOfParty, CanPartyBeReady
<1>9. FrozenComposition'
  <2>1. Snapshot(Party)' = Snapshot(Party) /\ CanPartyBeReady(member)' = CanPartyBeReady(member)
    BY <1>3 DEF Snapshot, InParty, CanPartyBeReady
  <2>2. \A b \in Apps : app'[b].status \in ActiveApp => app[b].status \in ActiveApp
    BY <1>0, <1>2 DEF ActiveApp, Pending
  <2>3. QED BY <1>2, <2>1, <2>2 DEF Data, FrozenComposition
<1>10. SeatsFollowAnswers'
  <2> SUFFICES ASSUME NEW x \in Seats, seat'[x] # "NONE"
               PROVE  /\ x \notin stale' => account'[x] = app'[x[1]].users[x[2]]
                      /\ x[1] \notin Tangled' => app'[x[1]].status = "ACCEPTED"
    BY DEF SeatsFollowAnswers
  <2>1. CASE x \in mine BY <1>0, <1>1, <1>2, <1>3, <2>1
  <2>2. CASE x \notin mine
    <3>1. seat[x] # "NONE" /\ account'[x] = account[x] /\ x[1] # a BY <1>1, <2>2
    <3>2. /\ x \notin stale => account[x] = app[x[1]].users[x[2]]
          /\ x[1] \notin Tangled => app[x[1]].status = "ACCEPTED"
      BY <3>1 DEF Data, SeatsFollowAnswers
    <3>3. Tangled \subseteq Tangled' BY <1>3 DEF Tangled
    <3>4. x[1] \notin Tangled => x[1] \notin tx[s].taken BY <1>4, <3>2
    <3>5. QED BY <1>1, <1>2, <1>3, <3>1, <3>2, <3>3, <3>4
  <2>3. QED BY <2>1, <2>2
<1>11. OneRoomEach'
  <2> SUFFICES ASSUME NEW x \in Seats, x[2] \in Users, seat'[x] = "ACTIVE",
                      Elsewhere(x[2], app[x[1]].room)'
               PROVE  FALSE
    BY DEF OneRoomEach
  <2>1. app'[x[1]].room = app[x[1]].room BY <1>1
  <2>2. PICK y \in Seats : y[2] = x[2] /\ seat'[y] = "ACTIVE" /\ app'[y[1]].room # app'[x[1]].room
    BY DEF Elsewhere
  <2>3. app'[y[1]].room = app[y[1]].room BY <1>1
  <2>4. CASE x \notin mine /\ y \notin mine
    BY <1>1, <2>1, <2>2, <2>3, <2>4 DEF Data, OneRoomEach, Elsewhere
  <2>5. x[2] \in DOMAIN seen => ~Elsewhere(x[2], r)
    <3>1. Users \cap {Nil} = {} BY TransactionsAssumption
    <3>2. x[2] \in DOMAIN seen => x[2] \in Known(seen) BY <1>4, <3>1 DEF Known
    <3>3. QED BY <1>4, <3>2
  <2>6. CASE x \in mine /\ y \notin mine
    <3>1. seat[y] = "ACTIVE" /\ app[y[1]].room # r BY <1>0, <1>1, <2>1, <2>2, <2>3, <2>6
    <3>2. QED BY <1>1, <2>2, <2>5, <2>6, <3>1 DEF Elsewhere
  <2>7. CASE x \notin mine /\ y \in mine
    <3>1. seat[x] = "ACTIVE" /\ app[x[1]].room # r BY <1>0, <1>1, <2>1, <2>2, <2>3, <2>7
    <3>2. QED BY <1>1, <2>2, <2>5, <2>7, <3>1 DEF Elsewhere
  <2>8. CASE x \in mine /\ y \in mine BY <1>1, <2>2, <2>8
  <2>9. QED BY <2>4, <2>6, <2>7, <2>8
<1>12. SlotsAreNotOversold'
  <2> SUFFICES ASSUME NEW q \in Rooms PROVE AvailablePublicSlots(q)' >= 0
    BY DEF SlotsAreNotOversold
  <2>1. CASE q = r BY <1>1, <2>1, AcceptedFits
  <2>2. CASE q # r
    <3>1. Active(q)' \subseteq Active(q) BY <1>1, <2>2
    <3>2. AvailablePublicSlots(q) >= 0 /\ AvailablePublicSlots(q) \in Int
      BY SlotsFacts DEF Data, SlotsAreNotOversold
    <3>3. AvailablePublicSlots(q)' \in Int
      <4>1. IsFiniteSet(Active(q)') BY <3>1, SlotsFacts, FS_Subset
      <4>2. QED BY <4>1, FS_CardinalityType, TransactionsAssumption DEF AvailablePublicSlots
    <3>4. QED BY <3>1, <3>2, <3>3, SlotsGrow
  <2>3. QED BY <2>1, <2>2
<1>13. QED BY <1>5, <1>6, <1>7, <1>8, <1>9, <1>10, <1>11, <1>12 DEF Data

\* Nor does it disturb the commands beside it: those that rely on its room, its
\* players or its applications wait for the locks it has.
LEMMA AcceptedBeside ==
  ASSUME IInv, NEW s \in Sessions, NEW a, NEW r, NEW seen, NEW mine,
         Decided(s, a, r, seen, mine), Accepted(s, a, mine), \A l \in tx[s].want : Free(l),
         NEW t \in Sessions, t # s
  PROVE  Beside(t)
<1>0. /\ Data /\ DataTypes /\ Exclusion /\ Under(t) /\ SessionTypes
      /\ a \in Apps /\ app[a].status \in Pending /\ r = app[a].room
  BY DEF IInv, Data, Decided
<1>1. /\ mine \subseteq Seats /\ \A x \in mine : x[1] = a /\ x[2] \in DOMAIN seen
      /\ \A x \in Seats : seat[x] # "NONE" => x[1] # a /\ x \notin mine
      /\ \A x \in mine : seat'[x] = "ACTIVE" /\ account'[x] = seen[x[2]]
      /\ \A x \in Seats : x \notin mine => seat'[x] = seat[x] /\ account'[x] = account[x]
      /\ \A x \in Seats : x[1] \in Apps /\ app'[x[1]].room = app[x[1]].room
      /\ \A q : q # r => Active(q)' \subseteq Active(q)
      /\ Active(r)' \subseteq Active(r) \cup mine
      /\ \A v, q : Elsewhere(v, q)' => Elsewhere(v, q) \/ (v \in DOMAIN seen /\ q # r)
  BY <1>0, AcceptedSeats
<1>2. \A b \in Apps :
        /\ app'[b].room = app[b].room /\ app'[b].owner = app[b].owner
        /\ app'[b].users = app[b].users
        /\ b = a => app'[b].status = "ACCEPTED"
        /\ b # a /\ b \in tx[s].taken => app'[b].status = "WITHDRAWN"
        /\ b # a /\ b \notin tx[s].taken => app'[b].status = app[b].status
  BY <1>0, AcceptedApps
<1>3. /\ UNCHANGED <<party, member, room>>
      /\ stale' = stale \cup {x \in mine : seen[x[2]] # app[a].users[x[2]]}
      /\ Tangled \subseteq Tangled'
  BY DEF Accepted, Decided, Tangled
<1>4. /\ AppLock(a) \notin held[t] /\ RoomLock(r) \notin held[t]
      /\ \A u \in Known(seen) : ScheduleLock(u) \notin held[t]
      /\ \A b \in tx[s].taken : AppLock(b) \notin held[t] /\ app[b].status # "NONE"
  BY <1>0, Others DEF Decided
<1>5. ASSUME tx[t].op = "accept", a \in tx[t].taken
      PROVE  a \in Tangled'
  <2>1. tx[t].step = "overlaps"
        /\ (\A u \in Known(tx[t].seen) : ScheduleLock(u) \in held[t])
        /\ Known(tx[t].seen) \cap Known(app[a].users) # {}
    <3>1. tx[t].step \in {"schedules", "overlaps"} => tx[t].step = "overlaps"
      BY <1>0, <1>5 DEF Under, Accepting
    <3>2. tx[t].step = "overlaps" BY <1>0, <1>5, <3>1 DEF Under, Accepting
    <3>3. Checked(t) = Known(tx[t].seen) BY <3>2 DEF Checked
    <3>4. QED BY <1>0, <1>5, <3>2, <3>3 DEF Under, Accepting
  <2>2. PICK u : u \in Known(tx[t].seen) /\ u \in Known(app[a].users) BY <2>1
  <2>3. u \notin Known(seen) /\ u # Nil BY <1>4, <2>1, <2>2 DEF Known
  <2>4. PICK m \in DOMAIN app[a].users : u = app[a].users[m] BY <2>2 DEF Known
  <2>5. m \in DOMAIN seen /\ DOMAIN seen \subseteq Rows /\ seen \in Snapshots
    BY <2>4, SnapshotFacts DEF Decided
  <2>6. seen[m] # u BY <2>3, <2>5 DEF Known
  <2>7. <<a, m>> \in mine /\ <<a, m>>[2] = m /\ <<a, m>>[1] = a
    BY <1>0, <2>5 DEF Decided, Seats
  <2>8. <<a, m>> \in stale' BY <1>3, <2>4, <2>6, <2>7
  <2>9. QED BY <2>7, <2>8 DEF Tangled
<1>6. \A b \in Apps :
        app'[b].status # app[b].status =>
          /\ AppLock(b) \notin held[t] /\ app[b].status # "NONE"
          /\ app'[b].status \notin {"NONE"} \cup Pending
          /\ app'[b].status = "ACCEPTED" =>
               /\ app[b].status \in Pending
               /\ tx[t].op = "accept" /\ b \in tx[t].taken => b \in Tangled'
  <2> TAKE b \in Apps
  <2>1. CASE b = a BY <1>0, <1>2, <1>4, <1>5, <2>1 DEF Pending
  <2>2. CASE b # a BY <1>2, <1>4, <2>2 DEF Pending
  <2>3. QED BY <2>1, <2>2
<1>7. \A x \in Seats : seat[x] # "NONE" => seat'[x] # "NONE" BY <1>1
<1>8. \A q \in Rooms : RoomLock(q) \in held[t] => room'[q] = room[q] /\ Active(q)' \subseteq Active(q)
  BY <1>1, <1>3, <1>4
<1>9. \A u \in Users : \A q : ScheduleLock(u) \in held[t] /\ Elsewhere(u, q)' => Elsewhere(u, q)
  <2>1. \A u \in Users \cap DOMAIN seen : u \in Known(seen)
    BY TransactionsAssumption DEF Decided, Known
  <2>2. QED BY <1>1, <1>4, <2>1
<1>10. QED BY <1>2, <1>3, <1>6, <1>7, <1>8, <1>9 DEF Beside

\* An acceptance keeps the invariant at each of its statements.
LEMMA AcceptApplicationKept ==
  ASSUME IInv, NEW s \in Sessions, AcceptApplication(s)
  PROVE  Kept(s)
<1>1. ASSUME NEW a \in Apps, app[a].status \in Pending,
             Start(s, "accept", a, AppLock(a), "room", RoomToLock(a))
      PROVE  Kept(s)
  <2>1. /\ Moves(s) /\ UNCHANGED data /\ tx'[s].op = "accept" /\ tx'[s].arg = a
        /\ tx'[s].step = "room" /\ tx'[s].taken = {} /\ held'[s] = {AppLock(a)}
        /\ Locks(s)' = {AppLock(a)} \cup {RoomLock(app[a].room)}
    BY <1>1, StartEffect DEF IInv, RoomToLock
  <2>2. Answering(s)' BY <1>1, <2>1 DEF Answering, data
  <2>3. Accepting(s)' BY <2>1 DEF Accepting, data
  <2>4. QED BY <2>1, <2>2, <2>3, QuietKept, UnderOfKind
<1>2. CASE /\ At(s, "accept", "room")
           /\ LET users == app[tx[s].arg].users IN
              IF room[app[tx[s].arg].room] # "OPEN" THEN Abort(s)
              ELSE Continue(s, [tx[s] EXCEPT !.step = "schedules",
                                             !.want = NextSchedule(Known(users)),
                                             !.seen = users, !.left = Known(users)])
  BY <1>2, AbortKept, AcceptRoomKept
<1>3. CASE /\ At(s, "accept", "schedules")
           /\ LET u == Least(tx[s].left)
                  rest == tx[s].left \ {u}
                  r == app[tx[s].arg].room
              IN  IF \/ HasActiveScheduleConflict(u, r)
                     \/ rest = {} /\ AvailablePublicSlots(r) < Cardinality(DOMAIN tx[s].seen)
                  THEN Abort(s)
                  ELSE IF rest # {}
                  THEN Continue(s, [tx[s] EXCEPT !.want = NextSchedule(rest), !.left = rest])
                  ELSE Continue(s, [tx[s] EXCEPT !.step = "overlaps", !.want = {},
                                                 !.left = Known(tx[s].seen)])
  BY <1>3, AbortKept, AcceptScheduleKept
<1>4. CASE /\ At(s, "accept", "overlaps") /\ tx[s].left # {}
           /\ LET u == Least(tx[s].left)  found == Candidates(tx[s].arg, u) \ tx[s].taken  IN
              Continue(s, [tx[s] EXCEPT !.want = {AppLock(b) : b \in found},
                                        !.left = tx[s].left \ {u},
                                        !.taken = tx[s].taken \cup found])
  BY <1>4, AcceptOverlapKept
<1> DEFINE mine == {x \in Seats : x[1] = tx[s].arg /\ x[2] \in DOMAIN tx[s].seen}
<1>5. ASSUME At(s, "accept", "overlaps"), Accepted(s, tx[s].arg, mine), Release(s)
      PROVE  Kept(s)
  <2>1. tx[s].op = "accept" /\ tx[s].step = "overlaps" /\ \A l \in tx[s].want : Free(l)
    BY <1>5 DEF At
  <2>2. PICK own : own = mine OBVIOUS
  <2>3. PICK a : a = tx[s].arg OBVIOUS
  <2>4. PICK r, seen : r = app[tx[s].arg].room /\ seen = tx[s].seen OBVIOUS
  <2>5. Decided(s, a, r, seen, own)
    BY <2>1, <2>2, <2>3, <2>4, AcceptedIsDecided
  <2>6. Accepted(s, a, own) BY <1>5, <2>2, <2>3
  <2>7. Data' BY <2>5, <2>6, AcceptedData DEF IInv
  <2>8. ASSUME NEW t \in Sessions, t # s, tx'[t] = tx[t], held'[t] = held[t]
        PROVE  Under(t)'
    <3>1. Beside(t) BY <2>1, <2>5, <2>6, <2>8, AcceptedBeside
    <3>2. QED BY <2>8, <3>1, BesideUnder DEF IInv
  <2>9. QED BY <1>5, <2>7, <2>8, CommitKept
<1>6. QED BY <1>1, <1>2, <1>3, <1>4, <1>5 DEF AcceptApplication, Accepted

-----------------------------------------------------------------------------
(* Every step. *)

\* Commands of a single statement leave every session where it is.
LEMMA ShortCommandKept ==
  ASSUME IInv, ShortCommand
  PROVE  UNCHANGED <<tx, held>> /\ Data' /\ \A t \in Sessions : Under(t)'
<1>1. ASSUME NEW u, NEW from, NEW to, Befriend(u, from, to)
      PROVE  UNCHANGED <<tx, held>> /\ Data' /\ \A t \in Sessions : Under(t)'
  <2>1. UNCHANGED <<tx, held>> /\ UNCHANGED rows BY <1>1 DEF Befriend, rows
  <2>2. QED BY <2>1, DataKept, UnderKept DEF IInv
<1>2. ASSUME NEW u \in Singles, ApplyAlone(u)
      PROVE  UNCHANGED <<tx, held>> /\ Data' /\ \A t \in Sessions : Under(t)'
  <2>1. PICK a \in Apps, r \in Rooms :
          Free(RoomLock(r)) /\ InsertApplication(a, r, u) /\ UNCHANGED <<tx, held>>
    BY <1>2 DEF ApplyAlone
  <2>2. u # Party BY TransactionsAssumption
  <2>3. Data' BY <2>1, <2>2, InsertedData DEF IInv
  <2>4. ASSUME NEW t \in Sessions PROVE Under(t)'
    <3>1. RoomLock(r) \notin held[t] BY <2>1 DEF Free
    <3>2. QED BY <2>1, <2>2, <3>1, InsertedUnder
  <2>5. QED BY <2>1, <2>3, <2>4
<1>3. ASSUME NEW a \in Apps, WithdrawApplication(a)
      PROVE  UNCHANGED <<tx, held>> /\ Data' /\ \A t \in Sessions : Under(t)'
  <2>1. /\ Free(AppLock(a)) /\ app[a].status \in Pending /\ Resolve(a, "WITHDRAWN")
        /\ UNCHANGED <<tx, held>>
    BY <1>3 DEF WithdrawApplication
  <2>2. Data' /\ \A t \in Sessions : Beside(t)
    BY <2>1, ResolveEffect DEF IInv, Free
  <2>3. QED BY <2>1, <2>2, BesideUnder DEF IInv
<1>4. QED
  BY <1>1, <1>2, <1>3 DEF ShortCommand, RequestFriendship, RespondFriendship

\* A statement of a session, whether it commits or not.
LEMMA StatementKept ==
  ASSUME IInv, NEW s \in Sessions, Statement(s)
  PROVE  Kept(s)
BY AddMemberKept, RespondMemberKept, RemoveMemberKept, ClaimGuestKept, ApplyWithPartyKept,
   RejectApplicationKept, AcceptApplicationKept, RemoveParticipantKept,
   CancelParticipantKept, CancelRoomKept
DEF Statement

\* The invariant is inductive.
LEMMA NextInv == IInv /\ [Next]_vars => IInv'
<1> SUFFICES ASSUME IInv, [Next]_vars PROVE IInv'
  OBVIOUS
<1>1. ASSUME UNCHANGED <<tx, held>>, Data', \A t \in Sessions : Under(t)'
      PROVE  IInv'
  BY <1>1 DEF IInv, SessionTypes, Exclusion
<1>2. ASSUME NEW s \in Sessions, Kept(s) PROVE IInv'
  <2>1. SessionTypes' /\ Exclusion' BY <1>2, MovesExclusion DEF Kept, Moves, IInv
  <2>2. QED BY <1>2, <2>1 DEF Kept, IInv
<1>3. CASE ShortCommand BY <1>1, <1>3, ShortCommandKept
<1>4. ASSUME NEW s \in Sessions, Statement(s) \/ Acquire(s) \/ BreakDeadlock(s) PROVE IInv'
  BY <1>2, <1>4, StatementKept, AcquireKept, AbortKept DEF BreakDeadlock
<1>5. CASE UNCHANGED vars
  <2>1. UNCHANGED <<tx, held>> /\ UNCHANGED rows BY <1>5 DEF vars, data, rows
  <2>2. QED BY <1>1, <2>1, DataKept, UnderKept DEF IInv
<1>6. QED BY <1>3, <1>4, <1>5 DEF Next

\* Nothing has been asked for yet, and the owner is a party by himself.
LEMMA InitInv == Init => IInv
<1> SUFFICES ASSUME Init PROVE IInv
  OBVIOUS
<1>1. \A s \in Sessions : tx[s] = Idle /\ held[s] = {} BY DEF Init
<1>2. SessionTypes BY <1>1, IdleRow DEF Init, SessionTypes
<1>3. Exclusion BY <1>1 DEF Exclusion
<1>4. \A s \in Sessions : Under(s)
  BY <1>1, IdleRow DEF Under, Editing, Claiming, Filing, Answering, Accepting, Removing, Closing
<1>5. /\ \A m \in Rows : /\ member[m].status \in {"CONFIRMED", "NONE"}
                         /\ m = Owner => member[m].status = "CONFIRMED" /\ member[m].user = Owner
                         /\ m # Owner => member[m].status = "NONE" /\ member[m].user = Nil
      /\ \A a \in Apps : app[a] = NoApp
      /\ \A x \in Seats : seat[x] = "NONE" /\ account[x] = Nil
      /\ party = "READY" /\ stale = {}
  BY DEF Init, InitialTables
<1>6. NoApp.status = "NONE" /\ NoApp.users = <<>> /\ NoApp.owner = Nil /\ NoApp.room = Nil
  BY DEF NoApp
<1>7. DataTypes
  <2>1. <<>> \in Snapshots BY IdleRow DEF Idle
  <2>2. NoApp \in [status : AppStatus, room : Rooms \cup {Nil}, owner : Owners,
                   users : Snapshots]
    BY <2>1 DEF NoApp, AppStatus, Owners, Accounts
  <2>3. member \in [Rows -> [status : MemberStatus, user : Accounts]]
    BY TransactionsAssumption DEF Init, InitialTables, MemberStatus, Present, Accounts
  <2>4. QED BY <2>2, <2>3 DEF Init, InitialTables, DataTypes, SeatStatus, Accounts
<1>8. Accounted
  <2>1. DOMAIN <<>> = {} OBVIOUS
  <2>2. Owner \in Users /\ Users \cap Guests = {} BY TransactionsAssumption
  <2>3. QED BY <1>5, <1>6, <2>1, <2>2 DEF Accounted, Present, Rows
<1>9. Seated BY <1>5, <1>6 DEF Seated
<1>10. CanPartyBeReady(member) BY <1>5 DEF CanPartyBeReady
<1>11. PartyFollows BY <1>5, <1>10 DEF PartyFollows, StatusOfParty
<1>12. FrozenComposition BY <1>5, <1>6 DEF FrozenComposition, ActiveApp, Pending
<1>13. SeatsFollowAnswers /\ OneRoomEach BY <1>5 DEF SeatsFollowAnswers, OneRoomEach
<1>14. SlotsAreNotOversold
  <2>1. \A r : Active(r) = {} BY <1>5 DEF Active
  <2>2. QED BY <2>1, FS_EmptySet, TransactionsAssumption
    DEF SlotsAreNotOversold, AvailablePublicSlots
<1>15. QED BY <1>2, <1>3, <1>4, <1>7, <1>8, <1>9, <1>11, <1>12, <1>13, <1>14 DEF IInv, Data

-----------------------------------------------------------------------------
(* What interleaved commands keep, always. *)

\* So the invariant always holds.
LEMMA Inductive == Spec => []IInv
<1>1. QED BY InitInv, NextInv, PTL DEF Spec

\* Tables and sessions hold values of their columns.
THEOREM TransactionsTyped == Spec => []TypeOK
<1>1. IInv => TypeOK BY DEF IInv, Data, TypeOK
<1>2. QED BY <1>1, Inductive, PTL

\* However many commands run, no row is ever locked by two of them.
THEOREM LocksAreExclusive == Spec => []Exclusion
<1>1. IInv => Exclusion BY DEF IInv
<1>2. QED BY <1>1, Inductive, PTL

\* While an application of the party is live, the party is the one the host
\* reviews, and everybody in it has confirmed: whoever edits it holds its row and
\* has found nothing filed, whoever files holds its row as well, and a claim
\* reaches members and snapshots in one commit.
THEOREM ReviewedPartyStandsStill == Spec => []FrozenComposition
<1>1. IInv => FrozenComposition BY DEF IInv, Data
<1>2. QED BY <1>1, Inductive, PTL

\* A seat has the account of its member, and an accepted application behind it,
\* except for those a claim and an acceptance, side by side, left behind: an
\* acceptance that takes back an application somebody else accepts meanwhile has
\* read an older snapshot than it, since the schedules of both are locked.
THEOREM SeatsFollow == Spec => []SeatsFollowAnswers
<1>1. IInv => SeatsFollowAnswers BY DEF IInv, Data
<1>2. QED BY <1>1, Inductive, PTL

\* Nobody is accepted as himself into two rooms at the same hours, for any number
\* of hosts who accept at once: each holds the schedules it has checked until its
\* seats are written.
THEOREM SchedulesAreDisjoint == Spec => []AcceptedSchedulesAreDisjoint
<1>1. IInv => AcceptedSchedulesAreDisjoint
  <2> SUFFICES ASSUME IInv, NEW x \in Seats, NEW y \in Seats,
                      seat[x] = "ACTIVE", seat[y] = "ACTIVE", account[x] = account[y],
                      app[x[1]].room # app[y[1]].room, x[2] \notin Guests, y[2] \notin Guests
               PROVE  FALSE
    BY DEF AcceptedSchedulesAreDisjoint
  <2>1. x[2] \in Users /\ y[2] \in Users BY DEF Seats, Rows
  <2>2. account[x] = x[2] /\ account[y] = y[2] BY <2>1 DEF IInv, Data, Accounted
  <2>3. Elsewhere(x[2], app[x[1]].room) BY <2>2 DEF Elsewhere
  <2>4. QED BY <2>1, <2>3 DEF IInv, Data, OneRoomEach
<1>2. QED BY <1>1, Inductive, PTL

\* Acceptances that run side by side never seat more than a room holds: each
\* counts and writes under the room's row.
THEOREM RoomsHoldTheirSeats == Spec => []SlotsAreNotOversold
<1>1. IInv => SlotsAreNotOversold BY DEF IInv, Data
<1>2. QED BY <1>1, Inductive, PTL

-----------------------------------------------------------------------------
(* The order of the locks. *)

\* The tables and registers locks belong to.
Kinds(locks) == {l[1] : l \in locks}

\* Whoever edits the party holds it.
EditingOrder(s) ==
  tx[s].op \in {"add", "respond", "drop"} =>
    /\ PartyLock \in held[s] /\ Kinds(held[s]) \subseteq {"party", "member", "friendship"}
    /\ Kinds(tx[s].want) \subseteq {"member", "friendship"}

\* So does a claim, once it locks the other members.
ClaimingOrder(s) ==
  tx[s].op = "claim" =>
    /\ tx[s].step \in {"party", "members", "seats"}
    /\ tx[s].step = "party" => PartyLock \in Locks(s) /\ Kinds(Locks(s)) \subseteq {"party", "member"}
    /\ tx[s].step = "members" =>
         /\ PartyLock \in held[s] /\ Kinds(held[s]) \subseteq {"party", "member"}
         /\ Kinds(tx[s].want) \subseteq {"member"}

\* Whoever files for the party locks the room, the party and then its members.
FilingOrder(s) ==
  tx[s].op = "apply" =>
    /\ tx[s].step \in {"party", "members"}
    /\ tx[s].step = "party" =>
         /\ PartyLock \in Locks(s) /\ Kinds(held[s]) \subseteq {"room"}
         /\ tx[s].want \subseteq {PartyLock}
    /\ tx[s].step = "members" =>
         /\ PartyLock \in held[s] /\ Kinds(held[s]) \subseteq {"room", "party", "member"}
         /\ Kinds(tx[s].want) \subseteq {"member"}

AsksForRoom(s) ==
  \/ tx[s].op \in {"reject", "remove"}
  \/ tx[s].op \in {"accept", "leave"} /\ tx[s].step = "room"

\* Whoever answers, removes or leaves asks for one room, and has none.
RoomOrder(s) ==
  /\ tx[s].op = "leave" => tx[s].step \in {"room", "guests"}
  /\ AsksForRoom(s) =>
       /\ Kinds(held[s]) \subseteq {"application", "participant"}
       /\ \E q : tx[s].want \subseteq {RoomLock(q)}

\* An acceptance asks for the schedule of one player, and has those of players
\* before him.
ScheduleOrder(s) ==
  /\ tx[s].op = "accept" => tx[s].step \in {"room", "schedules", "overlaps"}
  /\ tx[s].op = "accept" /\ tx[s].step = "schedules" =>
       /\ Kinds(held[s]) \subseteq {"application", "participant", "room", "schedule"}
       /\ tx[s].want \subseteq NextSchedule(tx[s].left)
       /\ \A l \in held[s] : l[1] = "schedule" =>
            \E u \in Users : l = ScheduleLock(u) /\ \A v \in tx[s].left : u < v

Ordered(s) ==
  /\ tx[s].op \in {"NONE", "add", "respond", "drop", "claim", "apply", "reject", "accept",
                   "remove", "leave", "cancel"}
  /\ tx[s].op = "NONE" => tx[s].want = {}
  /\ EditingOrder(s) /\ ClaimingOrder(s) /\ FilingOrder(s) /\ RoomOrder(s) /\ ScheduleOrder(s)

\* The inductive invariant about waiting.
OrderInv == SessionTypes /\ \A s \in Sessions : Ordered(s)

\* Kinds of sets of locks are computed set by set.
LEMMA KindsFacts ==
  /\ \A A, B : Kinds(A \cup B) = Kinds(A) \cup Kinds(B) /\ Kinds(A \ B) \subseteq Kinds(A)
  /\ \A l : Kinds({l}) = {l[1]}
  /\ Kinds({}) = {} /\ Kinds(MemberLocks) \subseteq {"member"}
  /\ Kinds({PartyLock}) = {"party"} /\ \A m : Kinds({MemberLock(m)}) = {"member"}
  /\ \A u : Kinds({FriendLock(u)}) = {"friendship"} /\ \A r : Kinds({RoomLock(r)}) = {"room"}
  /\ \A a : Kinds({AppLock(a)}) = {"application"}
  /\ \A x : Kinds({SeatLock(x)}) = {"participant"}
  /\ \A u : Kinds({ScheduleLock(u)}) = {"schedule"}
BY DEF Kinds, MemberLocks, PartyLock, MemberLock, FriendLock, RoomLock, AppLock, SeatLock,
       ScheduleLock

\* A command has to keep the order of its own kind.
LEMMA OrderOfKind ==
  ASSUME NEW s
  PROVE  /\ tx'[s].op = "NONE" /\ tx'[s].want = {} => Ordered(s)'
         /\ tx'[s].op \in {"add", "respond", "drop"} /\ EditingOrder(s)' => Ordered(s)'
         /\ tx'[s].op = "claim" /\ ClaimingOrder(s)' => Ordered(s)'
         /\ tx'[s].op = "apply" /\ FilingOrder(s)' => Ordered(s)'
         /\ tx'[s].op \in {"reject", "remove", "leave"} /\ RoomOrder(s)' => Ordered(s)'
         /\ tx'[s].op = "accept" /\ RoomOrder(s)' /\ ScheduleOrder(s)' => Ordered(s)'
         /\ tx'[s].op = "cancel" => Ordered(s)'
BY DEF Ordered, EditingOrder, ClaimingOrder, FilingOrder, RoomOrder, AsksForRoom, ScheduleOrder

\* A session that ends its command asks for nothing.
LEMMA ReleaseOrder ==
  ASSUME OrderInv, NEW s \in Sessions, Release(s)
  PROVE  Moves(s) /\ Ordered(s)'
BY ReleaseEffect, OrderOfKind DEF OrderInv

\* One more lock leaves fewer to ask for.
LEMMA AcquireOrder ==
  ASSUME OrderInv, NEW s \in Sessions, Acquire(s)
  PROVE  Moves(s) /\ Ordered(s)'
<1>1. /\ Moves(s) /\ tx'[s].op = tx[s].op /\ tx'[s].arg = tx[s].arg
      /\ tx'[s].step = tx[s].step /\ tx'[s].left = tx[s].left
      /\ held[s] \subseteq held'[s] /\ Locks(s)' = Locks(s)
      /\ \E l \in tx[s].want :
           tx[s].want # {l} /\ held'[s] = held[s] \cup {l} /\ tx'[s].want = tx[s].want \ {l}
  BY AcquireEffect DEF OrderInv
<1>2. PICK l \in tx[s].want :
        tx[s].want # {l} /\ held'[s] = held[s] \cup {l} /\ tx'[s].want = tx[s].want \ {l}
  BY <1>1
<1>3. l[1] \in Kinds(tx[s].want) /\ \A x : ~(tx[s].want \subseteq {x}) BY <1>2 DEF Kinds
<1>4. Kinds(held'[s]) = Kinds(held[s]) \cup {l[1]} /\ Kinds(tx'[s].want) \subseteq Kinds(tx[s].want)
  BY <1>2 DEF Kinds
<1>5. Ordered(s) /\ tx[s].op # "NONE" BY <1>2 DEF OrderInv, Ordered
<1>6. EditingOrder(s)'
  BY <1>1, <1>3, <1>4, <1>5 DEF Ordered, EditingOrder
<1>7. ClaimingOrder(s)'
  <2>1. Kinds(Locks(s))' = Kinds(Locks(s)) BY <1>1 DEF Kinds
  <2>2. QED BY <1>1, <1>3, <1>4, <1>5, <2>1 DEF Ordered, ClaimingOrder
<1>8. FilingOrder(s)' BY <1>1, <1>3, <1>4, <1>5 DEF Ordered, FilingOrder
<1>9. RoomOrder(s)' BY <1>1, <1>3, <1>5 DEF Ordered, RoomOrder, AsksForRoom
<1>10. ScheduleOrder(s)' BY <1>1, <1>3, <1>5 DEF Ordered, ScheduleOrder, NextSchedule
<1>11. QED BY <1>1, <1>5, <1>6, <1>7, <1>8, <1>9, <1>10 DEF Ordered

\* A command that edits the party.
LEMMA EditingKeepsOrder ==
  ASSUME OrderInv, NEW s \in Sessions, AddMember(s) \/ RespondMember(s) \/ RemoveMember(s)
  PROVE  Moves(s) /\ Ordered(s)'
<1>1. ASSUME NEW op \in {"add", "respond", "drop"}, NEW arg, NEW step, NEW locks,
             Start(s, op, arg, PartyLock, step, locks), Kinds(locks) \subseteq {"member"}
      PROVE  Moves(s) /\ Ordered(s)'
  <2>1. Moves(s) /\ tx'[s].op = op /\ tx'[s].want = locks /\ held'[s] = {PartyLock}
    BY <1>1, StartEffect DEF OrderInv
  <2>2. EditingOrder(s)' BY <1>1, <2>1, KindsFacts DEF EditingOrder
  <2>3. QED BY <2>1, <2>2, OrderOfKind
<1>2. ASSUME tx[s].op \in {"add", "respond", "drop"}, \A l \in tx[s].want : Free(l),
             NEW step, NEW locks, GoTo(s, step, locks),
             Kinds(locks) \subseteq {"member", "friendship"}
      PROVE  Moves(s) /\ Ordered(s)'
  <2>1. /\ Moves(s) /\ tx'[s].op = tx[s].op /\ tx'[s].want = locks \ Locks(s)
        /\ held'[s] = Locks(s)
    BY <1>2, GoToEffect DEF OrderInv
  <2>2. EditingOrder(s) BY DEF OrderInv, Ordered
  <2>3. Kinds(tx'[s].want) \subseteq {"member", "friendship"}
        /\ Kinds(held'[s]) = Kinds(held[s]) \cup Kinds(tx[s].want)
    BY <1>2, <2>1, KindsFacts DEF Locks
  <2>4. EditingOrder(s)' BY <1>2, <2>1, <2>2, <2>3 DEF EditingOrder, Locks
  <2>5. QED BY <1>2, <2>1, <2>4, OrderOfKind
<1>3. Kinds(MemberLocks) \subseteq {"member"}
      /\ \A m : Kinds({MemberLock(m)}) \subseteq {"member"}
      /\ \A f : Kinds({FriendLock(f)}) \subseteq {"friendship"}
  BY KindsFacts
<1>4. CASE AddMember(s)
  BY <1>1, <1>2, <1>3, <1>4, ReleaseOrder DEF AddMember, SaveMember, Abort, At
<1>5. CASE RespondMember(s)
  BY <1>1, <1>2, <1>3, <1>5, ReleaseOrder DEF RespondMember, SaveMember, Abort, At
<1>6. CASE RemoveMember(s)
  BY <1>1, <1>2, <1>3, <1>6, ReleaseOrder DEF RemoveMember, SaveMember, Abort, At
<1>7. QED BY <1>4, <1>5, <1>6

\* A claim locks its member before the party.
LEMMA ClaimKeepsOrder ==
  ASSUME OrderInv, NEW s \in Sessions, ClaimGuest(s)
  PROVE  Moves(s) /\ Ordered(s)'
<1>1. ASSUME NEW m, NEW u, Start(s, "claim", <<m, u>>, MemberLock(m), "party", {PartyLock})
      PROVE  Moves(s) /\ Ordered(s)'
  <2>1. /\ Moves(s) /\ tx'[s].op = "claim" /\ tx'[s].step = "party"
        /\ Locks(s)' = {MemberLock(m)} \cup {PartyLock}
    BY <1>1, StartEffect DEF OrderInv
  <2>2. \A l \in Locks(s)' : l[1] \in {"member", "party"}
    BY <2>1 DEF MemberLock, PartyLock
  <2>3. Kinds(Locks(s))' \subseteq {"member", "party"} BY <2>2 DEF Kinds
  <2>4. ClaimingOrder(s)' BY <2>1, <2>3 DEF ClaimingOrder
  <2>5. QED BY <2>1, <2>4, OrderOfKind
<1>2. ASSUME At(s, "claim", "party"), GoTo(s, "members", MemberLocks)
      PROVE  Moves(s) /\ Ordered(s)'
  <2>1. tx[s].op = "claim" /\ tx[s].step = "party" /\ \A l \in tx[s].want : Free(l)
    BY <1>2 DEF At
  <2>2. /\ Moves(s) /\ tx'[s].op = "claim" /\ tx'[s].step = "members"
        /\ held'[s] = Locks(s) /\ tx'[s].want = MemberLocks \ Locks(s)
    BY <1>2, <2>1, GoToEffect DEF OrderInv
  <2>3. PartyLock \in Locks(s) /\ Kinds(Locks(s)) \subseteq {"party", "member"}
    BY <2>1 DEF OrderInv, Ordered, ClaimingOrder
  <2>4. Kinds(tx'[s].want) \subseteq {"member"} BY <2>2, KindsFacts
  <2>5. ClaimingOrder(s)' BY <2>2, <2>3, <2>4 DEF ClaimingOrder
  <2>6. QED BY <2>2, <2>5, OrderOfKind
<1>3. ASSUME At(s, "claim", "members"), NEW found,
             Continue(s, [tx[s] EXCEPT !.step = "seats", !.taken = found,
                                       !.want = {SeatLock(x) : x \in found}])
      PROVE  Moves(s) /\ Ordered(s)'
  <2>1. PICK t : t = tx[s] OBVIOUS
  <2>2. PICK next : next = [t EXCEPT !.step = "seats", !.taken = found,
                                     !.want = {SeatLock(x) : x \in found}]
    OBVIOUS
  <2>3. IsRow(t) /\ t.seen \in Snapshots /\ t.left \subseteq Users /\ t.op = "claim"
        /\ \A l \in tx[s].want : Free(l)
    BY <1>3, <2>1 DEF OrderInv, SessionTypes, At
  <2>4. /\ IsRow(next) /\ next.op = "claim" /\ next.step = "seats"
        /\ next.seen = t.seen /\ next.left = t.left
    BY <2>2, <2>3 DEF IsRow
  <2>5. Continue(s, next) BY <1>3, <2>1, <2>2
  <2>6. Moves(s) /\ tx'[s].op = next.op /\ tx'[s].step = next.step
    BY <2>3, <2>4, <2>5, ContinueEffect DEF OrderInv
  <2>7. ClaimingOrder(s)' BY <2>4, <2>6 DEF ClaimingOrder
  <2>8. QED BY <2>4, <2>6, <2>7, OrderOfKind
<1>4. QED BY <1>1, <1>2, <1>3, ReleaseOrder DEF ClaimGuest, Abort

\* Whoever files for the party locks it after the room.
LEMMA FilingKeepsOrder ==
  ASSUME OrderInv, NEW s \in Sessions, ApplyWithParty(s)
  PROVE  Moves(s) /\ Ordered(s)'
<1>1. ASSUME NEW a, NEW r, Start(s, "apply", <<a, r>>, RoomLock(r), "party", {PartyLock})
      PROVE  Moves(s) /\ Ordered(s)'
  <2>1. /\ Moves(s) /\ tx'[s].op = "apply" /\ tx'[s].step = "party"
        /\ held'[s] = {RoomLock(r)} /\ tx'[s].want = {PartyLock}
    BY <1>1, StartEffect DEF OrderInv
  <2>2. FilingOrder(s)' BY <2>1, KindsFacts DEF FilingOrder, Locks
  <2>3. QED BY <2>1, <2>2, OrderOfKind
<1>2. ASSUME At(s, "apply", "party"), GoTo(s, "members", MemberLocks)
      PROVE  Moves(s) /\ Ordered(s)'
  <2>1. tx[s].op = "apply" /\ tx[s].step = "party" /\ \A l \in tx[s].want : Free(l)
    BY <1>2 DEF At
  <2>2. /\ Moves(s) /\ tx'[s].op = "apply" /\ tx'[s].step = "members"
        /\ held'[s] = Locks(s) /\ tx'[s].want = MemberLocks \ Locks(s)
    BY <1>2, <2>1, GoToEffect DEF OrderInv
  <2>3. PartyLock \in Locks(s) /\ Kinds(held[s]) \subseteq {"room"} /\ tx[s].want \subseteq {PartyLock}
    BY <2>1 DEF OrderInv, Ordered, FilingOrder
  <2>4. Kinds(tx'[s].want) \subseteq {"member"} BY <2>2, KindsFacts
  <2>5. Kinds(held'[s]) \subseteq {"room", "party", "member"}
    <3>1. \A l \in held'[s] : l \in held[s] \/ l = PartyLock BY <2>2, <2>3 DEF Locks
    <3>2. PartyLock[1] = "party" BY DEF PartyLock
    <3>3. QED BY <2>3, <3>1, <3>2 DEF Kinds
  <2>6. FilingOrder(s)' BY <2>2, <2>3, <2>4, <2>5 DEF FilingOrder
  <2>7. QED BY <2>2, <2>6, OrderOfKind
<1>3. QED BY <1>1, <1>2, ReleaseOrder DEF ApplyWithParty, Abort

\* Whoever answers or removes goes on to the room.
LEMMA AnswerBeginsInOrder ==
  ASSUME OrderInv, NEW s \in Sessions, NEW op \in {"reject", "remove", "leave", "accept"}, NEW arg,
         NEW lock, lock[1] \in {"application", "participant"}, NEW q,
         Start(s, op, arg, lock, "room", {RoomLock(q)})
  PROVE  Moves(s) /\ Ordered(s)'
<1>1. /\ Moves(s) /\ tx'[s].op = op /\ tx'[s].step = "room"
      /\ held'[s] = {lock} /\ tx'[s].want = {RoomLock(q)}
  BY StartEffect DEF OrderInv
<1>2. Kinds(held'[s]) \subseteq {"application", "participant"} BY <1>1, KindsFacts
<1>3. RoomOrder(s)' BY <1>1, <1>2 DEF RoomOrder, AsksForRoom
<1>4. ScheduleOrder(s)' BY <1>1 DEF ScheduleOrder
<1>5. QED BY <1>1, <1>3, <1>4, OrderOfKind

\* Whoever leaves with his guests keeps no order from there on.
LEMMA LeaveKeepsOrder ==
  ASSUME OrderInv, NEW s \in Sessions, CancelParticipant(s),
         ~\E x \in Seats : Start(s, "leave", x, SeatLock(x), "room", {RoomLock(app[x[1]].room)})
  PROVE  Moves(s) /\ Ordered(s)'
<1>1. ASSUME At(s, "leave", "room"), NEW found, NEW locks,
             Continue(s, [tx[s] EXCEPT !.step = "guests", !.taken = found, !.want = locks])
      PROVE  Moves(s) /\ Ordered(s)'
  <2>1. PICK t : t = tx[s] OBVIOUS
  <2>2. PICK next : next = [t EXCEPT !.step = "guests", !.taken = found, !.want = locks]
    OBVIOUS
  <2>3. IsRow(t) /\ t.seen \in Snapshots /\ t.left \subseteq Users /\ t.op = "leave"
        /\ \A l \in tx[s].want : Free(l)
    BY <1>1, <2>1 DEF OrderInv, SessionTypes, At
  <2>4. /\ IsRow(next) /\ next.op = "leave" /\ next.step = "guests"
        /\ next.seen = t.seen /\ next.left = t.left
    BY <2>2, <2>3 DEF IsRow
  <2>5. Continue(s, next) BY <1>1, <2>1, <2>2
  <2>6. Moves(s) /\ tx'[s].op = "leave" /\ tx'[s].step = "guests"
    BY <2>3, <2>4, <2>5, ContinueEffect DEF OrderInv
  <2>7. RoomOrder(s)' BY <2>6 DEF RoomOrder, AsksForRoom
  <2>8. QED BY <2>6, <2>7, OrderOfKind
<1>2. QED BY <1>1, ReleaseOrder DEF CancelParticipant, GiveUpSeats, Abort

\* A cancellation keeps no order.
LEMMA CancelKeepsOrder ==
  ASSUME OrderInv, NEW s \in Sessions, CancelRoom(s)
  PROVE  Moves(s) /\ Ordered(s)'
<1>1. ASSUME NEW r, NEW locks, Start(s, "cancel", r, RoomLock(r), "seats", locks)
      PROVE  Moves(s) /\ Ordered(s)'
  BY <1>1, StartEffect, OrderOfKind DEF OrderInv
<1>2. ASSUME At(s, "cancel", "seats"), NEW locks, GoTo(s, "applications", locks)
      PROVE  Moves(s) /\ Ordered(s)'
  BY <1>2, GoToEffect, OrderOfKind DEF OrderInv, At
<1>3. QED BY <1>1, <1>2, ReleaseOrder DEF CancelRoom

\* An acceptance locks one schedule after the other, in their order.
LEMMA AcceptKeepsOrder ==
  ASSUME IInv, OrderInv, NEW s \in Sessions, AcceptApplication(s)
  PROVE  Moves(s) /\ Ordered(s)'
<1>0. PICK t : t = tx[s] OBVIOUS
<1>1. IsRow(t) /\ t.seen \in Snapshots /\ t.left \subseteq Users /\ Ordered(s)
  BY <1>0 DEF OrderInv, SessionTypes
<1>2. ASSUME NEW a \in Apps, Start(s, "accept", a, AppLock(a), "room", RoomToLock(a))
      PROVE  Moves(s) /\ Ordered(s)'
  <2>1. AppLock(a)[1] = "application" BY DEF AppLock
  <2>2. QED BY <1>2, <2>1, AnswerBeginsInOrder DEF RoomToLock
<1>3. ASSUME At(s, "accept", "room"), NEW users, users = app[tx[s].arg].users,
             Continue(s, [tx[s] EXCEPT !.step = "schedules", !.want = NextSchedule(Known(users)),
                                       !.seen = users, !.left = Known(users)])
      PROVE  Moves(s) /\ Ordered(s)'
  <2>1. PICK next : next = [t EXCEPT !.step = "schedules", !.want = NextSchedule(Known(users)),
                                     !.seen = users, !.left = Known(users)]
    OBVIOUS
  <2>2. t.op = "accept" /\ t.step = "room" /\ \A l \in tx[s].want : Free(l)
    BY <1>0, <1>3 DEF At
  <2>3. /\ IsRow(next) /\ next.op = "accept" /\ next.step = "schedules"
        /\ next.seen = users /\ next.left = Known(users)
        /\ next.want = NextSchedule(Known(users))
    BY <1>1, <2>1, <2>2 DEF IsRow
  <2>4. users \in Snapshots /\ Known(users) \subseteq Users
    <3>1. tx[s].arg \in Apps BY <1>0, <2>2 DEF IInv, Under, Answering
    <3>2. users \in Snapshots BY <1>3, <3>1 DEF IInv, Data, DataTypes
    <3>3. QED BY <3>2, SnapshotFacts
  <2>5. Continue(s, next) BY <1>0, <1>3, <2>1
  <2>6. /\ Moves(s) /\ tx'[s].op = "accept" /\ tx'[s].step = "schedules"
        /\ tx'[s].left = Known(users) /\ held'[s] = Locks(s)
        /\ tx'[s].want = NextSchedule(Known(users)) \ Locks(s)
    BY <2>2, <2>3, <2>4, <2>5, ContinueEffect DEF OrderInv
  <2>7. /\ Kinds(held[s]) \subseteq {"application", "participant"}
        /\ \E q : tx[s].want \subseteq {RoomLock(q)}
    BY <1>0, <1>1, <2>2 DEF Ordered, RoomOrder, AsksForRoom
  <2>8. \A l \in Locks(s) : l[1] \in {"application", "participant", "room"}
    BY <2>7 DEF Locks, Kinds, RoomLock
  <2>10. ScheduleOrder(s)' BY <2>6, <2>8 DEF ScheduleOrder, Kinds
  <2>11. RoomOrder(s)' BY <2>6 DEF RoomOrder, AsksForRoom
  <2>12. QED BY <2>6, <2>10, <2>11, OrderOfKind
<1>4. ASSUME At(s, "accept", "schedules"), NEW u, u = Least(t.left),
             NEW rest, rest = t.left \ {u}, rest # {},
             Continue(s, [tx[s] EXCEPT !.want = NextSchedule(rest), !.left = rest])
      PROVE  Moves(s) /\ Ordered(s)'
  <2>1. PICK next : next = [t EXCEPT !.want = NextSchedule(rest), !.left = rest] OBVIOUS
  <2>2. /\ t.op = "accept" /\ t.step = "schedules" /\ \A l \in tx[s].want : Free(l)
    BY <1>0, <1>4 DEF At
  <2>3. /\ IsRow(next) /\ next.op = "accept" /\ next.arg = t.arg /\ next.step = "schedules"
        /\ next.seen = t.seen /\ next.left = rest /\ next.want = NextSchedule(rest)
    BY <1>1, <2>1, <2>2 DEF IsRow
  <2>4. Continue(s, next) BY <1>0, <1>4, <2>1
  <2>5. /\ Moves(s) /\ tx'[s].op = "accept" /\ tx'[s].step = "schedules"
        /\ tx'[s].left = rest /\ held'[s] = Locks(s)
        /\ tx'[s].want = NextSchedule(rest) \ Locks(s)
    BY <1>1, <1>4, <2>2, <2>3, <2>4, ContinueEffect DEF OrderInv
  <2>6. /\ Kinds(held[s]) \subseteq {"application", "participant", "room", "schedule"}
        /\ tx[s].want \subseteq NextSchedule(t.left)
        /\ \A l \in held[s] : l[1] = "schedule" =>
             \E v \in Users : l = ScheduleLock(v) /\ \A w \in t.left : v < w
    BY <1>0, <1>1, <2>2 DEF Ordered, ScheduleOrder
  <2>7. u \in t.left /\ \A w \in rest : u < w
    <3>1. u \in t.left /\ \A w \in t.left : u <= w BY <1>1, <1>4, LeastIsOne
    <3>2. t.left \subseteq Nat BY <1>1, TransactionsAssumption
    <3>3. QED BY <1>4, <3>1, <3>2
  <2>8. \A l \in tx[s].want : l = ScheduleLock(u) BY <1>4, <2>6 DEF NextSchedule
  <2>9. \A l \in Locks(s) : l[1] = "schedule" =>
          \E v \in Users : l = ScheduleLock(v) /\ \A w \in rest : v < w
    BY <1>1, <1>4, <2>6, <2>7, <2>8 DEF Locks
  <2>10. Kinds(Locks(s)) \subseteq {"application", "participant", "room", "schedule"}
    BY <2>6, <2>8 DEF Locks, Kinds, ScheduleLock
  <2>11. ScheduleOrder(s)' BY <2>5, <2>9, <2>10 DEF ScheduleOrder
  <2>12. RoomOrder(s)' BY <2>5 DEF RoomOrder, AsksForRoom
  <2>13. QED BY <2>5, <2>11, <2>12, OrderOfKind
<1>5. ASSUME NEW next, Continue(s, next), \A l \in tx[s].want : Free(l), IsRow(next),
             next.op = "accept", next.step = "overlaps", next.seen = t.seen,
             next.left \subseteq Users
      PROVE  Moves(s) /\ Ordered(s)'
  <2>1. Moves(s) /\ tx'[s].op = "accept" /\ tx'[s].step = "overlaps"
    BY <1>1, <1>5, ContinueEffect DEF OrderInv
  <2>2. RoomOrder(s)' /\ ScheduleOrder(s)' BY <2>1 DEF RoomOrder, AsksForRoom, ScheduleOrder
  <2>3. QED BY <2>1, <2>2, OrderOfKind
<1>6. CASE /\ At(s, "accept", "schedules")
           /\ Continue(s, [tx[s] EXCEPT !.step = "overlaps", !.want = {},
                                        !.left = Known(tx[s].seen)])
  <2>1. PICK next : next = [t EXCEPT !.step = "overlaps", !.want = {}, !.left = Known(t.seen)]
    OBVIOUS
  <2>2. t.op = "accept" /\ \A l \in tx[s].want : Free(l) BY <1>0, <1>6 DEF At
  <2>3. /\ IsRow(next) /\ next.op = "accept" /\ next.step = "overlaps"
        /\ next.seen = t.seen /\ next.left = Known(t.seen)
    BY <1>1, <2>1, <2>2 DEF IsRow
  <2>4. Continue(s, next) BY <1>0, <1>6, <2>1
  <2>5. Known(t.seen) \subseteq Users BY <1>1, SnapshotFacts
  <2>6. QED BY <1>5, <2>2, <2>3, <2>4, <2>5
<1>7. ASSUME At(s, "accept", "overlaps"), NEW u, NEW found,
             Continue(s, [tx[s] EXCEPT !.want = {AppLock(b) : b \in found},
                                       !.left = tx[s].left \ {u},
                                       !.taken = tx[s].taken \cup found])
      PROVE  Moves(s) /\ Ordered(s)'
  <2>1. PICK next : next = [t EXCEPT !.want = {AppLock(b) : b \in found},
                                     !.left = t.left \ {u}, !.taken = t.taken \cup found]
    OBVIOUS
  <2>2. t.op = "accept" /\ t.step = "overlaps" /\ \A l \in tx[s].want : Free(l)
    BY <1>0, <1>7 DEF At
  <2>3. /\ IsRow(next) /\ next.op = "accept" /\ next.step = "overlaps"
        /\ next.seen = t.seen /\ next.left = t.left \ {u}
    BY <1>1, <2>1, <2>2 DEF IsRow
  <2>4. Continue(s, next) BY <1>0, <1>7, <2>1
  <2>5. next.left \subseteq Users BY <1>1, <2>3
  <2>6. QED BY <1>5, <2>2, <2>3, <2>4, <2>5
<1>8. QED BY <1>0, <1>2, <1>3, <1>4, <1>6, <1>7, ReleaseOrder DEF AcceptApplication, Abort

\* Every command keeps the order, and so do those that have a single statement.
LEMMA NextOrder == IInv /\ OrderInv /\ [Next]_vars => OrderInv'
<1> SUFFICES ASSUME IInv, OrderInv, [Next]_vars PROVE OrderInv'
  OBVIOUS
<1>0. ASSUME NEW t \in Sessions, tx'[t] = tx[t], held'[t] = held[t] PROVE Ordered(t)'
  <2>1. Ordered(t) /\ Locks(t)' = Locks(t) BY <1>0 DEF OrderInv, Locks
  <2>2. Kinds(held'[t]) = Kinds(held[t]) /\ Kinds(tx'[t].want) = Kinds(tx[t].want)
        /\ Kinds(Locks(t))' = Kinds(Locks(t))
    BY <1>0, <2>1 DEF Kinds
  <2>3. EditingOrder(t)' /\ ClaimingOrder(t)' /\ FilingOrder(t)'
    BY <1>0, <2>1, <2>2 DEF Ordered, EditingOrder, ClaimingOrder, FilingOrder
  <2>4. RoomOrder(t)' /\ ScheduleOrder(t)'
    BY <1>0, <2>1, <2>2 DEF Ordered, RoomOrder, AsksForRoom, ScheduleOrder
  <2>5. QED BY <1>0, <2>1, <2>3, <2>4 DEF Ordered
<1>1. ASSUME NEW s \in Sessions, Moves(s), Ordered(s)' PROVE OrderInv'
  BY <1>0, <1>1 DEF Moves, OrderInv
<1>2. ASSUME UNCHANGED <<tx, held>> PROVE OrderInv'
  BY <1>0, <1>2 DEF OrderInv, SessionTypes
<1>3. ASSUME NEW s \in Sessions,
             RejectApplication(s) \/ RemoveParticipant(s) \/ CancelParticipant(s)
      PROVE  Moves(s) /\ Ordered(s)'
  <2>1. ASSUME NEW a \in Apps, Start(s, "reject", a, AppLock(a), "room", RoomToLock(a))
        PROVE  Moves(s) /\ Ordered(s)'
    <3>1. AppLock(a)[1] = "application" BY DEF AppLock
    <3>2. QED BY <2>1, <3>1, AnswerBeginsInOrder DEF RoomToLock
  <2>2. ASSUME NEW x \in Seats, NEW op \in {"remove", "leave"},
               Start(s, op, x, SeatLock(x), "room", {RoomLock(app[x[1]].room)})
        PROVE  Moves(s) /\ Ordered(s)'
    <3>1. SeatLock(x)[1] = "participant" BY DEF SeatLock
    <3>2. QED BY <2>2, <3>1, AnswerBeginsInOrder
  <2>3. CASE CancelParticipant(s) BY <2>2, <2>3, LeaveKeepsOrder DEF CancelParticipant
  <2>4. QED BY <1>3, <2>1, <2>2, <2>3, ReleaseOrder DEF RejectApplication, RemoveParticipant, Abort
<1>4. ASSUME NEW s \in Sessions, Statement(s) PROVE OrderInv'
  <2>1. Moves(s) /\ Ordered(s)'
    BY <1>3, <1>4, EditingKeepsOrder, ClaimKeepsOrder, FilingKeepsOrder, AcceptKeepsOrder,
       CancelKeepsOrder DEF Statement
  <2>2. QED BY <1>1, <2>1
<1>5. ASSUME NEW s \in Sessions, Acquire(s) \/ BreakDeadlock(s) PROVE OrderInv'
  BY <1>1, <1>5, AcquireOrder, ReleaseOrder DEF BreakDeadlock, Abort
<1>6. CASE ShortCommand BY <1>2, <1>6, ShortCommandKept
<1>7. CASE UNCHANGED vars BY <1>2, <1>7 DEF vars
<1>8. QED BY <1>4, <1>5, <1>6, <1>7 DEF Next

\* Before any command nobody waits.
LEMMA InitOrder == Init => OrderInv
<1> SUFFICES ASSUME Init PROVE OrderInv
  OBVIOUS
<1>1. SessionTypes BY InitInv DEF IInv
<1>2. \A s \in Sessions : tx[s].op = "NONE" /\ tx[s].want = {} BY IdleRow DEF Init
<1>3. \A s \in Sessions : Ordered(s)
  BY <1>2 DEF Ordered, EditingOrder, ClaimingOrder, FilingOrder, RoomOrder, AsksForRoom, ScheduleOrder
<1>4. QED BY <1>1, <1>3 DEF OrderInv

\* Whoever waits for a member or a friendship has the party, and so has whoever
\* holds one: they cannot be two.
LEMMA NobodyWaitsForMembers ==
  ASSUME IInv, OrderInv, NEW x \in Sessions, NEW y \in Sessions, x # y,
         ~Backward(x), ~Backward(y), NEW l \in tx[x].want, l \in held[y], tx[y].want # {}
  PROVE  l[1] \notin {"member", "friendship"}
<1> SUFFICES ASSUME l[1] \in {"member", "friendship"} PROVE FALSE
  OBVIOUS
<1>1. Ordered(x) /\ Ordered(y) /\ held[x] \cap held[y] = {} BY DEF OrderInv, IInv, Exclusion
<1>2. l[1] \in Kinds(tx[x].want) /\ l[1] \in Kinds(held[y]) BY DEF Kinds
<1>3. tx[x].op # "NONE" /\ tx[x].op # "cancel" BY <1>1 DEF Ordered, Backward
<1>4. PartyLock \in held[x]
  <2>1. tx[x].op \notin {"reject", "remove", "leave"}
    BY <1>1 DEF Ordered, RoomOrder, AsksForRoom, RoomLock, Backward
  <2>2. tx[x].op # "accept"
    <3>1. tx[x].op = "accept" => tx[x].step \in {"room", "schedules"}
      BY <1>1 DEF Ordered, ScheduleOrder, Backward
    <3>2. ~(tx[x].op = "accept" /\ tx[x].step = "room")
      BY <1>1 DEF Ordered, RoomOrder, AsksForRoom, RoomLock
    <3>3. ~(tx[x].op = "accept" /\ tx[x].step = "schedules")
      BY <1>1 DEF Ordered, ScheduleOrder, NextSchedule, ScheduleLock
    <3>4. QED BY <3>1, <3>2, <3>3
  <2>3. tx[x].op = "apply" => PartyLock \in held[x]
    BY <1>1 DEF Ordered, FilingOrder, PartyLock
  <2>4. tx[x].op = "claim" => PartyLock \in held[x]
    BY <1>1 DEF Ordered, ClaimingOrder, Backward
  <2>5. tx[x].op \in {"add", "respond", "drop"} => PartyLock \in held[x]
    BY <1>1 DEF Ordered, EditingOrder
  <2>6. QED BY <1>1, <1>3, <2>1, <2>2, <2>3, <2>4, <2>5 DEF Ordered
<1>5. PartyLock \in held[y]
  <2>1. ~AsksForRoom(y) /\ tx[y].op # "leave"
    BY <1>1, <1>2 DEF Ordered, RoomOrder, AsksForRoom, Backward
  <2>2. tx[y].op \notin {"reject", "remove", "accept"}
    BY <1>1, <1>2, <2>1 DEF Ordered, ScheduleOrder, AsksForRoom, Backward
  <2>3. tx[y].op = "apply" => PartyLock \in held[y]
    BY <1>1, <1>2 DEF Ordered, FilingOrder
  <2>4. tx[y].op = "claim" => PartyLock \in held[y]
    BY <1>1 DEF Ordered, ClaimingOrder, Backward
  <2>5. tx[y].op \in {"add", "respond", "drop"} => PartyLock \in held[y]
    BY <1>1 DEF Ordered, EditingOrder
  <2>6. tx[y].op # "NONE" /\ tx[y].op # "cancel" BY <1>1 DEF Ordered, Backward
  <2>7. QED BY <1>1, <2>1, <2>2, <2>3, <2>4, <2>5, <2>6 DEF Ordered
<1>6. QED BY <1>1, <1>4, <1>5

\* A number has fewer of a set above it than a smaller one has.
NumbersAbove(u, S) == {v \in S : v > u}

\* Among finitely many players one comes last.
LEMMA SomebodyIsLast ==
  ASSUME NEW S \in SUBSET Users, S # {}
  PROVE  \E u \in S : \A v \in S : v <= u
<1> DEFINE T == {NumbersAbove(u, S) : u \in S}
<1>1. S \subseteq Nat /\ IsFiniteSet(S)
  <2>1. S \subseteq Rows BY DEF Rows
  <2>2. IsFiniteSet(S) BY <2>1, FS_Subset, TransactionsAssumption
  <2>3. QED BY <2>2, TransactionsAssumption
<1>2. T \subseteq FiniteSubsetsOf(S) /\ T # {}
  <2>1. \A u \in S : NumbersAbove(u, S) \in SUBSET S BY DEF NumbersAbove
  <2>2. \A u \in S : IsFiniteSet(NumbersAbove(u, S)) BY <1>1, <2>1, FS_Subset
  <2>3. QED BY <2>1, <2>2 DEF FiniteSubsetsOf
<1>3. PICK A \in T : \A B \in T : <<B, A>> \notin StrictSubsetOrdering(S)
  BY <1>1, <1>2, FS_StrictSubsetOrderingWellFounded, WFMin
<1>4. PICK u \in S : A = NumbersAbove(u, S) BY <1>3
<1>5. \A v \in S : v <= u
  <2> SUFFICES ASSUME NEW v \in S, ~(v <= u) PROVE FALSE
    OBVIOUS
  <2>1. u \in Nat /\ v \in Nat /\ v > u BY <1>1
  <2>2. (\A w \in S : w > v => w > u) /\ ~(v > v)
    <3>1. \A w \in S : w \in Nat BY <1>1
    <3>2. QED BY <2>1, <3>1
  <2>3. /\ NumbersAbove(v, S) \subseteq NumbersAbove(u, S)
        /\ v \in NumbersAbove(u, S) /\ v \notin NumbersAbove(v, S)
    BY <2>1, <2>2, Zenon DEF NumbersAbove
  <2>4. NumbersAbove(v, S) \in T /\ NumbersAbove(v, S) \in SUBSET S /\ A \in SUBSET S
    BY <1>4 DEF NumbersAbove
  <2>5. <<NumbersAbove(v, S), A>> \in StrictSubsetOrdering(S)
    BY <1>4, <2>3, <2>4 DEF StrictSubsetOrdering
  <2>6. QED BY <1>3, <2>4, <2>5
<1>6. QED BY <1>5

\* Whoever holds a schedule and waits waits for that of a later player.
LEMMA SchedulesAscend ==
  ASSUME IInv, OrderInv, NEW x \in Sessions, ~Backward(x), NEW k \in held[x],
         k[1] = "schedule", NEW l \in tx[x].want
  PROVE  /\ \E v \in Users : l = ScheduleLock(v)
         /\ \A u, v \in Users : k = ScheduleLock(u) /\ l = ScheduleLock(v) => u < v
<1>1. Ordered(x) /\ tx[x].left \subseteq Users BY DEF OrderInv, SessionTypes
<1>2. k[1] \in Kinds(held[x]) BY DEF Kinds
<1>3. tx[x].op = "accept" /\ tx[x].step = "schedules"
  <2>1. ~AsksForRoom(x) /\ tx[x].op # "leave"
    BY <1>1, <1>2 DEF Ordered, RoomOrder, AsksForRoom, Backward
  <2>2. tx[x].op \notin {"add", "respond", "drop", "claim", "apply"}
    <3>1. Kinds(held[x]) \subseteq Kinds(Locks(x)) BY DEF Kinds, Locks
    <3>2. QED BY <1>1, <1>2, <3>1 DEF Ordered, EditingOrder, ClaimingOrder, FilingOrder, Backward
  <2>3. tx[x].op \notin {"NONE", "cancel"} BY <1>1 DEF Ordered, Backward
  <2>4. /\ tx[x].op = "accept" => tx[x].step = "schedules"
        /\ tx[x].op \notin {"reject", "remove"}
    BY <1>1, <2>1 DEF Ordered, ScheduleOrder, AsksForRoom, Backward
  <2>5. QED BY <1>1, <2>1, <2>2, <2>3, <2>4 DEF Ordered
<1>4. /\ tx[x].want \subseteq NextSchedule(tx[x].left)
      /\ \E u \in Users : k = ScheduleLock(u) /\ \A v \in tx[x].left : u < v
  BY <1>1, <1>3 DEF Ordered, ScheduleOrder
<1>5. l = ScheduleLock(Least(tx[x].left)) /\ Least(tx[x].left) \in tx[x].left
  BY <1>1, <1>4, LeastIsOne DEF NextSchedule
<1>6. \A u, v : ScheduleLock(u) = ScheduleLock(v) => u = v BY DEF ScheduleLock
<1>7. QED BY <1>1, <1>4, <1>5, <1>6

\* In a circle of waits without an inversion nobody can be waiting for anything:
\* not for members, so not for the party, nor for schedules, whose last has no
\* later one, so not for rooms; and nothing is left to wait for.
LEMMA NoCircleInOrder ==
  ASSUME IInv, OrderInv, NEW ring \in SUBSET Sessions, NEW s \in ring,
         \A x \in ring : ~Backward(x) /\ \E y \in ring : WaitsFor(x, y)
  PROVE  FALSE
<1>1. \A x \in ring : Ordered(x) /\ tx[x].want # {} /\ tx[x].op \notin {"NONE", "cancel"}
  BY DEF OrderInv, Ordered, WaitsFor, Backward
<1>2. \A x \in ring : \E y \in ring : x # y /\ \E l \in tx[x].want : l \in held[y]
  BY DEF WaitsFor
<1>3. \A x, y \in ring : x # y => held[x] \cap held[y] = {} BY DEF IInv, Exclusion
<1>4. \A x, y \in ring : x # y => \A l \in tx[x].want \cap held[y] :
        l[1] \notin {"member", "friendship"}
  BY <1>1, NobodyWaitsForMembers
<1>5. \A x \in ring : tx[x].op \notin {"add", "respond", "drop"}
  <2> SUFFICES ASSUME NEW x \in ring, tx[x].op \in {"add", "respond", "drop"} PROVE FALSE
    OBVIOUS
  <2>1. \A l \in tx[x].want : l[1] \in {"member", "friendship"}
    BY <1>1 DEF Ordered, EditingOrder, Kinds
  <2>2. QED BY <1>2, <1>4, <2>1
<1>6. \A x \in ring : tx[x].op # "claim"
  <2> SUFFICES ASSUME NEW x \in ring, tx[x].op = "claim" PROVE FALSE
    OBVIOUS
  <2>1. \A l \in tx[x].want : l[1] \in {"member", "friendship"}
    BY <1>1 DEF Ordered, ClaimingOrder, Kinds, Backward
  <2>2. QED BY <1>2, <1>4, <2>1
<1>7. \A x \in ring : tx[x].op = "apply" =>
        Kinds(held[x]) \subseteq {"room"} /\ tx[x].want \subseteq {PartyLock}
  <2> SUFFICES ASSUME NEW x \in ring, tx[x].op = "apply", tx[x].step = "members" PROVE FALSE
    BY <1>1 DEF Ordered, FilingOrder
  <2>1. \A l \in tx[x].want : l[1] \in {"member", "friendship"}
    BY <1>1 DEF Ordered, FilingOrder, Kinds
  <2>2. QED BY <1>2, <1>4, <2>1
<1>8. \A x \in ring : tx[x].op \in {"reject", "remove", "leave", "accept", "apply"}
  BY <1>1, <1>5, <1>6 DEF Ordered
<1>9. \A x \in ring : \A l \in held[x] :
        l[1] \in {"application", "participant", "room", "schedule"}
  <2> SUFFICES ASSUME NEW x \in ring, NEW l \in held[x]
               PROVE  l[1] \in {"application", "participant", "room", "schedule"}
    OBVIOUS
  <2>1. l[1] \in Kinds(held[x]) BY DEF Kinds
  <2>2. CASE tx[x].op = "apply" BY <1>7, <2>1, <2>2
  <2>3. CASE tx[x].op \in {"reject", "remove", "leave"}
    BY <1>1, <2>1, <2>3 DEF Ordered, RoomOrder, AsksForRoom, Backward
  <2>4. CASE tx[x].op = "accept"
    <3>1. tx[x].step \in {"room", "schedules"} BY <1>1, <2>4 DEF Ordered, ScheduleOrder, Backward
    <3>2. QED BY <1>1, <2>1, <2>4, <3>1 DEF Ordered, RoomOrder, AsksForRoom, ScheduleOrder
  <2>5. QED BY <1>8, <2>2, <2>3, <2>4
<1>10. \A x \in ring : tx[x].op # "apply"
  <2> SUFFICES ASSUME NEW x \in ring, tx[x].op = "apply" PROVE FALSE
    OBVIOUS
  <2>1. PICK y \in ring : PartyLock \in held[y] BY <1>2, <1>7
  <2>2. PartyLock[1] \in {"application", "participant", "room", "schedule"} BY <1>9, <2>1
  <2>3. QED BY <2>2 DEF PartyLock
<1> DEFINE Waited == {u \in Users : \E x, y \in ring : /\ x # y /\ ScheduleLock(u) \in tx[x].want
                                                       /\ ScheduleLock(u) \in held[y]}
<1>11. Waited = {}
  <2> SUFFICES ASSUME Waited # {} PROVE FALSE
    OBVIOUS
  <2>1. PICK u \in Waited : \A v \in Waited : v <= u
    <3>1. Waited \in SUBSET Users OBVIOUS
    <3>2. QED BY <3>1, SomebodyIsLast
  <2>2. PICK y \in ring : ScheduleLock(u) \in held[y] OBVIOUS
  <2>3. PICK z \in ring, l \in tx[y].want : y # z /\ l \in held[z] BY <1>2
  <2>4. ScheduleLock(u)[1] = "schedule" BY DEF ScheduleLock
  <2>5. PICK v \in Users : l = ScheduleLock(v) /\ u < v
    BY <2>2, <2>3, <2>4, SchedulesAscend
  <2>6. v \in Waited BY <2>3, <2>5
  <2>7. u \in Nat /\ v \in Nat /\ v <= u BY <2>1, <2>6, TransactionsAssumption
  <2>8. QED BY <2>5, <2>7
<1>12. \A x \in ring : \A l \in held[x] : l[1] # "schedule"
  <2> SUFFICES ASSUME NEW x \in ring, NEW k \in held[x], k[1] = "schedule" PROVE FALSE
    OBVIOUS
  <2>1. PICK y \in ring, l \in tx[x].want : x # y /\ l \in held[y] BY <1>2
  <2>2. PICK v \in Users : l = ScheduleLock(v) BY <2>1, SchedulesAscend
  <2>3. v \in Waited BY <2>1, <2>2
  <2>4. QED BY <1>11, <2>3
<1>13. \A x \in ring : \A l \in tx[x].want : l[1] = "room"
  <2> SUFFICES ASSUME NEW x \in ring, NEW l \in tx[x].want PROVE l[1] = "room"
    OBVIOUS
  <2>1. CASE AsksForRoom(x)
    BY <1>1, <2>1 DEF Ordered, RoomOrder, AsksForRoom, RoomLock
  <2>2. CASE tx[x].op = "accept" /\ tx[x].step = "schedules"
    <3>1. tx[x].want \subseteq NextSchedule(tx[x].left) BY <1>1, <2>2 DEF Ordered, ScheduleOrder
    <3>2. PICK y \in ring, k \in tx[x].want : x # y /\ k \in held[y] BY <1>2
    <3>3. k[1] = "schedule" BY <3>1, <3>2 DEF NextSchedule, ScheduleLock
    <3>4. QED BY <1>12, <3>2, <3>3
  <2>3. QED
    BY <1>1, <1>8, <1>10, <2>1, <2>2
    DEF Ordered, RoomOrder, AsksForRoom, ScheduleOrder, Backward
<1>14. \A y \in ring : \A l \in held[y] : l[1] # "room"
  <2> SUFFICES ASSUME NEW y \in ring, NEW l \in held[y], l[1] = "room" PROVE FALSE
    OBVIOUS
  <2>1. l[1] \in Kinds(held[y]) BY DEF Kinds
  <2>2. tx[y].op = "accept" /\ tx[y].step = "schedules"
    BY <1>1, <1>8, <1>10, <2>1 DEF Ordered, RoomOrder, AsksForRoom, ScheduleOrder, Backward
  <2>3. PICK k : k \in tx[y].want BY <1>1
  <2>4. k[1] = "schedule" BY <1>1, <2>2, <2>3 DEF Ordered, ScheduleOrder, NextSchedule, ScheduleLock
  <2>5. QED BY <1>13, <2>3, <2>4
<1>15. PICK y \in ring, l \in tx[s].want : l \in held[y] BY <1>2
<1>16. l[1] = "room" BY <1>13, <1>15
<1>17. l[1] # "room" BY <1>14, <1>15
<1>18. QED BY <1>16, <1>17

\* Commands wait for each other in a circle only where one of them locks against
\* the order the others keep, for any number of sessions.
THEOREM DeadlocksNeedInversions == Spec => []DeadlocksAreInversions
<1>1. IInv /\ OrderInv => DeadlocksAreInversions
  <2> SUFFICES ASSUME IInv, OrderInv, NEW s \in Sessions, Deadlocked(s),
                      \A t \in Sessions : Deadlocked(t) => ~Backward(t)
               PROVE  FALSE
    BY DEF DeadlocksAreInversions
  <2>1. PICK ring \in SUBSET Sessions :
          /\ s \in ring
          /\ \A x \in ring : (\E y \in ring : WaitsFor(x, y)) /\ (\E y \in ring : WaitsFor(y, x))
    BY DEF Deadlocked
  <2>2. \A x \in ring : x \in Sessions /\ Deadlocked(x) BY <2>1 DEF Deadlocked
  <2>3. QED BY <2>1, <2>2, NoCircleInOrder
<1>2. Spec => []OrderInv
  <2>1. IInv /\ OrderInv /\ [Next]_vars => (IInv /\ OrderInv)' BY NextInv, NextOrder
  <2>2. Init => IInv /\ OrderInv BY InitInv, InitOrder
  <2>3. QED BY <2>1, <2>2, PTL DEF Spec
<1>3. QED BY <1>1, <1>2, Inductive, PTL

-----------------------------------------------------------------------------
(* Commands take effect at once. *)

\* What a command that changes the party has found of its member and of the
\* others, who stand still as long as it holds the party.
Composing(s) ==
  /\ tx[s].op = "add" =>
       /\ tx[s].arg # Owner
       /\ tx[s].step = "friendship" => \A n \in Rows : ~RegisteredIn(n, tx[s].arg)
  /\ tx[s].op = "respond" /\ tx[s].step = "members" =>
       member[tx[s].arg[1]].status = "INVITED"
  /\ tx[s].op = "drop" =>
       /\ member[tx[s].arg].status \in Present
       /\ tx[s].step = "members" => member[tx[s].arg].user # Owner
  /\ tx[s].op = "claim" =>
       /\ PartyLock \in Locks(s)
       /\ tx[s].step # "party" => PartyLock \in held[s]
       /\ tx[s].step = "seats" =>
            /\ \A n \in Rows \ {tx[s].arg[1]} : ~RegisteredIn(n, tx[s].arg[2])
            /\ \A x \in tx[s].taken : account[x] = Nil

\* An acceptance has read the members, but for accounts guests have been given since,
\* and takes back applications for other rooms.
Reading(s) ==
  tx[s].op = "accept" =>
    /\ \A b \in tx[s].taken : app[b].room # app[tx[s].arg].room
    /\ tx[s].step \in {"schedules", "overlaps"} =>
         \A m \in DOMAIN tx[s].seen :
           tx[s].seen[m] = app[tx[s].arg].users[m] \/ (m \in Guests /\ tx[s].seen[m] = Nil)

\* Whoever leaves seat x, his own, has its room once it is known to be open, and the
\* seats of all guests he has.
Leaving(s, x) ==
  LET r == app[x[1]].room
  IN  /\ account[x] # Nil /\ RoomLock(r) \in Locks(s)
      /\ tx[s].step = "guests" =>
           /\ RoomLock(r) \in held[s] /\ room[r] = "OPEN"
           /\ GuestsOf(x) \subseteq tx[s].taken
           /\ \A y \in tx[s].taken : SeatLock(y) \in Locks(s)

\* The room that is filed for or cancelled is open, and the seats that go with it
\* are nobody else's to take away.
Keeping(s) ==
  /\ tx[s].op = "apply" => room[tx[s].arg[2]] = "OPEN"
  /\ tx[s].op \in {"remove", "leave"} =>
       seat[tx[s].arg] = "ACTIVE" /\ SeatLock(tx[s].arg) \in held[s]
  /\ tx[s].op = "leave" => Leaving(s, tx[s].arg)
  /\ tx[s].op = "cancel" =>
       /\ room[tx[s].arg] = "OPEN"
       /\ \A x \in Active(tx[s].arg) : SeatLock(x) \in Locks(s)

Standing(s) == Composing(s) /\ Reading(s) /\ Keeping(s)

\* The data behind the locks session t holds, and the columns that never change
\* once they are written, are as before.
Aside(t) ==
  /\ PartyLock \in held[t] => member' = member
  /\ \A r \in Rooms : RoomLock(r) \in held[t] =>
       room'[r] = room[r] /\ Active(r)' \subseteq Active(r)
  /\ \A x \in Seats : SeatLock(x) \in held[t] /\ seat[x] = "ACTIVE" => seat'[x] = "ACTIVE"
  /\ \A x \in Seats : seat[x] # "NONE" =>
       /\ account'[x] = account[x] \/ account[x] = Nil
       /\ MemberLock(x[2]) \in held[t] => account'[x] = account[x]
  /\ \A a \in Apps : app[a].status # "NONE" =>
       /\ app'[a].room = app[a].room /\ app'[a].owner = app[a].owner
       /\ \A m \in DOMAIN app[a].users :
            \/ app'[a].users[m] = app[a].users[m]
            \/ m \in Guests /\ app[a].users[m] = Nil

\* A player who leaves has his account, his application and his room; his guests can
\* only have become fewer.
LEMMA LeavingStands ==
  ASSUME IInv, NEW t \in Sessions, Aside(t), tx'[t] = tx[t], held'[t] = held[t],
         NEW x \in Seats, seat[x] # "NONE", Leaving(t, x)
  PROVE  Leaving(t, x)'
<1>1. PICK a, r : a = x[1] /\ r = app[a].room OBVIOUS
<1>2. a \in Apps /\ app[a].status # "NONE" /\ r \in Rooms
  BY <1>1 DEF IInv, Data, Seated, Seats
<1>3. app'[a].room = r /\ app'[a].owner = app[a].owner BY <1>1, <1>2 DEF Aside
<1>4. account'[x] = account[x] /\ account[x] # Nil /\ Locks(t)' = Locks(t)
  BY DEF Aside, Leaving, Locks
<1>5. ASSUME tx[t].step = "guests"
      PROVE  room'[r] = "OPEN" /\ GuestsOf(x)' \subseteq tx[t].taken
  <2>1. /\ RoomLock(r) \in held[t] /\ room[r] = "OPEN" /\ GuestsOf(x) \subseteq tx[t].taken
    BY <1>1, <1>5 DEF Leaving
  <2>2. room'[r] = room[r] /\ Active(r)' \subseteq Active(r) BY <1>2, <2>1 DEF Aside
  <2>3. ASSUME NEW y \in GuestsOf(x)' PROVE y \in GuestsOf(x)
    <3>1. y \in Seats /\ y[1] = a /\ seat'[y] = "ACTIVE" /\ account'[y] = Nil
          /\ app'[a].owner = Party /\ account'[x] = Owner
      BY <1>1, <2>3 DEF GuestsOf
    <3>2. y \in Active(r)' BY <1>3, <3>1 DEF Active
    <3>3. seat[y] = "ACTIVE" BY <2>2, <3>2 DEF Active
    <3>4. account[y] = Nil BY <3>1, <3>3 DEF Aside
    <3>5. QED BY <1>1, <1>3, <1>4, <3>1, <3>3, <3>4 DEF GuestsOf
  <2>4. QED BY <2>1, <2>2, <2>3
<1>6. QED BY <1>1, <1>3, <1>4, <1>5 DEF Leaving

\* Whoever the others leave alone still knows what he knew.
LEMMA AsideStands ==
  ASSUME IInv, NEW t \in Sessions, Standing(t), Aside(t), tx'[t] = tx[t], held'[t] = held[t]
  PROVE  Standing(t)'
<1>0. Locks(t)' = Locks(t) BY DEF Locks
<1>1. Under(t) BY DEF IInv
<1>2. Composing(t)'
  <2>1. tx[t].op \in {"add", "respond", "drop"} \/ (tx[t].op = "claim" /\ tx[t].step = "seats")
          => member' = member
    BY <1>1 DEF Under, Editing, Standing, Composing, Aside
  <2>2. ASSUME tx[t].op = "claim", tx[t].step = "seats", NEW x \in tx[t].taken
        PROVE  account'[x] = account[x]
    <3>1. x \in Seats /\ x[2] = tx[t].arg[1] /\ seat[x] # "NONE"
          /\ MemberLock(tx[t].arg[1]) \in held[t]
      BY <1>1, <2>2 DEF Under, Claiming
    <3>2. QED BY <3>1 DEF Aside
  <2>3. CASE tx[t].op \in {"add", "respond", "drop"}
    BY <2>1, <2>3 DEF Standing, Composing, RegisteredIn
  <2>4. CASE tx[t].op = "claim"
    BY <1>0, <2>1, <2>2, <2>4 DEF Standing, Composing, RegisteredIn
  <2>5. QED BY <2>3, <2>4 DEF Composing
<1>3. Reading(t)'
  <2>1. SUFFICES ASSUME tx[t].op = "accept" PROVE Reading(t)' BY DEF Reading
  <2>2. PICK a : a = tx[t].arg OBVIOUS
  <2>3. a \in Apps /\ app[a].status # "NONE"
    BY <1>1, <2>1, <2>2 DEF Under, Answering, Pending
  <2>4. \A b \in tx[t].taken : app'[b].room # app'[a].room
    <3>1. ASSUME NEW b \in tx[t].taken PROVE app'[b].room # app'[a].room
      <4>1. tx[t].step \in {"schedules", "overlaps"} \/ tx[t].taken = {}
        BY <1>1, <2>1 DEF Under, Accepting
      <4>2. b \in Apps /\ app[b].status # "NONE"
        BY <1>1, <2>1, <3>1, <4>1 DEF Under, Accepting
      <4>3. app[b].room # app[a].room BY <2>1, <2>2, <3>1 DEF Standing, Reading
      <4>4. QED BY <2>3, <4>2, <4>3 DEF Aside
    <3>2. QED BY <3>1
  <2>5. ASSUME tx[t].step \in {"schedules", "overlaps"}, NEW m \in DOMAIN tx[t].seen
        PROVE  tx[t].seen[m] = app'[a].users[m] \/ (m \in Guests /\ tx[t].seen[m] = Nil)
    <3>1. m \in DOMAIN app[a].users BY <1>1, <2>1, <2>2, <2>5 DEF Under, Accepting
    <3>2. tx[t].seen[m] = app[a].users[m] \/ (m \in Guests /\ tx[t].seen[m] = Nil)
      BY <2>1, <2>2, <2>5 DEF Standing, Reading
    <3>3. app'[a].users[m] = app[a].users[m] \/ (m \in Guests /\ app[a].users[m] = Nil)
      BY <2>3, <3>1 DEF Aside
    <3>4. QED BY <3>2, <3>3
  <2>6. QED BY <2>2, <2>4, <2>5 DEF Reading
<1>4. Keeping(t)'
  <2>1. tx[t].op = "apply" => room'[tx[t].arg[2]] = "OPEN"
    BY <1>1 DEF Under, Filing, Standing, Keeping, Aside
  <2>2. tx[t].op \in {"remove", "leave"} =>
          seat'[tx[t].arg] = "ACTIVE" /\ SeatLock(tx[t].arg) \in held[t]
    BY <1>1 DEF Under, Removing, Standing, Keeping, Aside
  <2>3. ASSUME tx[t].op = "cancel"
        PROVE  room'[tx[t].arg] = "OPEN" /\ \A x \in Active(tx[t].arg)' : SeatLock(x) \in Locks(t)
    <3>1. PICK r : r = tx[t].arg OBVIOUS
    <3>2. r \in Rooms /\ RoomLock(r) \in held[t] BY <1>1, <2>3, <3>1 DEF Under, Closing
    <3>3. room'[r] = room[r] /\ Active(r)' \subseteq Active(r) BY <3>2 DEF Aside
    <3>4. room[r] = "OPEN" /\ \A x \in Active(r) : SeatLock(x) \in Locks(t)
      BY <2>3, <3>1 DEF Standing, Keeping
    <3>5. Active(tx[t].arg)' = Active(r)' BY <3>1
    <3>6. QED BY <3>1, <3>3, <3>4, <3>5
  <2>4. tx[t].op = "leave" => Leaving(t, tx[t].arg)'
    <3>1. tx[t].op = "leave" => tx[t].arg \in Seats /\ Leaving(t, tx[t].arg)
      BY <1>1 DEF Under, Removing, Standing, Keeping
    <3>2. tx[t].op = "leave" => seat[tx[t].arg] # "NONE" BY <1>1 DEF Under, Removing
    <3>3. QED BY <3>1, <3>2, LeavingStands
  <2>5. QED BY <1>0, <2>1, <2>2, <2>3, <2>4 DEF Keeping
<1>5. QED BY <1>2, <1>3, <1>4 DEF Standing

\* A change of the party disturbs nobody who does not hold it.
LEMMA ComposeAside ==
  ASSUME NEW m, NEW status, NEW user, Compose(m, status, user), NEW t, PartyLock \notin held[t]
  PROVE  Aside(t)
BY DEF Compose, Aside, Active

\* A claim gives an account to a guest who has none, and to no seat of another.
LEMMA ClaimAside ==
  ASSUME IInv, NEW m \in Guests, NEW u \in Users, NEW reached \in SUBSET GuestSeats(m),
         Claim(m, u, reached), NEW t, PartyLock \notin held[t], MemberLock(m) \notin held[t]
  PROVE  Aside(t)
<1>1. \A a \in Apps : m \in DOMAIN app[a].users => app[a].users[m] = Nil
  BY DEF Claim, GuestClaimable, IInv, Data, Accounted
<1>2. ASSUME NEW a \in Apps
      PROVE  /\ app'[a].room = app[a].room /\ app'[a].owner = app[a].owner
             /\ \A n \in DOMAIN app[a].users : app'[a].users[n] = app[a].users[n] \/ n = m
  <2>1. PICK old : old = app[a] OBVIOUS
  <2>2. app'[a] = IF m \in DOMAIN old.users THEN [old EXCEPT !.users[m] = u] ELSE old
    BY <2>1 DEF Claim
  <2>3. old = [status |-> old.status, room |-> old.room, owner |-> old.owner,
               users |-> old.users] /\ old.users = [n \in DOMAIN old.users |-> old.users[n]]
    <3>1. old \in [status : AppStatus, room : Rooms \cup {Nil}, owner : Owners,
                   users : Snapshots]
      BY <2>1 DEF IInv, Data, DataTypes
    <3>2. old.users \in [DOMAIN old.users -> Accounts] BY <3>1, SnapshotFacts
    <3>3. QED BY <3>1, <3>2
  <2>4. QED BY <2>1, <2>2, <2>3
<1>3. \A x \in Seats : /\ x[2] # m => account'[x] = account[x]
                       /\ account'[x] = account[x] \/ account[x] = Nil
  <2>1. \A x \in Seats : x[2] # m \/ account[x] # Nil => x \notin reached BY DEF GuestSeats
  <2>2. QED BY <2>1 DEF Claim
<1>4. \A x \in Seats : MemberLock(x[2]) \in held[t] => x[2] # m OBVIOUS
<1>5. \A r : Active(r)' \subseteq Active(r) BY <1>2 DEF Claim, Active, Seats
<1>6. UNCHANGED <<friend, party, room, seat>> BY DEF Claim
<1>7. \A a \in Apps : \A n \in DOMAIN app[a].users :
        app'[a].users[n] = app[a].users[n] \/ (n \in Guests /\ app[a].users[n] = Nil)
  BY <1>1, <1>2
<1>8. \A x \in Seats : MemberLock(x[2]) \in held[t] => account'[x] = account[x]
  BY <1>3, <1>4
<1>9. QED BY <1>2, <1>3, <1>5, <1>6, <1>7, <1>8 DEF Aside

\* A new application is nobody's yet.
LEMMA FileAside ==
  ASSUME IInv, NEW a \in Apps, NEW r, NEW owner, InsertApplication(a, r, owner), NEW t
  PROVE  Aside(t)
<1>1. app[a].status = "NONE" /\ \A b \in Apps : b # a => app'[b] = app[b]
  BY DEF InsertApplication, IInv, Data, DataTypes
<1>2. \A x \in Seats : seat[x] = "ACTIVE" => app[x[1]].status # "NONE"
  BY DEF IInv, Data, Seated
<1>3. \A q : Active(q)' \subseteq Active(q)
  BY <1>1, <1>2 DEF InsertApplication, Active, Seats
<1>4. QED BY <1>1, <1>3 DEF InsertApplication, Aside

\* An answer changes nothing but the application's status.
LEMMA DeclineAside ==
  ASSUME IInv, NEW a \in Apps, NEW status, Decline(a, status), NEW t
  PROVE  Aside(t)
<1>1. \A b \in Apps : /\ app'[b].room = app[b].room /\ app'[b].users = app[b].users
                      /\ app'[b].owner = app[b].owner
  BY DEF Decline, Resolve, IInv, Data, DataTypes
<1>2. \A q : Active(q)' = Active(q) BY <1>1 DEF Decline, Resolve, Active, Seats
<1>3. QED BY <1>1, <1>2 DEF Decline, Resolve, Aside

\* An acceptance seats people in one room, on seats nobody has had.
LEMMA AcceptAside ==
  ASSUME IInv, NEW a \in Apps, NEW users, NEW back, Accept(a, users, back), NEW t,
         RoomLock(app[a].room) \notin held[t]
  PROVE  Aside(t)
<1>1. \A b \in Apps : /\ app'[b].room = app[b].room /\ app'[b].users = app[b].users
                      /\ app'[b].owner = app[b].owner
  BY DEF Accept, IInv, Data, DataTypes
<1>2. PICK mine : mine = {x \in Seats : x[1] = a /\ x[2] \in DOMAIN users} OBVIOUS
<1>3. \A x \in Seats : seat[x] # "NONE" => x \notin mine
  BY <1>2 DEF Accept, IInv, Data, Seated
<1>4. \A x \in Seats : x \notin mine => seat'[x] = seat[x] /\ account'[x] = account[x]
  BY <1>2 DEF Accept
<1>5. \A q : q # app[a].room => Active(q)' \subseteq Active(q)
  BY <1>1, <1>2, <1>4 DEF Active, Seats
<1>6. member' = member /\ room' = room BY DEF Accept
<1>7. QED BY <1>1, <1>3, <1>4, <1>5, <1>6 DEF Aside

\* A seat is taken away from whoever has it.
LEMMA TakeAwayAside ==
  ASSUME IInv, NEW x \in Seats, TakeAway(x), NEW t, SeatLock(x) \notin held[t]
  PROVE  Aside(t)
<1>1. /\ \A y \in Seats : y # x => seat'[y] = seat[y]
      /\ seat'[x] = "REMOVED_BY_HOST"
  BY DEF TakeAway, IInv, Data, DataTypes
<1>2. \A q : Active(q)' \subseteq Active(q) BY <1>1 DEF TakeAway, Active
<1>3. \A y \in Seats : SeatLock(y) \in held[t] => y # x OBVIOUS
<1>4. QED BY <1>1, <1>2, <1>3 DEF TakeAway, Aside

\* Seats are given up by whoever has locked them.
LEMMA GiveUpAside ==
  ASSUME IInv, NEW x \in Seats, GiveUp(x), NEW t,
         \A y \in {x} \cup GuestsOf(x) : SeatLock(y) \notin held[t]
  PROVE  Aside(t)
<1>1. \A y \in Seats :
        seat'[y] = IF y \in {x} \cup GuestsOf(x) THEN "CANCELLED" ELSE seat[y]
  BY DEF GiveUp
<1>2. UNCHANGED <<friend, party, member, room, app, account, stale>> BY DEF GiveUp
<1>3. \A q : Active(q)' \subseteq Active(q) BY <1>1, <1>2 DEF Active
<1>4. \A y \in Seats : SeatLock(y) \in held[t] => seat'[y] = seat[y] BY <1>1
<1>5. QED BY <1>2, <1>3, <1>4 DEF Aside

\* A cancellation is about one room and its seats.
LEMMA CancelAside ==
  ASSUME IInv, NEW r \in Rooms, Cancel(r), NEW t, RoomLock(r) \notin held[t],
         \A x \in Active(r) : SeatLock(x) \notin held[t]
  PROVE  Aside(t)
<1>1. \A b \in Apps : /\ app'[b].room = app[b].room /\ app'[b].users = app[b].users
                      /\ app'[b].owner = app[b].owner
  BY DEF Cancel, IInv, Data, DataTypes
<1>2. \A q \in Rooms : q # r => room'[q] = room[q] BY DEF Cancel, IInv, Data, DataTypes
<1>3. /\ \A x \in Seats : x \notin Active(r) => seat'[x] = seat[x]
      /\ \A x \in Seats : x \in Active(r) => seat'[x] = "CANCELLED"
  BY DEF Cancel
<1>4. \A q : Active(q)' \subseteq Active(q) BY <1>1, <1>3 DEF Active, Seats
<1>5. \A q \in Rooms : RoomLock(q) \in held[t] => q # r OBVIOUS
<1>6. \A x \in Seats : SeatLock(x) \in held[t] => x \notin Active(r) OBVIOUS
<1>7. member' = member /\ account' = account BY DEF Cancel
<1>8. QED BY <1>1, <1>2, <1>3, <1>4, <1>5, <1>6, <1>7 DEF Aside

\* What a step of session s amounts to, and what it leaves to everybody.
Sound(s) ==
  /\ [Command]_data /\ Standing(s)'
  /\ \A t \in Sessions : t # s => Aside(t)

\* A statement that writes nothing is none of the commands.
LEMMA QuietSound ==
  ASSUME NEW s, UNCHANGED data, Standing(s)'
  PROVE  Sound(s)
BY DEF Sound, Aside, Active, data

\* A session between two commands relies on nothing.
LEMMA IdleStands ==
  ASSUME NEW s, tx'[s].op = "NONE"
  PROVE  Standing(s)'
BY DEF Standing, Composing, Reading, Keeping

\* A command that gives up has done nothing.
LEMMA AbortSound ==
  ASSUME IInv, NEW s \in Sessions, Abort(s)
  PROVE  Sound(s)
<1>1. tx'[s].op = "NONE" /\ UNCHANGED data BY ReleaseEffect DEF Abort, IInv
<1>2. QED BY <1>1, IdleStands, QuietSound

\* One that commits is to be one of the commands.
LEMMA CommitSound ==
  ASSUME IInv, NEW s \in Sessions, Release(s), Command,
         \A t \in Sessions : t # s => Aside(t)
  PROVE  Sound(s)
<1>1. tx'[s].op = "NONE" BY ReleaseEffect DEF IInv
<1>2. QED BY <1>1, IdleStands DEF Sound

\* Nobody else has a lock the statement needs.
LEMMA NobodyElse ==
  ASSUME IInv, NEW s \in Sessions, \A l \in tx[s].want : Free(l), NEW t \in Sessions, t # s
  PROVE  \A l \in Locks(s) : l \notin held[t]
BY Others DEF IInv

\* What the next statement finds in its session.
LEMMA ContinueColumns ==
  ASSUME IInv, NEW s \in Sessions, NEW next, IsRow(next), Continue(s, next)
  PROVE  /\ UNCHANGED data /\ held'[s] = Locks(s)
         /\ tx'[s].op = next.op /\ tx'[s].arg = next.arg /\ tx'[s].step = next.step
         /\ tx'[s].seen = next.seen /\ tx'[s].taken = next.taken
<1> DEFINE u == [next EXCEPT !.want = next.want \ held'[s]]
<1>1. /\ u.op = next.op /\ u.arg = next.arg /\ u.step = next.step
      /\ u.seen = next.seen /\ u.taken = next.taken
  BY DEF IsRow
<1> HIDE DEF u
<1>2. tx' = [tx EXCEPT ![s] = u] /\ held' = [held EXCEPT ![s] = held[s] \cup tx[s].want]
      /\ UNCHANGED data
  BY DEF Continue, u
<1>3. tx'[s] = u /\ held'[s] = held[s] \cup tx[s].want BY <1>2 DEF IInv, SessionTypes
<1>4. QED BY <1>1, <1>2, <1>3 DEF Locks

\* A lock more changes nothing of what a command knows.
LEMMA AcquireSound ==
  ASSUME IInv, NEW s \in Sessions, Standing(s), Acquire(s)
  PROVE  Sound(s)
<1>1. /\ UNCHANGED data
      /\ tx'[s].op = tx[s].op /\ tx'[s].arg = tx[s].arg /\ tx'[s].step = tx[s].step
      /\ tx'[s].seen = tx[s].seen /\ tx'[s].taken = tx[s].taken
      /\ held[s] \subseteq held'[s] /\ Locks(s)' = Locks(s)
  BY AcquireEffect DEF IInv
<1>2. Composing(s)' BY <1>1 DEF Standing, Composing, RegisteredIn, data
<1>3. Reading(s)' BY <1>1 DEF Standing, Reading, data
<1>4. Keeping(s)' BY <1>1 DEF Standing, Keeping, Leaving, GuestsOf, Active, data
<1>5. QED BY <1>1, <1>2, <1>3, <1>4, QuietSound DEF Standing

\* A command's last statement about the party changes its composition.
LEMMA SaveMemberSound ==
  ASSUME IInv, NEW s \in Sessions, tx[s].op \in {"add", "respond", "drop"},
         \A l \in tx[s].want : Free(l), NEW m, NEW status, NEW user,
         SaveMember(s, m, status, user), Compose(m, status, user) => Command
  PROVE  Sound(s)
<1>1. PartyLock \in Locks(s) /\ ~PartyHasActiveApplication
  BY DEF IInv, Under, Editing, Locks
<1>2. Compose(m, status, user) /\ Release(s) BY <1>1 DEF SaveMember, Compose
<1>3. \A t \in Sessions : t # s => Aside(t) BY <1>1, <1>2, NobodyElse, ComposeAside
<1>4. QED BY <1>2, <1>3, CommitSound

\* Adding a member is bringing a guest or inviting a friend.
LEMMA AddMemberSound ==
  ASSUME IInv, NEW s \in Sessions, Standing(s), AddMember(s)
  PROVE  Sound(s)
<1>1. ASSUME NEW m \in Rows \ {Owner},
             Start(s, "add", m, PartyLock, "members", MemberLocks)
      PROVE  Sound(s)
  <2>1. UNCHANGED data /\ tx'[s].op = "add" /\ tx'[s].arg = m /\ tx'[s].step = "members"
    BY <1>1, StartEffect DEF IInv
  <2>2. Standing(s)' BY <2>1 DEF Standing, Composing, Reading, Keeping
  <2>3. QED BY <2>1, <2>2, QuietSound
<1> DEFINE m == tx[s].arg
<1>2. tx[s].op = "add" =>
        /\ m \in Rows /\ member[m].status = "NONE" /\ m # Owner
        /\ tx[s].step = "friendship" => m \in Users /\ \A n \in Rows : ~RegisteredIn(n, m)
  BY DEF IInv, Under, Editing, Standing, Composing
<1> HIDE DEF m
<1>3. CASE /\ At(s, "add", "members")
           /\ IF m \in Users /\ \E n \in Rows : RegisteredIn(n, m) THEN Abort(s)
              ELSE IF m \in Guests THEN SaveMember(s, m, "GUEST", Nil)
              ELSE GoTo(s, "friendship", {FriendLock(m)})
  <2>1. tx[s].op = "add" /\ \A l \in tx[s].want : Free(l) BY <1>3 DEF At
  <2>2. CASE Abort(s) BY <2>2, AbortSound
  <2>3. CASE m \in Guests /\ SaveMember(s, m, "GUEST", Nil)
    <3>1. Compose(m, "GUEST", Nil) => Command BY <1>2, <2>1, <2>3 DEF Bring, Command
    <3>2. QED BY <2>1, <2>3, <3>1, SaveMemberSound
  <2>4. CASE /\ m \notin Guests /\ ~(m \in Users /\ \E n \in Rows : RegisteredIn(n, m))
             /\ GoTo(s, "friendship", {FriendLock(m)})
    <3>1. \A n \in Rows : ~RegisteredIn(n, m) BY <1>2, <2>1, <2>4 DEF Rows
    <3>2. /\ UNCHANGED data /\ tx'[s].op = "add" /\ tx'[s].arg = m
      BY <2>1, <2>4, GoToEffect DEF IInv, m
    <3>3. Standing(s)'
      BY <1>2, <2>1, <3>1, <3>2
      DEF Standing, Composing, Reading, Keeping, RegisteredIn, data
    <3>4. QED BY <3>2, <3>3, QuietSound
  <2>5. QED BY <1>3, <2>2, <2>3, <2>4
<1>4. CASE /\ At(s, "add", "friendship")
           /\ IF friend[m] = "ACCEPTED" THEN SaveMember(s, m, "INVITED", m) ELSE Abort(s)
  <2>1. tx[s].op = "add" /\ tx[s].step = "friendship" /\ \A l \in tx[s].want : Free(l)
    BY <1>4 DEF At
  <2>2. CASE Abort(s) BY <2>2, AbortSound
  <2>3. CASE friend[m] = "ACCEPTED" /\ SaveMember(s, m, "INVITED", m)
    <3>1. Compose(m, "INVITED", m) => Command
      BY <1>2, <2>1, <2>3 DEF Invite, Command
    <3>2. QED BY <2>1, <2>3, <3>1, SaveMemberSound
  <2>4. QED BY <1>4, <2>2, <2>3
<1>5. QED BY <1>1, <1>3, <1>4 DEF AddMember, m

\* Answering an invitation.
LEMMA RespondMemberSound ==
  ASSUME IInv, NEW s \in Sessions, Standing(s), RespondMember(s)
  PROVE  Sound(s)
<1>1. ASSUME NEW m \in Users, NEW answer \in {"CONFIRMED", "DECLINED"},
             Start(s, "respond", <<m, answer>>, PartyLock, "member", {MemberLock(m)})
      PROVE  Sound(s)
  <2>1. UNCHANGED data /\ tx'[s].op = "respond" /\ tx'[s].step = "member"
    BY <1>1, StartEffect DEF IInv
  <2>2. Standing(s)' BY <2>1 DEF Standing, Composing, Reading, Keeping
  <2>3. QED BY <2>1, <2>2, QuietSound
<1>2. CASE /\ At(s, "respond", "member")
           /\ IF member[tx[s].arg[1]].status = "INVITED"
              THEN GoTo(s, "members", MemberLocks) ELSE Abort(s)
  <2>1. tx[s].op = "respond" /\ \A l \in tx[s].want : Free(l) BY <1>2 DEF At
  <2>2. CASE Abort(s) BY <2>2, AbortSound
  <2>3. CASE /\ member[tx[s].arg[1]].status = "INVITED"
             /\ GoTo(s, "members", MemberLocks)
    <3>1. UNCHANGED data /\ tx'[s].op = "respond" /\ tx'[s].arg = tx[s].arg
      BY <2>1, <2>3, GoToEffect DEF IInv
    <3>2. Standing(s)' BY <2>3, <3>1 DEF Standing, Composing, Reading, Keeping, data
    <3>3. QED BY <3>1, <3>2, QuietSound
  <2>4. QED BY <1>2, <2>2, <2>3
<1>3. CASE At(s, "respond", "members") /\ SaveMember(s, tx[s].arg[1], tx[s].arg[2], tx[s].arg[1])
  <2>1. /\ tx[s].op = "respond" /\ tx[s].step = "members"
        /\ \A l \in tx[s].want : Free(l)
    BY <1>3 DEF At
  <2>2. tx[s].arg \in Users \X {"CONFIRMED", "DECLINED"} BY <2>1 DEF IInv, Under, Editing
  <2>3. PICK m \in Users, answer \in {"CONFIRMED", "DECLINED"} : tx[s].arg = <<m, answer>>
    BY <2>2
  <2>4. SaveMember(s, m, answer, m) BY <1>3, <2>3
  <2>5. member[m].status = "INVITED" BY <2>1, <2>3 DEF Standing, Composing
  <2>6. Compose(m, answer, m) => Command BY <2>5 DEF Answer, Command
  <2>7. QED BY <2>1, <2>4, <2>6, SaveMemberSound
<1>4. QED BY <1>1, <1>2, <1>3 DEF RespondMember

\* Leaving, or being removed.
LEMMA RemoveMemberSound ==
  ASSUME IInv, NEW s \in Sessions, Standing(s), RemoveMember(s)
  PROVE  Sound(s)
<1>1. ASSUME NEW m \in InParty \ {Owner},
             Start(s, "drop", m, PartyLock, "member", {MemberLock(m)})
      PROVE  Sound(s)
  <2>1. UNCHANGED data /\ tx'[s].op = "drop" /\ tx'[s].arg = m /\ tx'[s].step = "member"
    BY <1>1, StartEffect DEF IInv
  <2>2. Standing(s)' BY <2>1 DEF Standing, Composing, Reading, Keeping, InParty, data
  <2>3. QED BY <2>1, <2>2, QuietSound
<1>2. CASE /\ At(s, "drop", "member")
           /\ IF member[tx[s].arg].user = Owner THEN Abort(s) ELSE GoTo(s, "members", MemberLocks)
  <2>1. tx[s].op = "drop" /\ \A l \in tx[s].want : Free(l) BY <1>2 DEF At
  <2>2. CASE Abort(s) BY <2>2, AbortSound
  <2>3. CASE member[tx[s].arg].user # Owner /\ GoTo(s, "members", MemberLocks)
    <3>1. UNCHANGED data /\ tx'[s].op = "drop" /\ tx'[s].arg = tx[s].arg
      BY <2>1, <2>3, GoToEffect DEF IInv
    <3>2. Standing(s)' BY <2>1, <2>3, <3>1 DEF Standing, Composing, Reading, Keeping, data
    <3>3. QED BY <3>1, <3>2, QuietSound
  <2>4. QED BY <1>2, <2>2, <2>3
<1>3. CASE /\ At(s, "drop", "members")
           /\ SaveMember(s, tx[s].arg, IF tx[s].arg \in Users THEN "NONE" ELSE "REMOVED", Nil)
  <2>1. /\ tx[s].op = "drop" /\ tx[s].step = "members" /\ \A l \in tx[s].want : Free(l)
    BY <1>3 DEF At
  <2>2. /\ tx[s].arg \in InParty /\ member[tx[s].arg].user # Owner
    BY <2>1 DEF IInv, Under, Editing, Standing, Composing, InParty
  <2>3. PICK m \in InParty : m = tx[s].arg /\ member[m].user # Owner BY <2>2
  <2>4. PICK status : status = IF m \in Users THEN "NONE" ELSE "REMOVED" OBVIOUS
  <2>5. SaveMember(s, m, status, Nil) BY <1>3, <2>3, <2>4
  <2>6. Compose(m, status, Nil) => Command BY <2>3, <2>4 DEF Leave, Command, InParty
  <2>7. QED BY <2>1, <2>5, <2>6, SaveMemberSound
<1>4. QED BY <1>1, <1>2, <1>3 DEF RemoveMember

\* Claiming a guest's row, with the seats the claim has seen.
LEMMA ClaimGuestSound ==
  ASSUME IInv, NEW s \in Sessions, Standing(s), ClaimGuest(s)
  PROVE  Sound(s)
<1>1. ASSUME NEW m \in Guests, NEW u \in Users,
             Start(s, "claim", <<m, u>>, MemberLock(m), "party", {PartyLock})
      PROVE  Sound(s)
  <2>1. /\ UNCHANGED data /\ tx'[s].op = "claim" /\ tx'[s].step = "party"
        /\ Locks(s)' = {MemberLock(m)} \cup {PartyLock}
    BY <1>1, StartEffect DEF IInv
  <2>2. Standing(s)' BY <2>1 DEF Standing, Composing, Reading, Keeping
  <2>3. QED BY <2>1, <2>2, QuietSound
<1>2. ASSUME At(s, "claim", "party"), GoTo(s, "members", MemberLocks)
      PROVE  Sound(s)
  <2>1. tx[s].op = "claim" /\ PartyLock \in Locks(s) /\ \A l \in tx[s].want : Free(l)
    BY <1>2 DEF At, Standing, Composing
  <2>2. /\ UNCHANGED data /\ tx'[s].op = "claim" /\ tx'[s].step = "members"
        /\ held'[s] = Locks(s)
    BY <1>2, <2>1, GoToEffect DEF IInv
  <2>3. PartyLock \in held'[s] /\ PartyLock \in Locks(s)' BY <2>1, <2>2 DEF Locks
  <2>4. Standing(s)' BY <2>2, <2>3 DEF Standing, Composing, Reading, Keeping
  <2>5. QED BY <2>2, <2>4, QuietSound
<1> DEFINE m == tx[s].arg[1]
           u == tx[s].arg[2]
<1>3. tx[s].op = "claim" => m \in Guests /\ u \in Users /\ GuestClaimable(m)
                            /\ MemberLock(m) \in held[s]
  BY DEF IInv, Under, Claiming, GuestClaimable
<1>4. ASSUME At(s, "claim", "members"), ~\E n \in Rows \ {m} : RegisteredIn(n, u),
             Continue(s, [tx[s] EXCEPT !.step = "seats", !.taken = GuestSeats(m),
                                       !.want = {SeatLock(x) : x \in GuestSeats(m)}])
      PROVE  Sound(s)
  <2>0. PICK t : t = tx[s] OBVIOUS
  <2>1. PICK next : next = [t EXCEPT !.step = "seats", !.taken = GuestSeats(m),
                                     !.want = {SeatLock(x) : x \in GuestSeats(m)}]
    OBVIOUS
  <2>2. IsRow(t) BY <2>0 DEF IInv, SessionTypes
  <2>3. /\ IsRow(next) /\ next.op = t.op /\ next.arg = t.arg /\ next.step = "seats"
        /\ next.taken = GuestSeats(m)
    BY <2>1, <2>2 DEF IsRow
  <2>4. Continue(s, next) BY <1>4, <2>0, <2>1
  <2>5. tx[s].op = "claim" /\ tx[s].step = "members" /\ PartyLock \in Locks(s)
    BY <1>4 DEF At, Standing, Composing
  <2>6. /\ UNCHANGED data /\ tx'[s].op = "claim" /\ tx'[s].arg = tx[s].arg
        /\ tx'[s].step = "seats" /\ tx'[s].taken = GuestSeats(m) /\ held'[s] = Locks(s)
    BY <2>0, <2>3, <2>4, <2>5, ContinueColumns
  <2>7. PartyLock \in held'[s] /\ PartyLock \in Locks(s)' BY <2>5, <2>6 DEF Locks
  <2>8. \A n \in Rows \ {tx'[s].arg[1]} : ~RegisteredIn(n, tx[s].arg[2])'
    BY <1>4, <2>6 DEF RegisteredIn, data
  <2>9. \A x \in tx'[s].taken : account'[x] = Nil BY <2>6 DEF GuestSeats, data
  <2>10. Composing(s)' BY <2>6, <2>7, <2>8, <2>9 DEF Composing
  <2>11. Standing(s)' BY <2>6, <2>10 DEF Standing, Reading, Keeping
  <2>12. QED BY <2>6, <2>11, QuietSound
<1>5. ASSUME At(s, "claim", "seats"), Claimed(s, m, u), Release(s)
      PROVE  Sound(s)
  <2>1. /\ tx[s].op = "claim" /\ tx[s].step = "seats" /\ \A l \in tx[s].want : Free(l)
    BY <1>5 DEF At
  <2>2. PICK n \in Guests, v \in Users : n = m /\ v = u BY <1>3, <2>1
  <2>0. PICK reached : reached = tx[s].taken OBVIOUS
  <2>3. /\ \A x \in tx[s].taken : x \in Seats /\ x[2] = m /\ seat[x] # "NONE" /\ account[x] = Nil
        /\ \A k \in Rows \ {m} : ~RegisteredIn(k, u)
        /\ PartyLock \in Locks(s)
    BY <2>1 DEF IInv, Under, Claiming, Standing, Composing
  <2>4. reached \in SUBSET GuestSeats(n) BY <2>0, <2>2, <2>3 DEF GuestSeats
  <2>5. Claim(n, v, reached) BY <1>3, <1>5, <2>0, <2>1, <2>2, <2>3 DEF Claimed, Claim
  <2>6. Command BY <2>4, <2>5 DEF Command
  <2>7. MemberLock(n) \in Locks(s) BY <1>3, <2>1, <2>2 DEF Locks
  <2>8. \A t \in Sessions : t # s => Aside(t)
    BY <2>1, <2>3, <2>4, <2>5, <2>7, NobodyElse, ClaimAside
  <2>9. QED BY <1>5, <2>6, <2>8, CommitSound
<1>6. QED BY <1>1, <1>2, <1>4, <1>5, AbortSound DEF ClaimGuest, Claimed

\* Filing for the party.
LEMMA ApplyWithPartySound ==
  ASSUME IInv, NEW s \in Sessions, Standing(s), ApplyWithParty(s)
  PROVE  Sound(s)
<1>1. ASSUME NEW a \in Apps, NEW r \in Rooms, room[r] = "OPEN",
             Start(s, "apply", <<a, r>>, RoomLock(r), "party", {PartyLock})
      PROVE  Sound(s)
  <2>1. UNCHANGED data /\ tx'[s].op = "apply" /\ tx'[s].arg = <<a, r>>
    BY <1>1, StartEffect DEF IInv
  <2>2. Standing(s)' BY <1>1, <2>1 DEF Standing, Composing, Reading, Keeping, data
  <2>3. QED BY <2>1, <2>2, QuietSound
<1>2. CASE /\ At(s, "apply", "party")
           /\ IF party = "READY" THEN GoTo(s, "members", MemberLocks) ELSE Abort(s)
  <2>1. tx[s].op = "apply" /\ \A l \in tx[s].want : Free(l) BY <1>2 DEF At
  <2>2. CASE Abort(s) BY <2>2, AbortSound
  <2>3. CASE GoTo(s, "members", MemberLocks)
    <3>1. UNCHANGED data /\ tx'[s].op = "apply" /\ tx'[s].arg = tx[s].arg
      BY <2>1, <2>3, GoToEffect DEF IInv
    <3>2. Standing(s)' BY <2>1, <3>1 DEF Standing, Composing, Reading, Keeping, data
    <3>3. QED BY <3>1, <3>2, QuietSound
  <2>4. QED BY <1>2, <2>2, <2>3
<1>3. ASSUME At(s, "apply", "members"), Release(s),
             InsertApplication(tx[s].arg[1], tx[s].arg[2], Party)
      PROVE  Sound(s)
  <2>1. tx[s].op = "apply" /\ tx[s].step = "members" BY <1>3 DEF At
  <2>2. tx[s].arg \in Apps \X Rooms /\ party = "READY" /\ room[tx[s].arg[2]] = "OPEN"
    BY <2>1 DEF IInv, Under, Filing, Standing, Keeping
  <2>3. PICK a \in Apps, r \in Rooms : a = tx[s].arg[1] /\ r = tx[s].arg[2] BY <2>2
  <2>4. InsertApplication(a, r, Party) /\ File(a, r, Party)
    BY <1>3, <2>2, <2>3 DEF File
  <2>5. Command BY <2>4 DEF Command
  <2>6. \A t \in Sessions : t # s => Aside(t) BY <2>4, FileAside
  <2>7. QED BY <1>3, <2>5, <2>6, CommitSound
<1>4. QED BY <1>1, <1>2, <1>3, AbortSound DEF ApplyWithParty

\* Rejecting an application.
LEMMA RejectApplicationSound ==
  ASSUME IInv, NEW s \in Sessions, Standing(s), RejectApplication(s)
  PROVE  Sound(s)
<1>1. ASSUME NEW a \in Apps, Start(s, "reject", a, AppLock(a), "room", RoomToLock(a))
      PROVE  Sound(s)
  <2>1. UNCHANGED data /\ tx'[s].op = "reject" BY <1>1, StartEffect DEF IInv
  <2>2. Standing(s)' BY <2>1 DEF Standing, Composing, Reading, Keeping
  <2>3. QED BY <2>1, <2>2, QuietSound
<1>2. ASSUME At(s, "reject", "room"), Resolve(tx[s].arg, "REJECTED"), Release(s)
      PROVE  Sound(s)
  <2>1. tx[s].arg \in Apps /\ app[tx[s].arg].status \in Pending
    BY <1>2 DEF At, IInv, Under, Answering
  <2>2. PICK a \in Apps : a = tx[s].arg BY <2>1
  <2>3. Decline(a, "REJECTED") BY <1>2, <2>1, <2>2 DEF Decline
  <2>4. Command BY <2>3 DEF Command
  <2>5. \A t \in Sessions : t # s => Aside(t) BY <2>3, DeclineAside
  <2>6. QED BY <1>2, <2>4, <2>5, CommitSound
<1>3. QED BY <1>1, <1>2 DEF RejectApplication

\* Taking a seat away.
LEMMA RemoveParticipantSound ==
  ASSUME IInv, NEW s \in Sessions, Standing(s), RemoveParticipant(s)
  PROVE  Sound(s)
<1>1. ASSUME NEW x \in Seats, seat[x] = "ACTIVE",
             Start(s, "remove", x, SeatLock(x), "room", {RoomLock(app[x[1]].room)})
      PROVE  Sound(s)
  <2>1. UNCHANGED data /\ tx'[s].op = "remove" /\ tx'[s].arg = x /\ held'[s] = {SeatLock(x)}
    BY <1>1, StartEffect DEF IInv
  <2>2. Standing(s)' BY <1>1, <2>1 DEF Standing, Composing, Reading, Keeping, data
  <2>3. QED BY <2>1, <2>2, QuietSound
<1>2. ASSUME At(s, "remove", "room"), Release(s), room[app[tx[s].arg[1]].room] = "OPEN",
             seat' = [seat EXCEPT ![tx[s].arg] = "REMOVED_BY_HOST"],
             UNCHANGED <<friend, party, member, room, app, account, stale>>
      PROVE  Sound(s)
  <2>1. tx[s].op = "remove" /\ \A l \in tx[s].want : Free(l) BY <1>2 DEF At
  <2>2. tx[s].arg \in Seats /\ seat[tx[s].arg] = "ACTIVE" /\ SeatLock(tx[s].arg) \in Locks(s)
    BY <2>1 DEF IInv, Under, Removing, Standing, Keeping, Locks
  <2>3. PICK x \in Seats : x = tx[s].arg BY <2>2
  <2>4. TakeAway(x) BY <1>2, <2>2, <2>3 DEF TakeAway
  <2>5. Command BY <2>4 DEF Command
  <2>6. \A t \in Sessions : t # s => Aside(t)
    BY <2>1, <2>2, <2>3, <2>4, NobodyElse, TakeAwayAside
  <2>7. QED BY <1>2, <2>5, <2>6, CommitSound
<1>3. QED BY <1>1, <1>2, AbortSound DEF RemoveParticipant

\* A player who leaves takes along the guests he has when he commits.
LEMMA CancelParticipantSound ==
  ASSUME IInv, NEW s \in Sessions, Standing(s), CancelParticipant(s)
  PROVE  Sound(s)
<1>1. ASSUME NEW x \in Seats, seat[x] = "ACTIVE", account[x] # Nil,
             Start(s, "leave", x, SeatLock(x), "room", {RoomLock(app[x[1]].room)})
      PROVE  Sound(s)
  <2>1. /\ UNCHANGED data /\ tx'[s].op = "leave" /\ tx'[s].arg = x /\ tx'[s].step = "room"
        /\ held'[s] = {SeatLock(x)} /\ Locks(s)' = {SeatLock(x)} \cup {RoomLock(app[x[1]].room)}
    BY <1>1, StartEffect DEF IInv
  <2>2. Leaving(s, x)' BY <1>1, <2>1 DEF Leaving, data
  <2>3. Leaving(s, tx[s].arg)' BY <2>1, <2>2 DEF Leaving
  <2>4. Standing(s)' BY <1>1, <2>1, <2>3 DEF Standing, Composing, Reading, Keeping, data
  <2>5. QED BY <2>1, <2>4, QuietSound
<1>2. tx[s].op = "leave" =>
        /\ tx[s].arg \in Seats /\ seat[tx[s].arg] = "ACTIVE" /\ SeatLock(tx[s].arg) \in held[s]
        /\ Leaving(s, tx[s].arg)
  BY DEF IInv, Under, Removing, Standing, Keeping
<1>3. ASSUME At(s, "leave", "room"), NEW x, x = tx[s].arg, room[app[x[1]].room] = "OPEN",
             NEW found, found = GuestsOf(x), NEW locks, \A y \in found : SeatLock(y) \in locks,
             Continue(s, [tx[s] EXCEPT !.step = "guests", !.taken = found, !.want = locks])
      PROVE  Sound(s)
  <2>0. PICK t : t = tx[s] OBVIOUS
  <2>1. PICK next : next = [t EXCEPT !.step = "guests", !.taken = found, !.want = locks]
    OBVIOUS
  <2>2. IsRow(t) /\ t.op = "leave" /\ t.seen \in Snapshots /\ t.left \subseteq Users
        /\ \A l \in tx[s].want : Free(l)
    BY <1>3, <2>0 DEF IInv, SessionTypes, At
  <2>3. /\ IsRow(next) /\ next.op = "leave" /\ next.arg = x /\ next.step = "guests"
        /\ next.taken = found /\ next.want = locks /\ next.seen = t.seen /\ next.left = t.left
    BY <1>3, <2>0, <2>1, <2>2 DEF IsRow
  <2>4. Continue(s, next) BY <1>3, <2>0, <2>1
  <2>5. /\ UNCHANGED data /\ tx'[s].op = "leave" /\ tx'[s].arg = x /\ tx'[s].step = "guests"
        /\ tx'[s].taken = found /\ held'[s] = Locks(s) /\ Locks(s)' = Locks(s) \cup locks
    BY <2>0, <2>2, <2>3, <2>4, ContinueEffect DEF IInv
  <2>6. /\ x \in Seats /\ seat[x] = "ACTIVE" /\ SeatLock(x) \in held[s] /\ account[x] # Nil
        /\ RoomLock(app[x[1]].room) \in Locks(s)
    BY <1>2, <1>3, <2>0, <2>2 DEF Leaving
  <2>7. GuestsOf(x)' = GuestsOf(x) BY <2>5 DEF GuestsOf, data
  <2>8. Leaving(s, x)' BY <1>3, <2>5, <2>6, <2>7 DEF Leaving, data
  <2>9. Leaving(s, tx[s].arg)'
    <3>1. GuestsOf(tx[s].arg)' = GuestsOf(x)' BY <2>5 DEF GuestsOf
    <3>2. QED BY <2>5, <2>8, <3>1 DEF Leaving
  <2>10. SeatLock(x) \in held'[s] /\ seat'[x] = "ACTIVE" BY <2>5, <2>6 DEF Locks, data
  <2>11. Standing(s)' BY <2>5, <2>9, <2>10 DEF Standing, Composing, Reading, Keeping
  <2>12. QED BY <2>5, <2>11, QuietSound
<1>4. ASSUME tx[s].op = "leave", \A l \in tx[s].want : Free(l), NEW x, x = tx[s].arg,
             room[app[x[1]].room] = "OPEN", GiveUpSeats(s, {x} \cup GuestsOf(x)),
             \A y \in GuestsOf(x) : SeatLock(y) \in Locks(s)
      PROVE  Sound(s)
  <2>1. x \in Seats /\ seat[x] = "ACTIVE" /\ SeatLock(x) \in Locks(s) /\ account[x] # Nil
    BY <1>2, <1>4 DEF Leaving, Locks
  <2>2. GiveUp(x) /\ Release(s) BY <1>4, <2>1 DEF GiveUp, GiveUpSeats
  <2>3. Command BY <2>1, <2>2 DEF Command
  <2>4. \A t \in Sessions : t # s => Aside(t)
    BY <1>4, <2>1, <2>2, NobodyElse, GiveUpAside
  <2>5. QED BY <2>2, <2>3, <2>4, CommitSound
<1>5. ASSUME At(s, "leave", "room"), NEW x, x = tx[s].arg, room[app[x[1]].room] = "OPEN",
             GuestsOf(x) = {}, GiveUpSeats(s, {x})
      PROVE  Sound(s)
  <2>1. {x} = {x} \cup GuestsOf(x) BY <1>5
  <2>2. QED BY <1>4, <1>5, <2>1 DEF At
<1>6. ASSUME At(s, "leave", "guests"),
             GiveUpSeats(s, {tx[s].arg} \cup (tx[s].taken \cap GuestsOf(tx[s].arg)))
      PROVE  Sound(s)
  <2>1. PICK x : x = tx[s].arg OBVIOUS
  <2>2. /\ room[app[x[1]].room] = "OPEN" /\ GuestsOf(x) \subseteq tx[s].taken
        /\ \A y \in tx[s].taken : SeatLock(y) \in Locks(s)
    BY <1>2, <1>6, <2>1 DEF At, Leaving
  <2>3. {tx[s].arg} \cup (tx[s].taken \cap GuestsOf(tx[s].arg)) = {x} \cup GuestsOf(x)
    BY <2>1, <2>2
  <2>4. PICK gone : gone = {x} \cup GuestsOf(x) OBVIOUS
  <2>5. GiveUpSeats(s, gone) BY <1>6, <2>3, <2>4
  <2>6. \A y \in GuestsOf(x) : SeatLock(y) \in Locks(s) BY <2>2
  <2>7. tx[s].op = "leave" /\ \A l \in tx[s].want : Free(l) BY <1>6 DEF At
  <2>8. GiveUpSeats(s, {x} \cup GuestsOf(x)) BY <2>4, <2>5
  <2>9. QED BY <1>4, <2>1, <2>2, <2>6, <2>7, <2>8
<1>7. ASSUME At(s, "leave", "room"), NEW x, x = tx[s].arg, NEW found, found = GuestsOf(x),
             IF room[app[x[1]].room] # "OPEN" THEN Abort(s)
             ELSE IF found = {} THEN GiveUpSeats(s, {x})
             ELSE Continue(s, [tx[s] EXCEPT !.step = "guests", !.taken = found,
                                            !.want = {SeatLock(y) : y \in found}
                                                       \cup {AppLock(x[1]), PartyLock}])
      PROVE  Sound(s)
  <2>1. PICK locks : locks = {SeatLock(y) : y \in found} \cup {AppLock(x[1]), PartyLock}
    OBVIOUS
  <2>2. \A y \in found : SeatLock(y) \in locks BY <2>1
  <2>3. CASE room[app[x[1]].room] # "OPEN" BY <1>7, <2>3, AbortSound
  <2>4. CASE room[app[x[1]].room] = "OPEN" /\ found = {} BY <1>5, <1>7, <2>4
  <2>5. CASE room[app[x[1]].room] = "OPEN" /\ found # {}
    BY <1>3, <1>7, <2>1, <2>2, <2>5
  <2>6. QED BY <2>3, <2>4, <2>5
<1>8. QED BY <1>1, <1>6, <1>7 DEF CancelParticipant

\* Cancelling a room.
LEMMA CancelRoomSound ==
  ASSUME IInv, NEW s \in Sessions, Standing(s), CancelRoom(s)
  PROVE  Sound(s)
<1>1. ASSUME NEW r \in Rooms, room[r] = "OPEN",
             Start(s, "cancel", r, RoomLock(r), "seats", {SeatLock(x) : x \in Active(r)})
      PROVE  Sound(s)
  <2>1. /\ UNCHANGED data /\ tx'[s].op = "cancel" /\ tx'[s].arg = r
        /\ Locks(s)' = {RoomLock(r)} \cup {SeatLock(x) : x \in Active(r)}
    BY <1>1, StartEffect DEF IInv
  <2>2. Active(r)' = Active(r) BY <2>1 DEF Active, data
  <2>3. Active(tx[s].arg)' = Active(r)' BY <2>1 DEF Active
  <2>4. Keeping(s)' BY <1>1, <2>1, <2>2, <2>3 DEF Keeping, data
  <2>5. Standing(s)' BY <2>1, <2>4 DEF Standing, Composing, Reading
  <2>6. QED BY <2>1, <2>5, QuietSound
<1>2. ASSUME At(s, "cancel", "seats"),
             GoTo(s, "applications", {AppLock(a) : a \in PendingOf(tx[s].arg)})
      PROVE  Sound(s)
  <2>1. tx[s].op = "cancel" /\ \A l \in tx[s].want : Free(l) BY <1>2 DEF At
  <2>2. /\ UNCHANGED data /\ tx'[s].op = "cancel" /\ tx'[s].arg = tx[s].arg
        /\ Locks(s) \subseteq Locks(s)'
    BY <1>2, <2>1, GoToEffect DEF IInv
  <2>3. Keeping(s)' BY <2>1, <2>2 DEF Standing, Keeping, data, Active
  <2>4. Standing(s)' BY <2>2, <2>3 DEF Standing, Composing, Reading
  <2>5. QED BY <2>2, <2>4, QuietSound
<1>3. ASSUME At(s, "cancel", "applications"), Cancelled(tx[s].arg), Release(s)
      PROVE  Sound(s)
  <2>1. tx[s].op = "cancel" /\ \A l \in tx[s].want : Free(l) BY <1>3 DEF At
  <2>2. PICK r : r = tx[s].arg OBVIOUS
  <2>3. /\ r \in Rooms /\ RoomLock(r) \in Locks(s) /\ room[r] = "OPEN"
        /\ \A x \in Active(r) : SeatLock(x) \in Locks(s)
    BY <2>1, <2>2 DEF IInv, Under, Closing, Standing, Keeping, Locks
  <2>4. Cancel(r) BY <1>3, <2>2, <2>3 DEF Cancelled, Cancel
  <2>5. Command BY <2>3, <2>4 DEF Command
  <2>6. \A t \in Sessions : t # s => Aside(t)
    BY <2>1, <2>3, <2>4, NobodyElse, CancelAside
  <2>7. QED BY <1>3, <2>5, <2>6, CommitSound
<1>4. QED BY <1>1, <1>2, <1>3 DEF CancelRoom, Cancelled

\* An acceptance that goes on reads nothing new of its members, and finds only
\* applications for other rooms.
LEMMA AcceptReads ==
  ASSUME IInv, NEW s \in Sessions, Standing(s), tx[s].op = "accept", NEW next, IsRow(next),
         Continue(s, next), next.op = "accept", next.arg = tx[s].arg,
         \A b \in next.taken : b \in tx[s].taken \/ app[b].room # app[tx[s].arg].room,
         \/ next.seen = app[tx[s].arg].users
         \/ next.seen = tx[s].seen /\ tx[s].step \in {"schedules", "overlaps"}
  PROVE  Sound(s)
<1>1. /\ UNCHANGED data /\ tx'[s].op = "accept" /\ tx'[s].arg = tx[s].arg
      /\ tx'[s].seen = next.seen /\ tx'[s].taken = next.taken
  BY ContinueColumns
<1>2. \A b \in next.taken : app'[b].room # app'[tx[s].arg].room
  BY <1>1 DEF Standing, Reading, data
<1>3. \A m \in DOMAIN next.seen :
        next.seen[m] = app'[tx[s].arg].users[m] \/ (m \in Guests /\ next.seen[m] = Nil)
  BY <1>1 DEF Standing, Reading, data
<1>4. Reading(s)' BY <1>1, <1>2, <1>3 DEF Reading
<1>5. Standing(s)' BY <1>1, <1>4 DEF Standing, Composing, Keeping
<1>6. QED BY <1>1, <1>5, QuietSound

\* An acceptance that is through with its statements seats the members it has read.
LEMMA AcceptCommits ==
  ASSUME IInv, NEW s \in Sessions, Standing(s), tx[s].op = "accept", tx[s].step = "overlaps",
         NEW a, a = tx[s].arg, NEW users, users = tx[s].seen, NEW mine,
         mine = {x \in Seats : x[1] = a /\ x[2] \in DOMAIN users}, Accepted(s, a, mine)
  PROVE  Accept(a, users, tx[s].taken) /\ Command
<1>1. PICK r : r = app[a].room OBVIOUS
<1>2. Decided(s, a, r, users, mine) BY <1>1, AcceptedIsDecided
<1>3. /\ a \in Apps /\ app[a].status \in Pending /\ room[r] = "OPEN"
      /\ users \in Snapshots /\ DOMAIN users = DOMAIN app[a].users
      /\ \A u \in Known(users) : ~Elsewhere(u, r)
  BY <1>2 DEF Decided
<1>4. Cardinality(DOMAIN users) <= AvailablePublicSlots(r)
  <2>1. AvailablePublicSlots(r) \in Int BY SlotsFacts
  <2>2. DOMAIN users \subseteq Rows BY <1>3, SnapshotFacts
  <2>3. IsFiniteSet(DOMAIN users) BY <2>2, FS_Subset, TransactionsAssumption
  <2>4. Cardinality(DOMAIN users) \in Nat BY <2>3, FS_CardinalityType
  <2>5. QED BY <1>2, <2>1, <2>4 DEF Decided
<1>5. \A x \in Seats : seat[x] = "ACTIVE" /\ x[2] \in Known(users) => app[x[1]].room = r
  BY <1>3 DEF Elsewhere
<1>6. Accept(a, users, tx[s].taken) BY <1>1, <1>3, <1>4, <1>5 DEF Accepted, Accept
<1>7. users \in MembersRead(app[a].users)
  <2>1. users \in [DOMAIN app[a].users -> Accounts] BY <1>3, SnapshotFacts
  <2>2. \A m \in DOMAIN app[a].users :
          users[m] = app[a].users[m] \/ (m \in Guests /\ users[m] = Nil)
    BY <1>3 DEF Standing, Reading
  <2> DEFINE before == {m \in DOMAIN users : m \in Guests /\ users[m] = Nil}
  <2>3. before \in SUBSET (DOMAIN app[a].users \cap Guests) BY <2>1
  <2>4. users = [m \in DOMAIN app[a].users |-> IF m \in before THEN Nil ELSE app[a].users[m]]
    BY <2>1, <2>2
  <2>5. QED BY <2>3, <2>4 DEF MembersRead
<1>8. tx[s].taken \in SUBSET TakenBack(users, r)
  <2>1. \A b \in tx[s].taken :
          /\ b \in Apps /\ app[b].status # "NONE"
          /\ app[b].status = "ACCEPTED" => b \in Tangled
          /\ Known(users) \cap Known(app[b].users) # {}
    BY DEF IInv, Under, Accepting
  <2>2. \A b \in tx[s].taken : app[b].room # r BY <1>1 DEF Standing, Reading
  <2>3. QED BY <2>1, <2>2 DEF TakenBack
<1>9. QED BY <1>1, <1>3, <1>6, <1>7, <1>8 DEF Command

\* Accepting an application.
LEMMA AcceptApplicationSound ==
  ASSUME IInv, NEW s \in Sessions, Standing(s), AcceptApplication(s)
  PROVE  Sound(s)
<1>0. PICK t : t = tx[s] OBVIOUS
<1>1. IsRow(t) /\ (t.op = "accept" /\ t.step # "overlaps" => t.taken = {})
  BY <1>0 DEF IInv, SessionTypes, Under, Accepting
<1>2. ASSUME NEW a \in Apps, Start(s, "accept", a, AppLock(a), "room", RoomToLock(a))
      PROVE  Sound(s)
  <2>1. /\ UNCHANGED data /\ tx'[s].op = "accept" /\ tx'[s].step = "room"
        /\ tx'[s].taken = {}
    BY <1>2, StartEffect DEF IInv
  <2>2. Standing(s)' BY <2>1 DEF Standing, Composing, Reading, Keeping
  <2>3. QED BY <2>1, <2>2, QuietSound
<1>3. ASSUME At(s, "accept", "room"), NEW users, users = app[tx[s].arg].users,
             Continue(s, [tx[s] EXCEPT !.step = "schedules",
                                       !.want = NextSchedule(Known(users)),
                                       !.seen = users, !.left = Known(users)])
      PROVE  Sound(s)
  <2>1. PICK next : next = [t EXCEPT !.step = "schedules", !.want = NextSchedule(Known(users)),
                                     !.seen = users, !.left = Known(users)]
    OBVIOUS
  <2>2. /\ IsRow(next) /\ next.op = t.op /\ next.arg = t.arg /\ next.seen = users
        /\ next.taken = t.taken
    BY <1>1, <2>1 DEF IsRow
  <2>3. Continue(s, next) BY <1>0, <1>3, <2>1
  <2>4. tx[s].op = "accept" BY <1>3 DEF At
  <2>5. QED BY <1>0, <1>3, <2>2, <2>3, <2>4, AcceptReads
<1>4. ASSUME At(s, "accept", "schedules"), NEW rest, rest # {},
             Continue(s, [tx[s] EXCEPT !.want = NextSchedule(rest), !.left = rest])
      PROVE  Sound(s)
  <2>1. PICK next : next = [t EXCEPT !.want = NextSchedule(rest), !.left = rest] OBVIOUS
  <2>2. /\ IsRow(next) /\ next.op = t.op /\ next.arg = t.arg /\ next.seen = t.seen
        /\ next.taken = t.taken
    BY <1>1, <2>1 DEF IsRow
  <2>3. Continue(s, next) BY <1>0, <1>4, <2>1
  <2>4. tx[s].op = "accept" /\ tx[s].step = "schedules" BY <1>4 DEF At
  <2>5. QED BY <1>0, <2>2, <2>3, <2>4, AcceptReads
<1>5. ASSUME At(s, "accept", "schedules"),
             Continue(s, [tx[s] EXCEPT !.step = "overlaps", !.want = {},
                                       !.left = Known(tx[s].seen)])
      PROVE  Sound(s)
  <2>1. PICK next : next = [t EXCEPT !.step = "overlaps", !.want = {}, !.left = Known(t.seen)]
    OBVIOUS
  <2>2. /\ IsRow(next) /\ next.op = t.op /\ next.arg = t.arg /\ next.seen = t.seen
        /\ next.taken = t.taken
    BY <1>1, <2>1 DEF IsRow
  <2>3. Continue(s, next) BY <1>0, <1>5, <2>1
  <2>4. tx[s].op = "accept" /\ tx[s].step = "schedules" BY <1>5 DEF At
  <2>5. QED BY <1>0, <2>2, <2>3, <2>4, AcceptReads
<1>6. ASSUME At(s, "accept", "overlaps"), NEW left, NEW u, NEW found,
             found = Candidates(tx[s].arg, u) \ tx[s].taken,
             Continue(s, [tx[s] EXCEPT !.want = {AppLock(b) : b \in found},
                                       !.left = left, !.taken = tx[s].taken \cup found])
      PROVE  Sound(s)
  <2>1. PICK next : next = [t EXCEPT !.want = {AppLock(b) : b \in found},
                                     !.left = left, !.taken = t.taken \cup found]
    OBVIOUS
  <2>2. /\ IsRow(next) /\ next.op = t.op /\ next.arg = t.arg /\ next.seen = t.seen
        /\ next.taken = t.taken \cup found
    BY <1>1, <2>1 DEF IsRow
  <2>3. Continue(s, next) BY <1>0, <1>6, <2>1
  <2>4. tx[s].op = "accept" /\ tx[s].step = "overlaps" BY <1>6 DEF At
  <2>5. \A b \in found : app[b].room # app[tx[s].arg].room BY <1>6 DEF Candidates
  <2>6. QED BY <1>0, <2>2, <2>3, <2>4, <2>5, AcceptReads
<1> DEFINE mine == {x \in Seats : x[1] = tx[s].arg /\ x[2] \in DOMAIN tx[s].seen}
<1>7. ASSUME At(s, "accept", "overlaps"), Accepted(s, tx[s].arg, mine), Release(s)
      PROVE  Sound(s)
  <2>1. tx[s].op = "accept" /\ tx[s].step = "overlaps" /\ \A l \in tx[s].want : Free(l)
    BY <1>7 DEF At
  <2>2. PICK own : own = mine OBVIOUS
  <2>3. PICK a, users, back : a = tx[s].arg /\ users = tx[s].seen /\ back = tx[s].taken OBVIOUS
  <2>4. Accepted(s, a, own) BY <1>7, <2>2, <2>3
  <2>5. Accept(a, users, back) /\ Command BY <2>1, <2>2, <2>3, <2>4, AcceptCommits
  <2>6. a \in Apps /\ RoomLock(app[a].room) \in Locks(s)
    BY <2>1, <2>3 DEF IInv, Under, Answering, Accepting, Locks
  <2>7. \A l \in tx[s].want : Free(l) BY <2>1
  <2>8. \A k \in Sessions : k # s => Aside(k)
    BY <2>5, <2>6, <2>7, NobodyElse, AcceptAside
  <2>9. QED BY <1>7, <2>5, <2>8, CommitSound
<1>8. CASE /\ At(s, "accept", "room")
           /\ LET users == app[tx[s].arg].users IN
              IF room[app[tx[s].arg].room] # "OPEN" THEN Abort(s)
              ELSE Continue(s, [tx[s] EXCEPT !.step = "schedules",
                                             !.want = NextSchedule(Known(users)),
                                             !.seen = users, !.left = Known(users)])
  BY <1>3, <1>8, AbortSound
<1>9. CASE /\ At(s, "accept", "schedules")
           /\ LET u == Least(tx[s].left)
                  rest == tx[s].left \ {u}
                  r == app[tx[s].arg].room
              IN  IF \/ HasActiveScheduleConflict(u, r)
                     \/ rest = {} /\ AvailablePublicSlots(r) < Cardinality(DOMAIN tx[s].seen)
                  THEN Abort(s)
                  ELSE IF rest # {}
                  THEN Continue(s, [tx[s] EXCEPT !.want = NextSchedule(rest), !.left = rest])
                  ELSE Continue(s, [tx[s] EXCEPT !.step = "overlaps", !.want = {},
                                                 !.left = Known(tx[s].seen)])
  BY <1>4, <1>5, <1>9, AbortSound
<1>10. CASE /\ At(s, "accept", "overlaps") /\ tx[s].left # {}
            /\ LET u == Least(tx[s].left)  found == Candidates(tx[s].arg, u) \ tx[s].taken  IN
               Continue(s, [tx[s] EXCEPT !.want = {AppLock(b) : b \in found},
                                         !.left = tx[s].left \ {u},
                                         !.taken = tx[s].taken \cup found])
  BY <1>6, <1>10
<1>11. QED BY <1>2, <1>7, <1>8, <1>9, <1>10 DEF AcceptApplication, Accepted

\* Commands of one statement are what they are.
LEMMA ShortCommandSound ==
  ASSUME IInv, ShortCommand
  PROVE  Command /\ \A t \in Sessions : Aside(t)
<1>1. ASSUME NEW u \in Users \ {Owner}, RequestFriendship(u) \/ RespondFriendship(u)
      PROVE  Command /\ \A t \in Sessions : Aside(t)
  <2>1. Befriends(u) BY <1>1 DEF RequestFriendship, RespondFriendship, Befriend, Befriends
  <2>2. Command BY <2>1 DEF Command
  <2>3. \A t \in Sessions : Aside(t) BY <2>1 DEF Befriends, Aside, Active
  <2>4. QED BY <2>2, <2>3
<1>2. ASSUME NEW u \in Singles, ApplyAlone(u)
      PROVE  Command /\ \A t \in Sessions : Aside(t)
  <2>1. PICK a \in Apps, r \in Rooms : room[r] = "OPEN" /\ InsertApplication(a, r, u)
    BY <1>2 DEF ApplyAlone
  <2>2. u # Party BY TransactionsAssumption
  <2>3. File(a, r, u) BY <2>1, <2>2 DEF File
  <2>4. Command BY <2>3 DEF Command
  <2>5. QED BY <2>1, <2>4, FileAside
<1>3. ASSUME NEW a \in Apps, WithdrawApplication(a)
      PROVE  Command /\ \A t \in Sessions : Aside(t)
  <2>1. Decline(a, "WITHDRAWN") BY <1>3 DEF WithdrawApplication, Decline
  <2>2. Command BY <2>1 DEF Command
  <2>3. QED BY <2>1, <2>2, DeclineAside
<1>4. QED BY <1>1, <1>2, <1>3 DEF ShortCommand

\* What commands know stands still, and every step is one command or none.
LEMMA NextSound ==
  ASSUME IInv, \A s \in Sessions : Standing(s), [Next]_vars
  PROVE  [Command]_data /\ \A s \in Sessions : Standing(s)'
<1>1. ASSUME UNCHANGED <<tx, held>>, \A s \in Sessions : Aside(s)
      PROVE  \A s \in Sessions : Standing(s)'
  BY <1>1, AsideStands
<1>2. ASSUME NEW s \in Sessions, Sound(s), Kept(s)
      PROVE  [Command]_data /\ \A t \in Sessions : Standing(t)'
  <2>1. \A t \in Sessions : t # s => tx'[t] = tx[t] /\ held'[t] = held[t] /\ Aside(t)
    BY <1>2 DEF Kept, Moves, Sound
  <2>2. \A t \in Sessions : t # s => Standing(t)' BY <2>1, AsideStands
  <2>3. QED BY <1>2, <2>2 DEF Sound
<1>3. CASE ShortCommand
  <2>1. UNCHANGED <<tx, held>> BY <1>3, ShortCommandKept
  <2>2. QED BY <1>1, <1>3, <2>1, ShortCommandSound
<1>4. ASSUME NEW s \in Sessions, Statement(s) \/ Acquire(s) \/ BreakDeadlock(s)
      PROVE  [Command]_data /\ \A t \in Sessions : Standing(t)'
  <2>1. Kept(s) BY <1>4, StatementKept, AcquireKept, AbortKept DEF BreakDeadlock
  <2>2. CASE Statement(s)
    <3>1. Sound(s)
      BY <2>2, AddMemberSound, RespondMemberSound, RemoveMemberSound, ClaimGuestSound,
         ApplyWithPartySound, RejectApplicationSound, AcceptApplicationSound,
         RemoveParticipantSound, CancelParticipantSound, CancelRoomSound
      DEF Statement
    <3>2. QED BY <1>2, <2>1, <3>1
  <2>3. CASE Acquire(s) BY <1>2, <2>1, <2>3, AcquireSound
  <2>4. CASE BreakDeadlock(s) BY <1>2, <2>1, <2>4, AbortSound DEF BreakDeadlock
  <2>5. QED BY <1>4, <2>2, <2>3, <2>4
<1>5. CASE UNCHANGED vars
  <2>1. UNCHANGED <<tx, held>> /\ UNCHANGED data BY <1>5 DEF vars
  <2>2. \A s \in Sessions : Aside(s) BY <2>1 DEF Aside, Active, data
  <2>3. QED BY <1>1, <2>1, <2>2
<1>6. QED BY <1>3, <1>4, <1>5 DEF Next

\* Between two commands nobody has read anything.
LEMMA InitStands == Init => \A s \in Sessions : Standing(s)
BY IdleRow DEF Init, Standing, Composing, Reading, Keeping

\* Transactions that lock, wait, read and write side by side implement commands
\* that run one at a time, for any number of sessions, rooms, players and guests.
THEOREM TransactionsImplementCommands == Spec => CommandsTakeEffectAtOnce
<1> DEFINE Stands == \A s \in Sessions : Standing(s)
<1>1. Init => InitialTables /\ Stands BY InitStands DEF Init
<1>2. IInv /\ Stands /\ [Next]_vars => Stands' /\ [UNCHANGED data \/ Command]_data
  BY NextSound
<1>3. Spec => []IInv BY Inductive
<1> HIDE DEF Stands
<1>4. QED BY <1>1, <1>2, <1>3, PTL DEF Spec, CommandsTakeEffectAtOnce

=============================================================================
