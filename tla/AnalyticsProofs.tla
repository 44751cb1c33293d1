--------------------------- MODULE AnalyticsProofs ---------------------------
(***************************************************************************)
(* What the derived tables keep whatever the order of delivery, failures   *)
(* and rebuilds, for any number of places, users, marks and rebuilds.      *)
(*                                                                         *)
(* Each event marked processed shows in the tables, since both happen in   *)
(* one transaction and TRUNCATE undoes both.  While a replay is under way  *)
(* what the outbox has published is processed, being projected, or still   *)
(* in the queue.  Facts name the events they come from, in the tables and  *)
(* in whatever a projection has read of them.  And as long as no           *)
(* completion and mark of presence are projected at once, an open          *)
(* completion has read whoever is present by now, and an open mark of      *)
(* presence has read the completion if the tables hold it.                 *)
(*                                                                         *)
(* What a rebuild restores follows from two more invariants: the outbox    *)
(* tells, event by event, all that the product holds of attendance; and    *)
(* tables a replay fills undisturbed are those of the first events of the  *)
(* outbox, as many as it has replayed.                                     *)
(***************************************************************************)
EXTENDS Analytics, FiniteSetTheorems, TLAPS

-----------------------------------------------------------------------------
(* The inductive invariant. *)

Stages     == {"NONE", "OPEN", "APPLIED", "SEATED", "COMPLETED"}
Attendance == {"NOT_SET", "PRESENT", "NO_SHOW"}
EventTypes == {"ROOM_CREATED", "JOIN_REQUEST_CREATED", "JOIN_REQUEST_ACCEPTED",
               "PARTICIPANT_CREATED", "PLAYER_MARKED_PRESENT", "PLAYER_NO_SHOW",
               "ATTENDANCE_CORRECTED", "ROOM_COMPLETED"}
Accounts   == Users \cup {Nil}

EventRow == [type : EventTypes, participant : Participants \cup {Nil}, user : Accounts,
             attendance : Attendance]

Activity    == [first : Nat, last : Nat]
Participant == [user : Accounts, attendance : Attendance]

ActiveUsers == UNION {[D -> Activity] : D \in SUBSET Users}
Places      == UNION {[D -> Participant] : D \in SUBSET Participants}
Played      == UNION {[D -> Nat] : D \in SUBSET Users}

Facts ==
  [active : ActiveUsers,
   created : Nat, firstApplication : Nat, completed : Nat, completedSource : Nat,
   application : BOOLEAN, accepted : Nat, acceptedSource : Nat,
   participant : Places, played : Played]

Projection == [event : Nat, seen : Facts]

TypeOK ==
  /\ stage \in Stages
  /\ user \in [Participants -> Accounts]
  /\ attendance \in [Participants -> Attendance]
  /\ log \in Seq(EventRow)
  /\ published \subseteq Positions /\ processed \subseteq Positions
  /\ returned \in [Passes -> Nat] /\ \A w \in Passes : returned[w] \in Positions \cup {0}
  /\ fact \in Facts
  /\ project \in [Projectors -> Projection]
  /\ \A w \in Projectors : project[w].event \in Positions \cup {0}
  /\ rebuild \in [stage : {"NONE", "EMPTIED", "REPLAYING", "DONE", "ERROR"},
                  queue : Seq(Nat)]
  /\ \A i \in DOMAIN rebuild.queue : rebuild.queue[i] \in Positions
  /\ alone \in BOOLEAN /\ crossed \in BOOLEAN
  /\ marks \in Nat /\ rebuilds \in Nat

\* A place is created once, when the application is accepted.
CreatedOnce ==
  /\ \A e \in Positions : log[e].type = "PARTICIPANT_CREATED" =>
       log[e].participant \in Participants /\ stage \in {"SEATED", "COMPLETED"}
  /\ \A d, e \in Positions :
       /\ log[d].type = "PARTICIPANT_CREATED" /\ log[e].type = "PARTICIPANT_CREATED"
       /\ log[d].participant = log[e].participant
       => d = e

\* Nothing is projected twice between two rebuilds.
NotTwice ==
  /\ \A w \in Projectors : Busy(w) => project[w].event \notin processed
  /\ \A v, w \in Projectors : Busy(w) /\ v # w => project[v].event # project[w].event
  /\ \A p \in DOMAIN fact.participant :
       \E e \in processed : log[e].type = "PARTICIPANT_CREATED" /\ log[e].participant = p

\* What is marked processed is in the tables.
ProcessedIsShown == \A e \in processed : Shown(e)

Queued(e) == \E i \in DOMAIN rebuild.queue : rebuild.queue[i] = e

\* What the outbox will not hand over again, once a pass has acknowledged it.
Handled == published \cup ({returned[w] : w \in Passes} \ {0})

\* A replay will get to all of it.
NothingSkipped ==
  /\ Busy("rebuild") => rebuild.stage = "REPLAYING"
  /\ \A e \in Handled :
       /\ rebuild.stage \in {"NONE", "DONE"} => e \in processed
       /\ rebuild.stage = "REPLAYING" =>
            e \in processed \/ Queued(e) \/ e = project["rebuild"].event

IsSource(e, type) == e \in Positions /\ log[e].type = type

\* The tables, or what a projection has read of them, name their sources.
Sourced(f) ==
  /\ f.completed # 0 => f.completedSource # 0
  /\ f.completedSource # 0 => IsSource(f.completedSource, "ROOM_COMPLETED")
  /\ f.accepted # 0 => f.acceptedSource # 0
  /\ f.acceptedSource # 0 => IsSource(f.acceptedSource, "JOIN_REQUEST_ACCEPTED")
  /\ \A u \in DOMAIN f.played : IsSource(f.played[u], "ROOM_COMPLETED")

AllSourced == Sourced(fact) /\ \A w \in Projectors : Sourced(project[w].seen)

\* A completion has read whoever is present, a mark of presence the completion.
Current(f, seen, ev) ==
  /\ ev.type = "ROOM_COMPLETED" => PresentUsers(f) \subseteq PresentUsers(seen)
  /\ ev.type \in MarkTypes /\ ev.attendance = "PRESENT" /\ seen.completed = 0 => f.completed = 0

\* Projections miss nothing of each other unless a completion and a mark cross.
InTurn ==
  ~crossed =>
    /\ \A v, w \in Projectors :
         Busy(v) /\ Busy(w) /\ v # w => ~Crosses(log[project[v].event], log[project[w].event])
    /\ \A w \in Projectors : Busy(w) => Current(fact, project[w].seen, log[project[w].event])

\* A replay that is alone reads what the tables hold.
ReplayAlone ==
  alone => /\ \A w \in Passes : ~Busy(w)
           /\ Busy("rebuild") =>
                project["rebuild"].seen = Read(fact, log[project["rebuild"].event])

IInv == /\ TypeOK /\ CreatedOnce /\ NotTwice /\ ProcessedIsShown /\ NothingSkipped /\ AllSourced
        /\ InTurn /\ ReplayAlone /\ PresenceIsCounted

-----------------------------------------------------------------------------
(* Facts with some columns changed. *)

\* The earlier and the later of two events.
LEMMA MinMax ==
  ASSUME NEW a \in Nat, NEW b \in Nat
  PROVE  /\ Min({a, b}) \in Nat /\ Min({a, b}) <= a /\ Min({a, b}) <= b
         /\ Max({a, b}) \in Nat /\ a <= Max({a, b}) /\ b <= Max({a, b})
<1>1. \E x \in {a, b} : \A y \in {a, b} : x <= y OBVIOUS
<1>2. \E x \in {a, b} : \A y \in {a, b} : x >= y OBVIOUS
<1>3. Min({a, b}) \in {a, b} /\ \A y \in {a, b} : Min({a, b}) <= y BY <1>1 DEF Min
<1>4. Max({a, b}) \in {a, b} /\ \A y \in {a, b} : Max({a, b}) >= y BY <1>2 DEF Max
<1>5. QED BY <1>3, <1>4

\* Who plays and is active apart, the columns a projection changes together.
SameButActive(f, g) ==
  /\ g.created = f.created /\ g.firstApplication = f.firstApplication
  /\ g.completed = f.completed /\ g.completedSource = f.completedSource
  /\ g.application = f.application /\ g.accepted = f.accepted
  /\ g.acceptedSource = f.acceptedSource
  /\ g.participant = f.participant /\ g.played = f.played

\* Who is active.
LEMMA ActiveChange ==
  ASSUME NEW f \in Facts, NEW x \in ActiveUsers, NEW g, g = [f EXCEPT !.active = x]
  PROVE  g \in Facts /\ g.active = x /\ SameButActive(f, g)
<1>1. QED BY DEF Facts, SameButActive

\* Whoever has played.
LEMMA PlayedChange ==
  ASSUME NEW f \in Facts, NEW x \in Played, NEW g, g = [f EXCEPT !.played = x]
  PROVE  /\ g \in Facts /\ g.played = x /\ g.participant = f.participant /\ g.active = f.active
         /\ g.completed = f.completed /\ g.completedSource = f.completedSource
         /\ g.application = f.application
         /\ g.accepted = f.accepted /\ g.acceptedSource = f.acceptedSource
<1>1. QED BY DEF Facts

\* The places.
LEMMA PlacesChange ==
  ASSUME NEW f \in Facts, NEW x \in Places, NEW g, g = [f EXCEPT !.participant = x]
  PROVE  /\ g \in Facts /\ g.participant = x /\ g.played = f.played /\ g.active = f.active
         /\ g.completed = f.completed /\ g.completedSource = f.completedSource
         /\ g.application = f.application
         /\ g.accepted = f.accepted /\ g.acceptedSource = f.acceptedSource
<1>1. QED BY DEF Facts

\* When the room was created.
LEMMA CreatedChange ==
  ASSUME NEW f \in Facts, NEW x \in Nat, NEW g, g = [f EXCEPT !.created = x]
  PROVE  /\ g \in Facts /\ g.participant = f.participant /\ g.played = f.played
         /\ g.active = f.active
         /\ g.completed = f.completed /\ g.completedSource = f.completedSource
         /\ g.application = f.application
         /\ g.accepted = f.accepted /\ g.acceptedSource = f.acceptedSource
<1>1. QED BY DEF Facts

-----------------------------------------------------------------------------
(* What one projection does to the tables. *)

\* Users active at least from then to then, and nobody for less long than before.
Touches(f, users, e, g) ==
  /\ g \in Facts /\ SameButActive(f, g)
  /\ \A u \in users : u \in DOMAIN g.active /\ g.active[u].first <= e /\ e <= g.active[u].last
  /\ \A u \in DOMAIN f.active :
       /\ u \in DOMAIN g.active
       /\ g.active[u].first <= f.active[u].first /\ f.active[u].last <= g.active[u].last

\* Whoever is touched has been active at least from then to then.
LEMMA Touched ==
  ASSUME NEW f \in Facts, NEW users \in SUBSET Users, NEW e \in Nat
  PROVE  Touches(f, users, e, TouchActiveUsers(f, users, e))
<1>0. PICK g : g = TouchActiveUsers(f, users, e) OBVIOUS
<1>1. PICK a : a = f.active OBVIOUS
<1>2. /\ a \in ActiveUsers /\ DOMAIN a \subseteq Users
      /\ \A u \in DOMAIN a : a[u].first \in Nat /\ a[u].last \in Nat /\ a[u] \in Activity
  BY <1>1 DEF Facts, ActiveUsers, Activity
<1>3. PICK b : b = [u \in DOMAIN a \cup users |->
                      IF u \notin users THEN a[u]
                      ELSE IF u \notin DOMAIN a THEN [first |-> e, last |-> e]
                      ELSE [first |-> Min({a[u].first, e}), last |-> Max({a[u].last, e})]]
  OBVIOUS
<1>4. ASSUME NEW u \in DOMAIN a \cup users
      PROVE  /\ b[u] \in Activity
             /\ u \in users => b[u].first <= e /\ e <= b[u].last
             /\ u \in DOMAIN a => b[u].first <= a[u].first /\ a[u].last <= b[u].last
  <2>1. CASE u \notin users
    <3>1. b[u] = a[u] BY <1>3, <1>4, <2>1
    <3>2. QED BY <1>2, <1>4, <2>1, <3>1
  <2>2. CASE u \in users /\ u \notin DOMAIN a
    <3>1. b[u] = [first |-> e, last |-> e] BY <1>3, <1>4, <2>2
    <3>2. QED BY <2>2, <3>1 DEF Activity
  <2>3. CASE u \in users /\ u \in DOMAIN a
    <3>1. PICK x \in Nat, y \in Nat : x = a[u].first /\ y = a[u].last BY <1>2, <2>3
    <3>2. b[u] = [first |-> Min({x, e}), last |-> Max({y, e})] BY <1>3, <2>3, <3>1
    <3>3. /\ Min({x, e}) \in Nat /\ Min({x, e}) <= x /\ Min({x, e}) <= e
          /\ Max({y, e}) \in Nat /\ y <= Max({y, e}) /\ e <= Max({y, e})
      BY MinMax
    <3>4. QED BY <3>1, <3>2, <3>3 DEF Activity
  <2>4. QED BY <2>1, <2>2, <2>3
<1>5. b \in [DOMAIN a \cup users -> Activity] BY <1>3, <1>4
<1>6. b \in ActiveUsers
  <2>1. DOMAIN a \cup users \in SUBSET Users BY <1>2
  <2>2. QED BY <1>5, <2>1 DEF ActiveUsers
<1>7. g = [f EXCEPT !.active = b] BY <1>0, <1>1, <1>3 DEF TouchActiveUsers
<1>8. g \in Facts /\ g.active = b /\ SameButActive(f, g) BY <1>6, <1>7, ActiveChange
<1>9. Touches(f, users, e, g) BY <1>1, <1>4, <1>5, <1>8 DEF Touches
<1>10. QED BY <1>0, <1>9

\* Completed participations added, with the source where there was none.
Inserts(f, users, source, g) ==
  /\ g \in Facts /\ g.participant = f.participant /\ g.active = f.active
  /\ g.completed = f.completed /\ g.completedSource = f.completedSource
  /\ g.application = f.application
  /\ g.accepted = f.accepted /\ g.acceptedSource = f.acceptedSource
  /\ DOMAIN g.played = DOMAIN f.played \cup users
  /\ \A u \in DOMAIN g.played :
       \/ u \in DOMAIN f.played /\ g.played[u] = f.played[u]
       \/ u \in users /\ g.played[u] = source

\* A completed participation keeps the source it has.
LEMMA Inserted ==
  ASSUME NEW f \in Facts, NEW users \in SUBSET Users, NEW source \in Nat
  PROVE  Inserts(f, users, source, InsertCompletedParticipations(f, users, source))
<1>0. PICK g : g = InsertCompletedParticipations(f, users, source) OBVIOUS
<1>1. PICK a : a = f.played OBVIOUS
<1>2. a \in Played /\ DOMAIN a \subseteq Users /\ \A u \in DOMAIN a : a[u] \in Nat
  BY <1>1 DEF Facts, Played
<1>3. PICK b : b = [u \in DOMAIN a \cup users |->
                      IF u \notin users THEN a[u]
                      ELSE IF u \in DOMAIN a THEN Coalesce(a[u], source) ELSE source]
  OBVIOUS
<1>4. \A u \in DOMAIN a \cup users : \/ u \in DOMAIN a /\ b[u] = a[u]
                                     \/ u \in users /\ b[u] = source
  BY <1>3 DEF Coalesce
<1>5. b \in [DOMAIN a \cup users -> Nat] BY <1>2, <1>3, <1>4
<1>6. b \in Played
  <2>1. DOMAIN a \cup users \in SUBSET Users BY <1>2
  <2>2. QED BY <1>5, <2>1 DEF Played
<1>7. g = [f EXCEPT !.played = b] BY <1>0, <1>1, <1>3 DEF InsertCompletedParticipations
<1>8. Inserts(f, users, source, g) BY <1>1, <1>4, <1>5, <1>6, <1>7, PlayedChange DEF Inserts
<1>9. QED BY <1>0, <1>8

\* A place of the tables.
LEMMA PlaceFields ==
  ASSUME NEW f \in Facts
  PROVE  /\ f.participant \in Places /\ DOMAIN f.participant \subseteq Participants
         /\ \A p \in DOMAIN f.participant : /\ f.participant[p].user \in Accounts
                                            /\ f.participant[p].attendance \in Attendance
         /\ PresentUsers(f) \subseteq Users
<1>1. /\ f.participant \in Places /\ DOMAIN f.participant \subseteq Participants
      /\ \A p \in DOMAIN f.participant : /\ f.participant[p].user \in Accounts
                                         /\ f.participant[p].attendance \in Attendance
  BY DEF Facts, Places, Participant
<1>2. PresentUsers(f) \subseteq Users BY <1>1 DEF PresentUsers, Accounts
<1>3. QED BY <1>1, <1>2

\* Creating a place adds it, or tells who has it; marking one changes its row.
LEMMA Placed ==
  ASSUME NEW f \in Facts, NEW p \in Participants, NEW row \in Participant, NEW b,
         \/ b = With(f.participant, p, row)
         \/ b = [f.participant EXCEPT ![p] = row]
  PROVE  /\ b \in Places
         /\ DOMAIN f.participant \subseteq DOMAIN b
         /\ DOMAIN b \subseteq DOMAIN f.participant \cup {p}
         /\ b = With(f.participant, p, row) => p \in DOMAIN b
         /\ p \in DOMAIN b => b[p] = row
         /\ \A q \in DOMAIN b : q # p => q \in DOMAIN f.participant /\ b[q] = f.participant[q]
<1>1. PICK a : a = f.participant OBVIOUS
<1>2. a \in Places /\ DOMAIN a \subseteq Participants /\ \A q \in DOMAIN a : a[q] \in Participant
  BY <1>1 DEF Facts, Places
<1>3. PICK D \in SUBSET Participants : a \in [D -> Participant] BY <1>2 DEF Places
<1>4. DOMAIN With(f.participant, p, row) = DOMAIN f.participant \cup {p} BY DEF With
<1>5. CASE b = With(f.participant, p, row)
  <2>1. b = [q \in DOMAIN a \cup {p} |-> IF q = p THEN row ELSE a[q]] BY <1>1, <1>5 DEF With
  <2>2. b \in [DOMAIN a \cup {p} -> Participant] BY <1>2, <2>1
  <2>3. DOMAIN a \cup {p} \in SUBSET Participants BY <1>2
  <2>4. b \in Places BY <2>2, <2>3 DEF Places
  <2>5. DOMAIN b = DOMAIN a \cup {p} BY <2>1
  <2>6. b[p] = row BY <2>1
  <2>7. \A q \in DOMAIN b : q # p => q \in DOMAIN a /\ b[q] = a[q] BY <2>1, <2>5
  <2>8. QED BY <1>1, <2>4, <2>5, <2>6, <2>7
<1>6. CASE b = [f.participant EXCEPT ![p] = row]
  <2>1. b = [a EXCEPT ![p] = row] BY <1>1, <1>6
  <2>2. b \in [D -> Participant] BY <1>3, <2>1
  <2>3. b \in Places BY <2>2 DEF Places
  <2>4. DOMAIN b = DOMAIN a BY <1>3, <2>2
  <2>5. p \in DOMAIN b => b[p] = row BY <1>3, <2>1, <2>4
  <2>6. \A q \in DOMAIN b : q # p => b[q] = a[q] BY <1>3, <2>1, <2>4
  <2>7. b = With(f.participant, p, row) => p \in DOMAIN b BY <1>4
  <2>8. QED BY <1>1, <2>3, <2>4, <2>5, <2>6, <2>7
<1>7. QED BY <1>5, <1>6

\* Columns no projection clears, and places it adds to.
Grows(f, g) ==
  /\ f.application => g.application
  /\ f.completed # 0 => g.completed # 0
  /\ DOMAIN f.participant \subseteq DOMAIN g.participant
  /\ \A u \in DOMAIN f.active :
       /\ u \in DOMAIN g.active
       /\ g.active[u].first <= f.active[u].first /\ f.active[u].last <= g.active[u].last

\* The tables, or what a projection has read, count whoever is present.
Counts(f) == f.completed # 0 => PresentUsers(f) \subseteq DOMAIN f.played

\* The event shows in the columns its own projection writes.
Entered(g, ev) ==
  /\ ev.type = "JOIN_REQUEST_CREATED" => g.application
  /\ ev.type = "PARTICIPANT_CREATED" => ev.participant \in DOMAIN g.participant
  /\ ev.type = "ROOM_COMPLETED" => g.completed # 0

\* A projection that has read what matters to it.
Fresh(f, seen, ev) ==
  /\ Current(f, seen, ev)
  /\ ev.type = "PARTICIPANT_CREATED" => ev.participant \notin DOMAIN f.participant

\* Only a completion completes, and only a mark of presence makes present.
Spares(f, seen, ev, g) ==
  /\ ev.type # "ROOM_COMPLETED" => g.completed = f.completed
  /\ ev.attendance # "PRESENT" /\ Fresh(f, seen, ev) => PresentUsers(g) \subseteq PresentUsers(f)

\* What the projection of event e, having read seen, makes of the tables.
Projects(f, seen, e, g) ==
  /\ g \in Facts /\ g.active = f.active
  /\ Grows(f, g) /\ Entered(g, log[e])
  /\ \A p \in DOMAIN g.participant \ DOMAIN f.participant :
       log[e].type = "PARTICIPANT_CREATED" /\ log[e].participant = p
  /\ Sourced(f) /\ Sourced(seen) => Sourced(g)
  /\ Fresh(f, seen, log[e]) /\ Counts(f) => Counts(g)
  /\ Spares(f, seen, log[e], g)

\* Columns of activity that stay are no less than they were.
LEMMA SameActivity ==
  ASSUME NEW f \in Facts
  PROVE  \A u \in DOMAIN f.active : /\ f.active[u].first <= f.active[u].first
                                    /\ f.active[u].last <= f.active[u].last
<1>1. \A u \in DOMAIN f.active : f.active[u].first \in Nat /\ f.active[u].last \in Nat
  BY DEF Facts, ActiveUsers, Activity
<1>2. QED BY <1>1

\* Present players depend on the places only.
LEMMA SamePresent ==
  ASSUME NEW f, NEW g, f.participant = g.participant
  PROVE  PresentUsers(f) = PresentUsers(g)
<1>1. QED BY DEF PresentUsers

\* Columns of the room and of its application.
LEMMA RoomCreatedProjects ==
  ASSUME NEW f \in Facts, NEW seen \in Facts, NEW e \in Positions, e \in Nat \ {0},
         log[e].type = "ROOM_CREATED"
  PROVE  Projects(f, seen, e, ProjectRoomCreated(f, e))
<1>1. PICK x \in Nat : x = Coalesce(f.created, e) BY DEF Coalesce, Facts
<1>2. PICK g : g = ProjectRoomCreated(f, e) OBVIOUS
<1>3. /\ g \in Facts /\ g.participant = f.participant /\ g.played = f.played
      /\ g.active = f.active
      /\ g.completed = f.completed /\ g.completedSource = f.completedSource
      /\ g.application = f.application
      /\ g.accepted = f.accepted /\ g.acceptedSource = f.acceptedSource
  BY <1>1, <1>2, CreatedChange DEF ProjectRoomCreated
<1>4. Grows(f, g) BY <1>3, SameActivity DEF Grows
<1>5. Entered(g, log[e]) BY DEF Entered
<1>6. Sourced(f) => Sourced(g) BY <1>3 DEF Sourced
<1>7. Counts(f) => Counts(g) BY <1>3, SamePresent DEF Counts
<1>8. Spares(f, seen, log[e], g) BY <1>3, SamePresent DEF Spares
<1>9. QED BY <1>2, <1>3, <1>4, <1>5, <1>6, <1>7, <1>8 DEF Projects

\* The application of the room.
LEMMA JoinCreatedProjects ==
  ASSUME NEW f \in Facts, NEW seen \in Facts, NEW e \in Positions, e \in Nat \ {0},
         log[e].type = "JOIN_REQUEST_CREATED"
  PROVE  Projects(f, seen, e, ProjectJoinCreated(f, e))
<1>1. PICK x \in Nat : x = Coalesce(f.firstApplication, e) BY DEF Coalesce, Facts
<1>2. PICK g : g = ProjectJoinCreated(f, e) OBVIOUS
<1>3. /\ g \in Facts /\ g.participant = f.participant /\ g.played = f.played
      /\ g.active = f.active
      /\ g.completed = f.completed /\ g.completedSource = f.completedSource
      /\ g.application = TRUE
      /\ g.accepted = f.accepted /\ g.acceptedSource = f.acceptedSource
  <2>1. g = [f EXCEPT !.application = TRUE, !.firstApplication = x]
    BY <1>1, <1>2 DEF ProjectJoinCreated
  <2>2. QED BY <2>1 DEF Facts
<1>4. Grows(f, g) BY <1>3, SameActivity DEF Grows
<1>5. Entered(g, log[e]) BY <1>3 DEF Entered
<1>6. Sourced(f) => Sourced(g) BY <1>3 DEF Sourced
<1>7. Counts(f) => Counts(g) BY <1>3, SamePresent DEF Counts
<1>8. Spares(f, seen, log[e], g) BY <1>3, SamePresent DEF Spares
<1>9. QED BY <1>2, <1>3, <1>4, <1>5, <1>6, <1>7, <1>8 DEF Projects

\* The acceptance of an application the tables have.
LEMMA JoinAcceptedProjects ==
  ASSUME NEW f \in Facts, NEW seen \in Facts, NEW e \in Positions, e \in Nat \ {0},
         log[e].type = "JOIN_REQUEST_ACCEPTED"
  PROVE  Projects(f, seen, e, ProjectJoinAccepted(f, seen, e))
<1>1. PICK g : g = ProjectJoinAccepted(f, seen, e) OBVIOUS
<1>2. Entered(g, log[e]) BY DEF Entered
<1>3. CASE ~seen.application
  <2>1. g = f BY <1>1, <1>3 DEF ProjectJoinAccepted
  <2>2. Grows(f, g) BY <2>1, SameActivity DEF Grows
  <2>3. Spares(f, seen, log[e], g) BY <2>1 DEF Spares
  <2>4. QED BY <1>1, <1>2, <2>1, <2>2, <2>3 DEF Projects
<1>4. CASE seen.application
  <2>1. PICK x \in Nat : x = Coalesce(f.accepted, e) BY DEF Coalesce, Facts
  <2>2. PICK y \in Nat : y = Coalesce(f.acceptedSource, e) BY DEF Coalesce, Facts
  <2>3. g = [f EXCEPT !.accepted = x, !.acceptedSource = y]
    BY <1>1, <1>4, <2>1, <2>2 DEF ProjectJoinAccepted
  <2>4. /\ g \in Facts /\ g.participant = f.participant /\ g.played = f.played
        /\ g.active = f.active
        /\ g.completed = f.completed /\ g.completedSource = f.completedSource
        /\ g.application = f.application
        /\ g.accepted = x /\ g.acceptedSource = y
    BY <2>1, <2>2, <2>3 DEF Facts
  <2>5. Grows(f, g) BY <2>4, SameActivity DEF Grows
  <2>6. /\ y # 0 /\ y \in {f.acceptedSource, e} BY <2>2 DEF Coalesce
  <2>7. ASSUME Sourced(f) PROVE Sourced(g)
    <3>1. IsSource(y, "JOIN_REQUEST_ACCEPTED") BY <2>6, <2>7 DEF Sourced, IsSource
    <3>2. QED BY <2>4, <2>6, <2>7, <3>1 DEF Sourced
  <2>8. Counts(f) => Counts(g) BY <2>4, SamePresent DEF Counts
  <2>9. Spares(f, seen, log[e], g) BY <2>4, SamePresent DEF Spares
  <2>10. QED BY <1>1, <1>2, <2>4, <2>5, <2>7, <2>8, <2>9 DEF Projects
<1>5. QED BY <1>3, <1>4

\* A place is created with its player, or told who its player is.
LEMMA PlaceCreatedProjects ==
  ASSUME NEW f \in Facts, NEW seen \in Facts, NEW e \in Positions, e \in Nat \ {0},
         log[e] \in EventRow, log[e].participant \in Participants,
         log[e].type = "PARTICIPANT_CREATED"
  PROVE  Projects(f, seen, e, ProjectParticipantCreated(f, log[e].participant, log[e].user))
<1>1. PICK p \in Participants : p = log[e].participant OBVIOUS
<1>2. PICK v \in Accounts : v = log[e].user BY DEF EventRow
<1>3. PICK row : row = IF p \in DOMAIN f.participant
                       THEN [f.participant[p] EXCEPT !.user = KnownUser(f.participant[p].user, v)]
                       ELSE [user |-> v, attendance |-> "NOT_SET"]
  OBVIOUS
<1>4. row \in Participant
  <2>1. CASE p \notin DOMAIN f.participant
    <3>1. row = [user |-> v, attendance |-> "NOT_SET"] BY <1>3, <2>1
    <3>2. QED BY <3>1 DEF Participant, Attendance
  <2>2. CASE p \in DOMAIN f.participant
    <3>1. PICK r : r = f.participant[p] OBVIOUS
    <3>2. r \in Participant BY <2>2, <3>1 DEF Facts, Places
    <3>3. KnownUser(r.user, v) \in Accounts BY <3>2 DEF Participant, KnownUser
    <3>4. row = [r EXCEPT !.user = KnownUser(r.user, v)] BY <1>3, <2>2, <3>1
    <3>5. QED BY <3>2, <3>3, <3>4 DEF Participant
  <2>3. QED BY <2>1, <2>2
<1>5. PICK b : b = With(f.participant, p, row) OBVIOUS
<1>6. /\ b \in Places /\ DOMAIN f.participant \subseteq DOMAIN b
      /\ DOMAIN b \subseteq DOMAIN f.participant \cup {p}
      /\ p \in DOMAIN b /\ b[p] = row
      /\ \A q \in DOMAIN b : q # p => q \in DOMAIN f.participant /\ b[q] = f.participant[q]
  BY <1>4, <1>5, Placed
<1>7. PICK g : g = ProjectParticipantCreated(f, p, v) OBVIOUS
<1>8. g = [f EXCEPT !.participant = b] BY <1>3, <1>5, <1>7 DEF ProjectParticipantCreated
<1>9. /\ g \in Facts /\ g.participant = b /\ g.played = f.played /\ g.active = f.active
      /\ g.completed = f.completed /\ g.completedSource = f.completedSource
      /\ g.application = f.application
      /\ g.accepted = f.accepted /\ g.acceptedSource = f.acceptedSource
  BY <1>6, <1>8, PlacesChange
<1>10. Grows(f, g) BY <1>6, <1>9, SameActivity DEF Grows
<1>11. Entered(g, log[e]) BY <1>1, <1>6, <1>9 DEF Entered
<1>12. Sourced(f) => Sourced(g) BY <1>9 DEF Sourced
<1>13. ASSUME Fresh(f, seen, log[e]) PROVE PresentUsers(g) \subseteq PresentUsers(f)
  <2>1. p \notin DOMAIN f.participant BY <1>1, <1>13 DEF Fresh
  <2>2. row.attendance = "NOT_SET" BY <1>3, <2>1
  <2>3. QED BY <1>6, <1>9, <2>2 DEF PresentUsers
<1>14. \A q \in DOMAIN g.participant \ DOMAIN f.participant : log[e].participant = q
  BY <1>1, <1>6, <1>9
<1>15. Fresh(f, seen, log[e]) /\ Counts(f) => Counts(g) BY <1>9, <1>13 DEF Counts
<1>16. Spares(f, seen, log[e], g) BY <1>9, <1>13 DEF Spares
<1>17. QED BY <1>1, <1>2, <1>7, <1>9, <1>10, <1>11, <1>12, <1>14, <1>15, <1>16 DEF Projects

\* The completion of the room, and of everybody's participation who is present.
LEMMA RoomCompletedProjects ==
  ASSUME NEW f \in Facts, NEW seen \in Facts, NEW e \in Positions, e \in Nat \ {0},
         log[e].type = "ROOM_COMPLETED"
  PROVE  Projects(f, seen, e, ProjectRoomCompleted(f, seen, e))
<1>1. PICK x \in Nat : x = Coalesce(f.completed, e) BY DEF Coalesce, Facts
<1>2. PICK y \in Nat : y = Coalesce(f.completedSource, e) BY DEF Coalesce, Facts
<1>3. PICK h : h = [f EXCEPT !.completed = x, !.completedSource = y] OBVIOUS
<1>4. /\ h \in Facts /\ h.participant = f.participant /\ h.played = f.played
      /\ h.active = f.active
      /\ h.completed = x /\ h.completedSource = y
      /\ h.application = f.application
      /\ h.accepted = f.accepted /\ h.acceptedSource = f.acceptedSource
  BY <1>3 DEF Facts
<1>5. PICK users \in SUBSET Users : users = PresentUsers(seen) BY PlaceFields
<1>6. PICK g : g = InsertCompletedParticipations(h, users, e) OBVIOUS
<1>7. g = ProjectRoomCompleted(f, seen, e) BY <1>1, <1>2, <1>3, <1>5, <1>6 DEF ProjectRoomCompleted
<1>8. /\ g \in Facts /\ g.participant = h.participant /\ g.active = h.active
      /\ g.completed = h.completed /\ g.completedSource = h.completedSource
      /\ g.application = h.application
      /\ g.accepted = h.accepted /\ g.acceptedSource = h.acceptedSource
      /\ DOMAIN g.played = DOMAIN h.played \cup users
      /\ \A u \in DOMAIN g.played :
           \/ u \in DOMAIN h.played /\ g.played[u] = h.played[u]
           \/ u \in users /\ g.played[u] = e
  <2>1. Inserts(h, users, e, g) BY <1>4, <1>5, <1>6, Inserted
  <2>2. QED BY <2>1 DEF Inserts
<1>9. x # 0 /\ y # 0 /\ y \in {f.completedSource, e} BY <1>1, <1>2 DEF Coalesce
<1>10. Grows(f, g) BY <1>4, <1>8, <1>9, SameActivity DEF Grows
<1>11. Entered(g, log[e]) BY <1>4, <1>8, <1>9 DEF Entered
<1>12. ASSUME Sourced(f) PROVE Sourced(g)
  <2>1. IsSource(e, "ROOM_COMPLETED") BY DEF IsSource
  <2>2. IsSource(y, "ROOM_COMPLETED") BY <1>9, <1>12, <2>1 DEF Sourced
  <2>3. \A u \in DOMAIN g.played : IsSource(g.played[u], "ROOM_COMPLETED")
    BY <1>4, <1>8, <1>12, <2>1 DEF Sourced
  <2>4. QED BY <1>4, <1>8, <1>9, <1>12, <2>2, <2>3 DEF Sourced
<1>13. ASSUME Fresh(f, seen, log[e]) PROVE Counts(g)
  <2>1. PresentUsers(f) \subseteq PresentUsers(seen) BY <1>13 DEF Fresh, Current
  <2>2. f.participant = g.participant BY <1>4, <1>8
  <2>3. PresentUsers(f) = PresentUsers(g) BY <2>2, SamePresent
  <2>4. QED BY <1>5, <1>8, <2>1, <2>3 DEF Counts
<1>14. Spares(f, seen, log[e], g)
  <2>1. f.participant = g.participant BY <1>4, <1>8
  <2>2. QED BY <2>1, SamePresent DEF Spares
<1>15. QED BY <1>4, <1>7, <1>8, <1>10, <1>11, <1>12, <1>13, <1>14 DEF Projects

\* A mark of a place the tables have; in a completed room it completes the
\* participation of whoever it shows present.
LEMMA AttendanceProjects ==
  ASSUME NEW f \in Facts, NEW seen \in Facts, NEW e \in Positions, e \in Nat \ {0},
         log[e] \in EventRow,
         log[e].type \in {"PLAYER_MARKED_PRESENT", "PLAYER_NO_SHOW", "ATTENDANCE_CORRECTED"}
  PROVE  Projects(f, seen, e, ProjectAttendance(f, seen, log[e].participant, log[e].user,
                                                log[e].attendance))
<1>1. PICK p : p = log[e].participant OBVIOUS
<1>2. PICK v \in Accounts : v = log[e].user BY DEF EventRow
<1>3. PICK status \in Attendance : status = log[e].attendance BY DEF EventRow
<1>4. PICK player : player = Player(seen, p, v) OBVIOUS
<1>5. player \in Accounts BY <1>4, PlaceFields DEF Player, KnownUser
<1>6. PICK row : row = [user |-> player, attendance |-> status] OBVIOUS
<1>7. row \in Participant BY <1>5, <1>6 DEF Participant
<1>8. PICK h : h = IF p \in DOMAIN seen.participant
                   THEN [f EXCEPT !.participant[p] = row] ELSE f
  OBVIOUS
<1>9. /\ h \in Facts /\ h.played = f.played /\ h.active = f.active
      /\ h.completed = f.completed /\ h.completedSource = f.completedSource
      /\ h.application = f.application
      /\ h.accepted = f.accepted /\ h.acceptedSource = f.acceptedSource
      /\ DOMAIN h.participant = DOMAIN f.participant
      /\ \A q \in DOMAIN h.participant :
           \/ h.participant[q] = f.participant[q]
           \/ h.participant[q] = row
  <2>1. CASE p \notin DOMAIN seen.participant BY <1>8, <2>1
  <2>2. CASE p \in DOMAIN seen.participant
    <3>1. p \in Participants BY <2>2, PlaceFields
    <3>2. PICK b : b = [f.participant EXCEPT ![p] = row] OBVIOUS
    <3>3. /\ b \in Places
          /\ p \in DOMAIN b => b[p] = row
          /\ \A q \in DOMAIN b : q # p => q \in DOMAIN f.participant /\ b[q] = f.participant[q]
      BY <1>7, <3>1, <3>2, Placed
    <3>4. DOMAIN b = DOMAIN f.participant BY <3>2
    <3>5. h = [f EXCEPT !.participant = b] BY <1>8, <2>2, <3>2
    <3>6. /\ h \in Facts /\ h.participant = b /\ h.played = f.played /\ h.active = f.active
          /\ h.completed = f.completed /\ h.completedSource = f.completedSource
          /\ h.application = f.application
          /\ h.accepted = f.accepted /\ h.acceptedSource = f.acceptedSource
      BY <3>3, <3>5, PlacesChange
    <3>7. QED BY <3>3, <3>4, <3>6
  <2>3. QED BY <2>1, <2>2
<1>10. PresentUsers(h) \subseteq
         PresentUsers(f) \cup (IF status = "PRESENT" THEN {player} \ {Nil} ELSE {})
  BY <1>6, <1>9 DEF PresentUsers
<1>11. Sourced(f) => Sourced(h) BY <1>9 DEF Sourced
<1>12. Grows(f, h) BY <1>9, SameActivity DEF Grows
<1>13. PICK g : g = ProjectAttendance(f, seen, p, v, status) OBVIOUS
<1>14. Entered(g, log[e]) BY DEF Entered
<1>15. Fresh(f, seen, log[e]) /\ status = "PRESENT" /\ seen.completed = 0 => f.completed = 0
  BY <1>3 DEF Fresh, Current, MarkTypes
<1>16. CASE status = "PRESENT" /\ player # Nil /\ seen.completed # 0
  <2>1. PICK source : source = seen.completedSource OBVIOUS
  <2>2. source \in Nat BY <2>1 DEF Facts
  <2>3. {player} \in SUBSET Users BY <1>5, <1>16 DEF Accounts
  <2>4. g = InsertCompletedParticipations(h, {player}, source)
    BY <1>4, <1>6, <1>8, <1>13, <1>16, <2>1 DEF ProjectAttendance
  <2>5. /\ g \in Facts /\ g.participant = h.participant /\ g.active = h.active
        /\ g.completed = h.completed /\ g.completedSource = h.completedSource
        /\ g.application = h.application
        /\ g.accepted = h.accepted /\ g.acceptedSource = h.acceptedSource
        /\ DOMAIN g.played = DOMAIN h.played \cup {player}
        /\ \A u \in DOMAIN g.played :
             \/ u \in DOMAIN h.played /\ g.played[u] = h.played[u]
             \/ u \in {player} /\ g.played[u] = source
    <3>1. Inserts(h, {player}, source, g) BY <1>9, <2>2, <2>3, <2>4, Inserted
    <3>2. QED BY <3>1 DEF Inserts
  <2>6. Grows(f, g) BY <1>12, <2>5 DEF Grows
  <2>7. ASSUME Sourced(f), Sourced(seen) PROVE Sourced(g)
    <3>1. IsSource(source, "ROOM_COMPLETED") BY <1>16, <2>1, <2>7 DEF Sourced
    <3>2. Sourced(h) BY <1>11, <2>7
    <3>3. \A u \in DOMAIN g.played : IsSource(g.played[u], "ROOM_COMPLETED")
      BY <2>5, <3>1, <3>2 DEF Sourced
    <3>4. QED BY <2>5, <3>2, <3>3 DEF Sourced
  <2>8. ASSUME Counts(f) PROVE Counts(g)
    <3>1. PresentUsers(g) = PresentUsers(h) BY <2>5, SamePresent
    <3>2. QED BY <1>9, <1>10, <1>16, <2>5, <2>8, <3>1 DEF Counts
  <2>9. Spares(f, seen, log[e], g) BY <1>3, <1>9, <1>16, <2>5 DEF Spares
  <2>10. QED BY <1>1, <1>2, <1>3, <1>9, <1>13, <1>14, <2>5, <2>6, <2>7, <2>8, <2>9 DEF Projects
<1>17. CASE ~ (status = "PRESENT" /\ player # Nil /\ seen.completed # 0)
  <2>1. g = h BY <1>4, <1>6, <1>8, <1>13, <1>17 DEF ProjectAttendance
  <2>2. ASSUME Fresh(f, seen, log[e]), Counts(f) PROVE Counts(h)
    BY <1>9, <1>10, <1>15, <1>17, <2>2 DEF Counts
  <2>3. Spares(f, seen, log[e], g) BY <1>3, <1>9, <1>10, <2>1 DEF Spares
  <2>4. QED BY <1>1, <1>2, <1>3, <1>9, <1>11, <1>12, <1>13, <1>14, <2>1, <2>2, <2>3 DEF Projects
<1>18. QED BY <1>16, <1>17

\* Each event, by its type.
LEMMA EventProjects ==
  ASSUME NEW f \in Facts, NEW seen \in Facts, NEW e \in Positions, log \in Seq(EventRow),
         log[e].type = "PARTICIPANT_CREATED" => log[e].participant \in Participants
  PROVE  Projects(f, seen, e, ProjectEvent(f, seen, e))
<1>1. e \in Nat \ {0} /\ log[e] \in EventRow BY DEF Positions
<1>2. PICK type : type = log[e].type OBVIOUS
<1>3. type \in EventTypes BY <1>1, <1>2 DEF EventRow
<1>4. CASE type = "ROOM_CREATED"
  <2>1. ProjectEvent(f, seen, e) = ProjectRoomCreated(f, e) BY <1>2, <1>4 DEF ProjectEvent
  <2>2. QED BY <1>1, <1>2, <1>4, <2>1, RoomCreatedProjects
<1>5. CASE type = "JOIN_REQUEST_CREATED"
  <2>1. ProjectEvent(f, seen, e) = ProjectJoinCreated(f, e) BY <1>2, <1>5 DEF ProjectEvent
  <2>2. QED BY <1>1, <1>2, <1>5, <2>1, JoinCreatedProjects
<1>6. CASE type = "JOIN_REQUEST_ACCEPTED"
  <2>1. ProjectEvent(f, seen, e) = ProjectJoinAccepted(f, seen, e)
    BY <1>2, <1>6 DEF ProjectEvent
  <2>2. QED BY <1>1, <1>2, <1>6, <2>1, JoinAcceptedProjects
<1>7. CASE type = "PARTICIPANT_CREATED"
  <2>1. ProjectEvent(f, seen, e) = ProjectParticipantCreated(f, log[e].participant, log[e].user)
    BY <1>2, <1>7 DEF ProjectEvent
  <2>2. QED BY <1>1, <1>2, <1>7, <2>1, PlaceCreatedProjects
<1>8. CASE type = "ROOM_COMPLETED"
  <2>1. ProjectEvent(f, seen, e) = ProjectRoomCompleted(f, seen, e)
    BY <1>2, <1>8 DEF ProjectEvent
  <2>2. QED BY <1>1, <1>2, <1>8, <2>1, RoomCompletedProjects
<1>9. CASE type \in {"PLAYER_MARKED_PRESENT", "PLAYER_NO_SHOW", "ATTENDANCE_CORRECTED"}
  <2>1. ProjectEvent(f, seen, e)
          = ProjectAttendance(f, seen, log[e].participant, log[e].user, log[e].attendance)
    BY <1>2, <1>9 DEF ProjectEvent
  <2>2. QED BY <1>1, <1>2, <1>9, <2>1, AttendanceProjects
<1>10. QED BY <1>3, <1>4, <1>5, <1>6, <1>7, <1>8, <1>9 DEF EventTypes

\* The event shows in the tables, and so does the activity of its actor.
ShownIn(g, e) ==
  /\ Entered(g, log[e])
  /\ \A u \in ActiveActors(log[e]) :
       u \in DOMAIN g.active /\ g.active[u].first <= e /\ e <= g.active[u].last

\* What a projection, users it touches included, makes of the tables.
Claims(f, seen, e, g) ==
  /\ g \in Facts /\ Grows(f, g) /\ ShownIn(g, e)
  /\ \A p \in DOMAIN g.participant \ DOMAIN f.participant :
       log[e].type = "PARTICIPANT_CREATED" /\ log[e].participant = p
  /\ Sourced(f) /\ Sourced(seen) => Sourced(g)
  /\ Fresh(f, seen, log[e]) /\ Counts(f) => Counts(g)
  /\ Spares(f, seen, log[e], g)

\* Nobody but users is active.
LEMMA ActiveAreUsers ==
  ASSUME AnalyticsAssumption, NEW seen \in Facts, NEW ev \in EventRow
  PROVE  ActiveActors(ev) \cup Concerned(ev, seen) \subseteq Users
<1>1. PICK v \in Accounts : v = ev.user BY DEF EventRow
<1>2. Actor(ev) \in Users BY <1>1 DEF Actor, Accounts, AnalyticsAssumption
<1>3. ActiveActors(ev) \subseteq Users BY <1>2 DEF ActiveActors
<1>4. Player(seen, ev.participant, v) \in Accounts BY PlaceFields DEF Player, KnownUser
<1>5. Concerned(ev, seen) \subseteq Users
  <2>1. CASE ev.type = "JOIN_REQUEST_ACCEPTED"
    <3>1. Concerned(ev, seen) = {Requester} BY <2>1 DEF Concerned
    <3>2. QED BY <3>1 DEF AnalyticsAssumption
  <2>2. CASE ev.type # "JOIN_REQUEST_ACCEPTED" /\ ev.attendance = "PRESENT"
    <3>1. Concerned(ev, seen) = {Player(seen, ev.participant, v)} \ {Nil}
      BY <1>1, <2>2 DEF Concerned
    <3>2. QED BY <1>4, <3>1 DEF Accounts
  <2>3. CASE ev.type # "JOIN_REQUEST_ACCEPTED" /\ ev.attendance # "PRESENT"
    <3>1. Concerned(ev, seen) = {} BY <2>3 DEF Concerned
    <3>2. QED BY <3>1
  <2>4. QED BY <2>1, <2>2, <2>3
<1>6. QED BY <1>3, <1>5

\* A projection of the whole event.
LEMMA ClaimedProjects ==
  ASSUME AnalyticsAssumption,
         NEW f \in Facts, NEW seen \in Facts, NEW e \in Positions, log \in Seq(EventRow),
         log[e].type = "PARTICIPANT_CREATED" => log[e].participant \in Participants
  PROVE  Claims(f, seen, e, ProjectClaimed(f, seen, e))
<1>1. e \in Nat /\ log[e] \in EventRow BY DEF Positions
<1>2. PICK users : users = ActiveActors(log[e]) \cup Concerned(log[e], seen) OBVIOUS
<1>3. users \in SUBSET Users BY <1>1, <1>2, ActiveAreUsers
<1>4. PICK h : h = TouchActiveUsers(f, users, e) OBVIOUS
<1>5. Touches(f, users, e, h) BY <1>1, <1>3, <1>4, Touched
<1>6. h \in Facts /\ SameButActive(f, h) BY <1>5 DEF Touches
<1>7. PICK g : g = ProjectEvent(h, seen, e) OBVIOUS
<1>8. Projects(h, seen, e, g) BY <1>6, <1>7, EventProjects
<1>9. g = ProjectClaimed(f, seen, e) BY <1>2, <1>4, <1>7 DEF ProjectClaimed
<1>10. g \in Facts /\ g.active = h.active /\ Grows(h, g) /\ Entered(g, log[e]) BY <1>8 DEF Projects
<1>11. Grows(f, g)
  <2>1. f.application => g.application BY <1>6, <1>10 DEF Grows, SameButActive
  <2>2. f.completed # 0 => g.completed # 0 BY <1>6, <1>10 DEF Grows, SameButActive
  <2>3. DOMAIN f.participant \subseteq DOMAIN g.participant
    BY <1>6, <1>10 DEF Grows, SameButActive
  <2>4. \A u \in DOMAIN f.active :
          /\ u \in DOMAIN g.active
          /\ g.active[u].first <= f.active[u].first /\ f.active[u].last <= g.active[u].last
    BY <1>5, <1>10 DEF Touches
  <2>5. QED BY <2>1, <2>2, <2>3, <2>4 DEF Grows
<1>12. ShownIn(g, e) BY <1>2, <1>5, <1>10 DEF ShownIn, Touches
<1>13. \A p \in DOMAIN g.participant \ DOMAIN f.participant :
         log[e].type = "PARTICIPANT_CREATED" /\ log[e].participant = p
  BY <1>6, <1>8 DEF Projects, SameButActive
<1>14. Sourced(f) /\ Sourced(seen) => Sourced(g)
  <2>1. Sourced(f) => Sourced(h) BY <1>6 DEF Sourced, SameButActive
  <2>2. QED BY <1>8, <2>1 DEF Projects
<1>15. Fresh(f, seen, log[e]) => Fresh(h, seen, log[e])
  <2>1. h.participant = f.participant /\ h.completed = f.completed BY <1>6 DEF SameButActive
  <2>2. PresentUsers(h) = PresentUsers(f) BY <2>1, SamePresent
  <2>3. QED BY <2>1, <2>2 DEF Fresh, Current
<1>16. Fresh(f, seen, log[e]) /\ Counts(f) => Counts(g)
  <2>1. Counts(f) => Counts(h) BY <1>6, SamePresent DEF Counts, SameButActive
  <2>2. QED BY <1>8, <1>15, <2>1 DEF Projects
<1>17. Spares(f, seen, log[e], g)
  <2>1. h.participant = f.participant /\ h.completed = f.completed BY <1>6 DEF SameButActive
  <2>2. PresentUsers(h) = PresentUsers(f) BY <2>1, SamePresent
  <2>3. Spares(h, seen, log[e], g) BY <1>8 DEF Projects
  <2>4. QED BY <1>15, <2>1, <2>2, <2>3 DEF Spares
<1>18. QED BY <1>9, <1>10, <1>11, <1>12, <1>13, <1>14, <1>16, <1>17 DEF Claims

-----------------------------------------------------------------------------
(* What the product's appending does. *)

\* Appended rows come after the others, which stay.
Extends(l, k) ==
  /\ k \in Seq(EventRow) /\ DOMAIN l \subseteq DOMAIN k
  /\ \A e \in DOMAIN l : k[e] = l[e]

\* The rows of k past those of l are events.
Appends(l, events, k) ==
  /\ Extends(l, k) /\ Len(k) = Len(l) + Len(events)
  /\ \A e \in DOMAIN k \ DOMAIN l :
       e - Len(l) \in DOMAIN events /\ k[e] = events[e - Len(l)]

\* Appending is concatenation.
LEMMA Appended ==
  ASSUME NEW l \in Seq(EventRow), NEW events \in Seq(EventRow)
  PROVE  Appends(l, events, l \o events)
<1>0. PICK k : k = l \o events OBVIOUS
<1>1. k \in Seq(EventRow) /\ Len(k) = Len(l) + Len(events) BY <1>0
<1>2. /\ Len(l) \in Nat /\ Len(events) \in Nat
      /\ DOMAIN l = 1 .. Len(l) /\ DOMAIN events = 1 .. Len(events) /\ DOMAIN k = 1 .. Len(k)
  BY <1>1
<1>3. DOMAIN l \subseteq DOMAIN k BY <1>1, <1>2
<1>4. \A e \in 1 .. Len(l) : k[e] = l[e] BY <1>0
<1>5. ASSUME NEW e \in DOMAIN k \ DOMAIN l
      PROVE  e - Len(l) \in DOMAIN events /\ k[e] = events[e - Len(l)]
  <2>1. e \in Len(l) + 1 .. Len(l) + Len(events) BY <1>1, <1>2, <1>5
  <2>2. e - Len(l) \in DOMAIN events BY <1>2, <2>1
  <2>3. k[e] = events[e - Len(l)] BY <1>0, <2>1
  <2>4. QED BY <2>2, <2>3
<1>6. Extends(l, k) BY <1>1, <1>2, <1>3, <1>4 DEF Extends
<1>7. QED BY <1>0, <1>1, <1>5, <1>6 DEF Appends

\* A source stays one as the outbox grows.
LEMMA SourcedStays ==
  ASSUME NEW f, Extends(log, log'), Sourced(f)
  PROVE  /\ f.completed # 0 => f.completedSource # 0
         /\ f.completedSource # 0 =>
              f.completedSource \in DOMAIN log' /\ log'[f.completedSource].type = "ROOM_COMPLETED"
         /\ f.accepted # 0 => f.acceptedSource # 0
         /\ f.acceptedSource # 0 =>
              /\ f.acceptedSource \in DOMAIN log'
              /\ log'[f.acceptedSource].type = "JOIN_REQUEST_ACCEPTED"
         /\ \A u \in DOMAIN f.played :
              f.played[u] \in DOMAIN log' /\ log'[f.played[u]].type = "ROOM_COMPLETED"
<1>1. QED BY DEF Sourced, IsSource, Positions, Extends

\* Fewer open projections of the same events, or the same, miss nothing either.
LEMMA SameReads ==
  ASSUME InTurn, crossed' = crossed, fact' = fact,
         \A w \in Projectors : Busy(w)' =>
           Busy(w) /\ project'[w] = project[w] /\ log'[project[w].event] = log[project[w].event]
  PROVE  InTurn'
<1>1. SUFFICES ASSUME ~crossed' PROVE
        /\ \A v, w \in Projectors : Busy(v)' /\ Busy(w)' /\ v # w =>
             ~Crosses(log'[project'[v].event], log'[project'[w].event])
        /\ \A w \in Projectors : Busy(w)' =>
             Current(fact', project'[w].seen, log'[project'[w].event])
  BY DEF InTurn, Current, Crosses, PresentUsers
<1>2. ASSUME NEW v \in Projectors, NEW w \in Projectors, Busy(v)', Busy(w)', v # w
      PROVE  ~Crosses(log'[project'[v].event], log'[project'[w].event])
  <2>1. ~Crosses(log[project[v].event], log[project[w].event]) BY <1>1, <1>2 DEF InTurn
  <2>2. QED BY <1>2, <2>1
<1>3. ASSUME NEW w \in Projectors, Busy(w)'
      PROVE  Current(fact', project'[w].seen, log'[project'[w].event])
  <2>1. Current(fact, project[w].seen, log[project[w].event]) BY <1>1, <1>3 DEF InTurn
  <2>2. QED BY <1>3, <2>1
<1>4. QED BY <1>2, <1>3

\* While the product appends, the tables and their projections stay sound.
LEMMA AppendKeeps ==
  ASSUME IInv, Extends(log, log'),
         UNCHANGED <<published, returned, processed, fact, project, rebuild, alone, crossed>>
  PROVE  NotTwice' /\ ProcessedIsShown' /\ NothingSkipped' /\ AllSourced' /\ InTurn'
         /\ ReplayAlone' /\ PresenceIsCounted'
<1>1. Positions \subseteq Positions' BY DEF Positions, Extends
<1>2. \A e \in Positions : log'[e] = log[e] BY DEF Positions, Extends
<1>3. /\ processed \subseteq Positions
      /\ \A w \in Projectors : project[w].event \in Positions \cup {0}
  BY DEF IInv, TypeOK
<1>4. NotTwice' BY <1>2, <1>3 DEF IInv, NotTwice, Busy
<1>5. ProcessedIsShown'
  <2>1. ASSUME NEW e \in processed PROVE Shown(e)'
    <3>1. log'[e] = log[e] BY <1>2, <1>3, <2>1
    <3>2. Shown(e) BY <2>1 DEF IInv, ProcessedIsShown
    <3>3. QED BY <3>1, <3>2 DEF Shown
  <2>2. QED BY <2>1 DEF ProcessedIsShown
<1>6. NothingSkipped' BY DEF IInv, NothingSkipped, Handled, Queued, Busy
<1>7. AllSourced'
  <2>1. Sourced(fact) /\ \A w \in Projectors : Sourced(project[w].seen) BY DEF IInv, AllSourced
  <2>2. Sourced(fact)' BY <2>1, SourcedStays DEF Sourced, IsSource, Positions
  <2>3. ASSUME NEW w \in Projectors PROVE Sourced(project[w].seen)'
    <3>1. PICK f : f = project[w].seen OBVIOUS
    <3>2. Sourced(f) BY <2>1, <3>1
    <3>3. project'[w].seen = f BY <3>1
    <3>4. QED BY <3>2, <3>3, SourcedStays DEF Sourced, IsSource, Positions
  <2>4. QED BY <2>2, <2>3 DEF AllSourced
<1>8. ASSUME NEW w \in Projectors, Busy(w)'
      PROVE  Busy(w) /\ project'[w] = project[w] /\ log'[project[w].event] = log[project[w].event]
  <2>1. project'[w] = project[w] OBVIOUS
  <2>2. Busy(w) /\ project[w].event # 0 BY <1>8, <2>1 DEF Busy
  <2>3. project[w].event \in Positions BY <1>3, <2>2
  <2>4. QED BY <1>2, <2>1, <2>2, <2>3
<1>9. InTurn' BY <1>8, SameReads DEF IInv
<1>10. ReplayAlone'
  <2>1. "rebuild" \in Projectors BY DEF Projectors
  <2>2. QED BY <1>8, <2>1 DEF IInv, ReplayAlone, Busy
<1>11. PresenceIsCounted' BY DEF IInv, PresenceIsCounted, PresentUsers
<1>12. QED BY <1>4, <1>5, <1>6, <1>7, <1>9, <1>10, <1>11

\* The types, while the product appends.
LEMMA TypesExtend ==
  ASSUME TypeOK, Extends(log, log'), stage' \in Stages, user' \in [Participants -> Accounts],
         attendance' \in [Participants -> Attendance], marks' \in Nat,
         UNCHANGED <<published, returned, processed, fact, project, rebuild, alone, crossed, rebuilds>>
  PROVE  TypeOK'
<1>1. log' \in Seq(EventRow) BY DEF Extends
<1>2. Positions \subseteq Positions' BY DEF Positions, Extends
<1>3. published' \subseteq Positions' /\ processed' \subseteq Positions'
  BY <1>2 DEF TypeOK
<1>4. returned' \in [Passes -> Nat] /\ \A w \in Passes : returned'[w] \in Positions' \cup {0}
  BY <1>2 DEF TypeOK
<1>5. fact' \in Facts /\ project' \in [Projectors -> Projection] BY DEF TypeOK
<1>6. \A w \in Projectors : project'[w].event \in Positions' \cup {0} BY <1>2 DEF TypeOK
<1>7. /\ rebuild' \in [stage : {"NONE", "EMPTIED", "REPLAYING", "DONE", "ERROR"},
                       queue : Seq(Nat)]
      /\ alone' \in BOOLEAN /\ crossed' \in BOOLEAN /\ rebuilds' \in Nat
  BY DEF TypeOK
<1>8. \A i \in DOMAIN rebuild'.queue : rebuild'.queue[i] \in Positions' BY <1>2 DEF TypeOK
<1>9. QED BY <1>1, <1>3, <1>4, <1>5, <1>6, <1>7, <1>8 DEF TypeOK

\* Nobody's place is created by other events.
LEMMA CreatedOnceStays ==
  ASSUME CreatedOnce, Extends(log, log'),
         \A e \in DOMAIN log' \ DOMAIN log : log'[e].type # "PARTICIPANT_CREATED",
         stage \in {"SEATED", "COMPLETED"} => stage' \in {"SEATED", "COMPLETED"}
  PROVE  CreatedOnce'
<1>1. \A e \in Positions' : log'[e].type = "PARTICIPANT_CREATED" =>
        e \in Positions /\ log'[e] = log[e]
  BY DEF Positions, Extends
<1>2. QED BY <1>1 DEF CreatedOnce

\* The room's progress, one event at a time.
LEMMA OneEventKeeps ==
  ASSUME IInv, NEW ev \in EventRow, ev.type # "PARTICIPANT_CREATED", log' = log \o <<ev>>,
         stage' \in Stages,
         stage \in {"SEATED", "COMPLETED"} => stage' \in {"SEATED", "COMPLETED"},
         UNCHANGED <<user, attendance, marks, published, returned, processed, fact, project,
                     rebuild, alone, crossed, rebuilds>>
  PROVE  IInv'
<1>1. TypeOK BY DEF IInv
<1>2. log \in Seq(EventRow) /\ <<ev>> \in Seq(EventRow) BY <1>1 DEF TypeOK
<1>3. PICK k : k = log' OBVIOUS
<1>4. Appends(log, <<ev>>, k) BY <1>2, <1>3, Appended
<1>5. Extends(log, log') BY <1>3, <1>4 DEF Appends
<1>6. \A e \in DOMAIN log' \ DOMAIN log : log'[e] = ev BY <1>3, <1>4 DEF Appends
<1>7. TypeOK' 
  <2>1. /\ user' \in [Participants -> Accounts] /\ attendance' \in [Participants -> Attendance]
        /\ marks' \in Nat
    BY <1>1 DEF TypeOK
  <2>2. QED BY <1>1, <1>5, <2>1, TypesExtend
<1>8. CreatedOnce' BY <1>5, <1>6, CreatedOnceStays DEF IInv
<1>9. QED BY <1>5, <1>7, <1>8, AppendKeeps DEF IInv

\* The room is created.
LEMMA CreateRoomStep ==
  ASSUME IInv, CreateRoom PROVE IInv'
<1>1. RoomEvent("ROOM_CREATED") \in EventRow
  BY DEF RoomEvent, Event, EventRow, EventTypes, Attendance, Accounts
<1>2. RoomEvent("ROOM_CREATED").type # "PARTICIPANT_CREATED" BY DEF RoomEvent, Event
<1>3. QED BY <1>1, <1>2, OneEventKeeps DEF CreateRoom, AppendOutboxEvents, Stages

\* The application.
LEMMA ApplyToRoomStep ==
  ASSUME AnalyticsAssumption, IInv, ApplyToRoom PROVE IInv'
<1>1. PICK ev : ev = Event("JOIN_REQUEST_CREATED", Nil, Requester, "NOT_SET") OBVIOUS
<1>2. ev \in EventRow /\ ev.type # "PARTICIPANT_CREATED"
  BY <1>1 DEF Event, EventRow, EventTypes, Attendance, Accounts, AnalyticsAssumption
<1>3. QED BY <1>1, <1>2, OneEventKeeps DEF ApplyToRoom, AppendOutboxEvents, Stages

\* The completion; the room has been seated.
LEMMA CompleteRoomStep ==
  ASSUME IInv, CompleteRoom PROVE IInv'
<1>1. PICK ev : ev = RoomEvent("ROOM_COMPLETED") OBVIOUS
<1>2. ev \in EventRow /\ ev.type # "PARTICIPANT_CREATED"
  BY <1>1 DEF RoomEvent, Event, EventRow, EventTypes, Attendance, Accounts
<1>3. QED BY <1>1, <1>2, OneEventKeeps DEF CompleteRoom, AppendOutboxEvents, Stages

\* A claim tells no event and touches no table.
LEMMA ClaimGuestStep ==
  ASSUME AnalyticsAssumption, IInv, NEW p \in Participants, NEW u \in Claimers, ClaimGuest(p, u)
  PROVE  IInv'
<1>1. TypeOK BY DEF IInv
<1>2. Extends(log, log') BY <1>1 DEF TypeOK, Extends, ClaimGuest
<1>3. u \in Accounts BY DEF Accounts, AnalyticsAssumption
<1>4. TypeOK'
  <2>1. user' \in [Participants -> Accounts] BY <1>1, <1>3 DEF TypeOK, ClaimGuest
  <2>2. /\ stage' \in Stages /\ attendance' \in [Participants -> Attendance] /\ marks' \in Nat
    BY <1>1 DEF TypeOK, ClaimGuest, bounds
  <2>3. QED BY <1>1, <1>2, <2>1, <2>2, TypesExtend DEF ClaimGuest, bounds
<1>5. CreatedOnce' BY DEF IInv, CreatedOnce, ClaimGuest, Positions
<1>6. QED BY <1>2, <1>4, <1>5, AppendKeeps DEF IInv, ClaimGuest

\* A mark, and its correction.
LEMMA MarkAttendanceStep ==
  ASSUME IInv, NEW p \in Participants, NEW status \in {"PRESENT", "NO_SHOW"},
         MarkAttendance(p, status)
  PROVE  IInv'
<1>1. TypeOK BY DEF IInv
<1>2. PICK v \in Accounts : v = user[p] BY <1>1 DEF TypeOK
<1>3. PICK type : type = IF status = "PRESENT" THEN "PLAYER_MARKED_PRESENT" ELSE "PLAYER_NO_SHOW"
  OBVIOUS
<1>4. PICK a : a = Event(type, p, v, status) OBVIOUS
<1>5. PICK b : b = Event("ATTENDANCE_CORRECTED", p, v, status) OBVIOUS
<1>6. /\ a \in EventRow /\ a.type # "PARTICIPANT_CREATED"
      /\ b \in EventRow /\ b.type # "PARTICIPANT_CREATED"
  BY <1>3, <1>4, <1>5 DEF Event, EventRow, EventTypes, Attendance
<1>7. PICK events : events = <<a>> \o (IF attendance[p] = "NOT_SET" THEN <<>> ELSE <<b>>) OBVIOUS
<1>8. events \in Seq(EventRow) /\ \A i \in DOMAIN events : events[i] \in {a, b}
  <2>1. CASE attendance[p] = "NOT_SET"
    <3>1. events = <<a>> BY <1>7, <2>1
    <3>2. QED BY <1>6, <3>1
  <2>2. CASE attendance[p] # "NOT_SET"
    <3>0. events = <<a>> \o <<b>> BY <1>7, <2>2
    <3>1. <<a>> \in Seq(EventRow) /\ <<b>> \in Seq(EventRow) BY <1>6
    <3>2. Appends(<<a>>, <<b>>, events) BY <3>0, <3>1, Appended
    <3>3. events \in Seq(EventRow) /\ \A i \in DOMAIN <<a>> : events[i] = <<a>>[i]
      BY <3>2 DEF Appends, Extends
    <3>4. \A i \in DOMAIN <<a>> : events[i] = a BY <3>3
    <3>5. \A i \in DOMAIN events \ DOMAIN <<a>> : events[i] = b BY <3>2 DEF Appends
    <3>6. QED BY <3>3, <3>4, <3>5
  <2>3. QED BY <2>1, <2>2
<1>9. log' = log \o events
  BY <1>2, <1>3, <1>4, <1>5, <1>7 DEF MarkAttendance, AppendOutboxEvents
<1>10. PICK k : k = log' OBVIOUS
<1>11. Appends(log, events, k)
  <2>1. log \in Seq(EventRow) BY <1>1 DEF TypeOK
  <2>2. QED BY <1>8, <1>9, <1>10, <2>1, Appended
<1>12. Extends(log, log') BY <1>10, <1>11 DEF Appends
<1>13. \A e \in DOMAIN log' \ DOMAIN log : log'[e].type # "PARTICIPANT_CREATED"
  BY <1>6, <1>8, <1>10, <1>11 DEF Appends
<1>14. TypeOK'
  <2>1. status \in Attendance BY DEF Attendance
  <2>2. attendance' \in [Participants -> Attendance] /\ marks' \in Nat
    BY <1>1, <2>1 DEF TypeOK, MarkAttendance
  <2>3. stage' \in Stages /\ user' \in [Participants -> Accounts]
    BY <1>1 DEF TypeOK, MarkAttendance
  <2>4. QED BY <1>1, <1>12, <2>2, <2>3, TypesExtend DEF MarkAttendance, AppendOutboxEvents
<1>15. CreatedOnce' BY <1>12, <1>13, CreatedOnceStays DEF IInv, MarkAttendance
<1>16. QED BY <1>12, <1>14, <1>15, AppendKeeps DEF IInv, MarkAttendance, AppendOutboxEvents

\* The places in some order, each of them and each once.
LEMMA PlacesInOrder ==
  ASSUME AnalyticsAssumption
  PROVE  \E n \in Nat : /\ SetToSeq(Participants) \in [1 .. n -> Participants]
                        /\ \A i, j \in 1 .. n : SetToSeq(Participants)[i] = SetToSeq(Participants)[j]
                                                => i = j
                        /\ \A p \in Participants :
                             \E i \in 1 .. n : SetToSeq(Participants)[i] = p
<1>1. IsFiniteSet(Participants) BY DEF AnalyticsAssumption
<1>2. PICK n \in Nat : n = Cardinality(Participants) /\ ExistsBijection(1 .. n, Participants)
  BY <1>1, FS_CardinalityType
<1>3. \E f \in [1 .. n -> Participants] : IsInjective(f)
  BY <1>2 DEF ExistsBijection, Bijection, Injection
<1>4. PICK sq : sq = SetToSeq(Participants) OBVIOUS
<1>5. sq = CHOOSE f \in [1 .. n -> Participants] : IsInjective(f) BY <1>2, <1>4 DEF SetToSeq
<1>6. sq \in [1 .. n -> Participants] /\ IsInjective(sq) BY <1>3, <1>5
<1>7. \A i, j \in 1 .. n : sq[i] = sq[j] => i = j BY <1>6 DEF IsInjective
<1>8. PICK S : S = {sq[i] : i \in 1 .. n} OBVIOUS
<1>9. S \subseteq Participants /\ Cardinality(S) = n
  <2>1. S \subseteq Participants BY <1>6, <1>8
  <2>2. sq \in Bijection(1 .. n, S)
    <3>1. sq \in [1 .. n -> S] BY <1>6, <1>8
    <3>2. \A x \in S : \E i \in 1 .. n : sq[i] = x BY <1>8
    <3>3. QED BY <1>6, <3>1, <3>2 DEF Bijection, Injection, Surjection
  <2>3. ExistsBijection(1 .. n, S) BY <2>2 DEF ExistsBijection
  <2>4. IsFiniteSet(S) BY <1>1, <2>1, FS_Subset
  <2>5. Cardinality(S) = n BY <2>3, <2>4, FS_CardinalityType, FS_CountingElements
  <2>6. QED BY <2>1, <2>5
<1>10. S = Participants BY <1>1, <1>2, <1>9, FS_Subset
<1>11. \A p \in Participants : \E i \in 1 .. n : sq[i] = p BY <1>8, <1>10
<1>12. QED BY <1>4, <1>6, <1>7, <1>11

\* The acceptance creates every place, each once.
LEMMA AcceptApplicationStep ==
  ASSUME AnalyticsAssumption, IInv, AcceptApplication PROVE IInv'
<1>1. TypeOK BY DEF IInv
<1>0. PICK sq : sq = SetToSeq(Participants) OBVIOUS
<1>2. PICK n \in Nat : /\ sq \in [1 .. n -> Participants]
                       /\ \A i, j \in 1 .. n : sq[i] = sq[j] => i = j
  BY <1>0, PlacesInOrder
<1>3. PICK users \in [Participants -> Accounts] : users = user BY <1>1 DEF TypeOK
<1>4. PICK a : a = RoomEvent("JOIN_REQUEST_ACCEPTED") OBVIOUS
<1>5. PICK seats : seats = [i \in 1 .. n |-> Event("PARTICIPANT_CREATED", sq[i], users[sq[i]], "NOT_SET")]
  OBVIOUS
<1>6. a \in EventRow /\ a.type # "PARTICIPANT_CREATED"
  BY <1>4 DEF RoomEvent, Event, EventRow, EventTypes, Attendance, Accounts
<1>7. \A i \in 1 .. n : seats[i] \in EventRow /\ seats[i].participant = sq[i]
  BY <1>2, <1>3, <1>5 DEF Event, EventRow, EventTypes, Attendance
<1>8. seats \in Seq(EventRow) /\ DOMAIN seats = 1 .. n
  <2>1. seats \in [1 .. n -> EventRow] BY <1>5, <1>7
  <2>2. QED BY <2>1
<1>9. PICK events : events = <<a>> \o seats OBVIOUS
<1>10. <<a>> \in Seq(EventRow) /\ DOMAIN <<a>> = {1} /\ Len(<<a>>) = 1 BY <1>6
<1>11. Appends(<<a>>, seats, events) BY <1>8, <1>9, <1>10, Appended
<1>12. events \in Seq(EventRow) /\ events[1] = a BY <1>10, <1>11 DEF Appends, Extends
<1>13. \A i \in DOMAIN events : i # 1 => i - 1 \in 1 .. n /\ events[i] = seats[i - 1]
  BY <1>8, <1>10, <1>11 DEF Appends
<1>14. log' = log \o events
  <2>1. DOMAIN sq = 1 .. n BY <1>2
  <2>2. [i \in DOMAIN SetToSeq(Participants) |->
           LET p == SetToSeq(Participants)[i] IN
             Event("PARTICIPANT_CREATED", p, user[p], "NOT_SET")] = seats
    BY <1>0, <1>2, <1>3, <1>5, <2>1
  <2>3. QED BY <1>4, <1>9, <2>2 DEF AcceptApplication, AppendOutboxEvents
<1>15. PICK k : k = log' OBVIOUS
<1>16. log \in Seq(EventRow) BY <1>1 DEF TypeOK
<1>17. Appends(log, events, k) BY <1>12, <1>14, <1>15, <1>16, Appended
<1>18. Extends(log, log') BY <1>15, <1>17 DEF Appends
<1>19. TypeOK'
  <2>1. /\ stage' \in Stages /\ user' \in [Participants -> Accounts]
        /\ attendance' \in [Participants -> Attendance] /\ marks' \in Nat
    BY <1>1 DEF TypeOK, AcceptApplication, Stages
  <2>2. QED BY <1>1, <1>18, <2>1, TypesExtend DEF AcceptApplication, AppendOutboxEvents
<1>20. CreatedOnce'
  <2>1. \A e \in Positions : log[e].type # "PARTICIPANT_CREATED"
    BY DEF IInv, CreatedOnce, AcceptApplication
  <2>2. ASSUME NEW e \in DOMAIN k, k[e].type = "PARTICIPANT_CREATED"
        PROVE  /\ e \in Nat /\ e - Len(log) - 1 \in 1 .. n
               /\ k[e].participant = sq[e - Len(log) - 1]
    <3>1. e \notin DOMAIN log BY <1>17, <2>1, <2>2 DEF Appends, Extends, Positions
    <3>2. PICK i : i = e - Len(log) OBVIOUS
    <3>3. i \in DOMAIN events /\ k[e] = events[i] BY <1>17, <2>2, <3>1, <3>2 DEF Appends
    <3>4. i # 1 BY <1>6, <1>12, <2>2, <3>3
    <3>5. i - 1 \in 1 .. n /\ k[e] = seats[i - 1] BY <1>13, <3>3, <3>4
    <3>6. k[e].participant = sq[i - 1] BY <1>7, <3>5
    <3>7. e \in Nat BY <1>17, <2>2 DEF Appends, Extends
    <3>8. QED BY <3>2, <3>5, <3>6, <3>7
  <2>3. stage' = "SEATED" BY DEF AcceptApplication
  <2>4. \A e \in DOMAIN k : k[e].type = "PARTICIPANT_CREATED" => k[e].participant \in Participants
    BY <1>2, <2>2
  <2>5. ASSUME NEW d \in DOMAIN k, NEW e \in DOMAIN k, k[d].type = "PARTICIPANT_CREATED",
               k[e].type = "PARTICIPANT_CREATED", k[d].participant = k[e].participant
        PROVE  d = e
    <3>1. d - Len(log) - 1 = e - Len(log) - 1 BY <1>2, <2>2, <2>5
    <3>2. Len(log) \in Nat /\ d \in Nat /\ e \in Nat BY <1>16, <2>2, <2>5
    <3>3. QED BY <3>1, <3>2
  <2>6. QED BY <1>15, <2>3, <2>4, <2>5 DEF CreatedOnce, Positions
<1>21. QED BY <1>18, <1>19, <1>20, AppendKeeps DEF IInv, AcceptApplication, AppendOutboxEvents

-----------------------------------------------------------------------------
(* What a projection's beginning, its commit and its failure do. *)

\* The rebuild is no pass.
LEMMA WhoProjects ==
  ASSUME AnalyticsAssumption
  PROVE  /\ "rebuild" \in Projectors /\ \A w \in Passes : w \in Projectors /\ w # "rebuild"
         /\ \A v \in Projectors : v # "rebuild" => v \in Passes
<1>1. QED BY DEF Projectors, AnalyticsAssumption

\* Empty tables.
LEMMA EmptyTables ==
  /\ NoFacts \in Facts /\ Sourced(NoFacts) /\ NoFacts.completed = 0
  /\ DOMAIN NoFacts.participant = {}
  /\ Idle \in Projection /\ Idle.event = 0 /\ Idle.seen = NoFacts
<1>1. <<>> \in [{} -> Activity] /\ <<>> \in [{} -> Participant] /\ <<>> \in [{} -> Nat] OBVIOUS
<1>2. <<>> \in ActiveUsers
  <2>1. {} \in SUBSET Users OBVIOUS
  <2>2. QED BY <1>1, <2>1 DEF ActiveUsers
<1>3. <<>> \in Places
  <2>1. {} \in SUBSET Participants OBVIOUS
  <2>2. QED BY <1>1, <2>1 DEF Places
<1>4. <<>> \in Played
  <2>1. {} \in SUBSET Users OBVIOUS
  <2>2. QED BY <1>1, <2>1 DEF Played
<1>5. NoFacts \in Facts BY <1>2, <1>3, <1>4 DEF NoFacts, Facts
<1>6. DOMAIN NoFacts.participant = {} /\ DOMAIN NoFacts.played = {} BY DEF NoFacts
<1>7. /\ NoFacts.completed = 0 /\ NoFacts.completedSource = 0
      /\ NoFacts.accepted = 0 /\ NoFacts.acceptedSource = 0
  BY DEF NoFacts
<1>8. Sourced(NoFacts) BY <1>6, <1>7 DEF Sourced
<1>9. QED BY <1>5, <1>6, <1>7, <1>8 DEF Idle, Projection

\* A projector goes on to another event, or to none.
LEMMA ProjectorTurns ==
  ASSUME TypeOK, NEW w \in Projectors, NEW t \in Projection, t.event \in Positions \cup {0},
         project' = [project EXCEPT ![w] = t], UNCHANGED log
  PROVE  /\ project' \in [Projectors -> Projection]
         /\ \A v \in Projectors : project'[v].event \in Positions' \cup {0}
         /\ project'[w] = t /\ \A v \in Projectors : v # w => project'[v] = project[v]
<1>1. project \in [Projectors -> Projection] BY DEF TypeOK
<1>2. /\ project' \in [Projectors -> Projection]
      /\ project'[w] = t /\ \A v \in Projectors : v # w => project'[v] = project[v]
  BY <1>1
<1>3. Positions' = Positions BY DEF Positions
<1>4. \A v \in Projectors : project'[v].event \in Positions \cup {0} BY <1>2 DEF TypeOK
<1>5. QED BY <1>2, <1>3, <1>4

\* A source stays one as the tables change.
LEMMA SourcesOfTheSame ==
  ASSUME NEW f, Sourced(f), UNCHANGED log
  PROVE  /\ f.completed # 0 => f.completedSource # 0
         /\ f.completedSource # 0 =>
              f.completedSource \in DOMAIN log' /\ log'[f.completedSource].type = "ROOM_COMPLETED"
         /\ f.accepted # 0 => f.acceptedSource # 0
         /\ f.acceptedSource # 0 =>
              /\ f.acceptedSource \in DOMAIN log'
              /\ log'[f.acceptedSource].type = "JOIN_REQUEST_ACCEPTED"
         /\ \A u \in DOMAIN f.played :
              f.played[u] \in DOMAIN log' /\ log'[f.played[u]].type = "ROOM_COMPLETED"
<1>1. QED BY DEF Sourced, IsSource, Positions

\* The tables and what each projection has read, together.
LEMMA AllSourcedAfter ==
  ASSUME UNCHANGED log, NEW f, f = fact', Sourced(f),
         NEW seen, \A v \in Projectors : Sourced(seen[v]),
         \A v \in Projectors : project'[v].seen = seen[v]
  PROVE  AllSourced'
<1>1. Sourced(fact)' BY SourcesOfTheSame DEF Sourced, IsSource, Positions
<1>2. ASSUME NEW v \in Projectors PROVE Sourced(project[v].seen)'
  <2>1. PICK s : s = seen[v] OBVIOUS
  <2>2. Sourced(s) /\ project'[v].seen = s BY <2>1
  <2>3. QED BY <2>2, SourcesOfTheSame DEF Sourced, IsSource, Positions
<1>3. QED BY <1>1, <1>2 DEF AllSourced

\* What a projection has read are columns of the tables, and name their sources as
\* those do.
LEMMA ReadFields ==
  ASSUME NEW f \in Facts, NEW ev
  PROVE  /\ Read(f, ev) \in Facts
         /\ Sourced(f) => Sourced(Read(f, ev))
         /\ ev.type = "ROOM_COMPLETED" =>
              /\ Read(f, ev).participant = f.participant
              /\ PresentUsers(Read(f, ev)) = PresentUsers(f)
         /\ ev.type \in MarkTypes =>
              Read(f, ev).participant = f.participant /\ Read(f, ev).completed = f.completed
<1>1. NoFacts \in Facts /\ Sourced(NoFacts) BY EmptyTables
<1>2. PICK g : g = Read(f, ev) OBVIOUS
<1>3. CASE ev.type = "JOIN_REQUEST_ACCEPTED"
  <2>1. g = [NoFacts EXCEPT !.application = f.application]
    BY <1>2, <1>3 DEF Read, MarkTypes
  <2>2. g \in Facts BY <1>1, <2>1 DEF Facts
  <2>3. Sourced(g) BY <1>1, <2>1 DEF Sourced, Facts
  <2>4. QED BY <1>2, <1>3, <2>2, <2>3 DEF MarkTypes
<1>4. CASE ev.type = "ROOM_COMPLETED"
  <2>1. g = [NoFacts EXCEPT !.participant = f.participant]
    BY <1>2, <1>4 DEF Read, MarkTypes
  <2>2. g \in Facts /\ g.participant = f.participant BY <1>1, <2>1 DEF Facts
  <2>3. Sourced(g) BY <1>1, <2>1 DEF Sourced, Facts
  <2>4. PresentUsers(g) = PresentUsers(f) BY <2>2, SamePresent
  <2>5. QED BY <1>2, <1>4, <2>2, <2>3, <2>4 DEF MarkTypes
<1>5. CASE ev.type \in MarkTypes
  <2>1. g = [NoFacts EXCEPT !.participant = f.participant, !.completed = f.completed,
                            !.completedSource = f.completedSource]
    BY <1>2, <1>5 DEF Read, MarkTypes
  <2>2. g \in Facts /\ g.participant = f.participant /\ g.completed = f.completed
    BY <1>1, <2>1 DEF Facts
  <2>3. Sourced(f) => Sourced(g) BY <1>1, <2>1 DEF Sourced, Facts
  <2>4. QED BY <1>2, <1>5, <2>2, <2>3 DEF MarkTypes
<1>6. CASE ev.type \notin {"JOIN_REQUEST_ACCEPTED", "ROOM_COMPLETED"} \cup MarkTypes
  <2>1. g = NoFacts BY <1>2, <1>6 DEF Read
  <2>2. QED BY <1>1, <1>2, <1>6, <2>1
<1>7. QED BY <1>3, <1>4, <1>5, <1>6

\* What has been begun: only events not yet processed, and by one projector.
LEMMA BeginKeeps ==
  ASSUME IInv, NEW w \in Projectors, NEW e \in Positions, Begin(w, e),
         UNCHANGED <<log, processed, fact>>
  PROVE  /\ project' \in [Projectors -> Projection]
         /\ \A v \in Projectors : project'[v].event \in Positions' \cup {0}
         /\ \A v \in Projectors : v # w => project'[v] = project[v]
         /\ project'[w].event = e /\ project'[w].seen = Read(fact, log[e])
         /\ crossed' \in BOOLEAN
         /\ NotTwice' /\ AllSourced' /\ InTurn' /\ PresenceIsCounted'
<1>1. TypeOK BY DEF IInv
<1>2. PICK t : t = [event |-> e, seen |-> Read(fact, log[e])] OBVIOUS
<1>3. fact \in Facts BY <1>1 DEF TypeOK
<1>4. e \in Nat \ {0} BY <1>1 DEF TypeOK, Positions
<1>5. t \in Projection /\ t.event = e /\ t.seen = Read(fact, log[e])
  BY <1>2, <1>3, <1>4, ReadFields DEF Projection
<1>6. project' = [project EXCEPT ![w] = t] BY <1>2 DEF Begin
<1>7. /\ project' \in [Projectors -> Projection]
      /\ \A v \in Projectors : project'[v].event \in Positions' \cup {0}
      /\ project'[w] = t /\ \A v \in Projectors : v # w => project'[v] = project[v]
  BY <1>1, <1>5, <1>6, ProjectorTurns
<1>8. e \notin processed /\ \A v \in Projectors : Busy(v) => project[v].event # e BY DEF Begin
<1>9. \A v \in Projectors : v # w /\ Busy(v)' => Busy(v) /\ project'[v] = project[v]
  BY <1>7 DEF Busy
<1>10. crossed' = (crossed \/ \E v \in Projectors : Busy(v) /\ Crosses(log[e], log[project[v].event]))
  BY DEF Begin
<1>11. NotTwice'
  <2>1. ASSUME NEW v \in Projectors, Busy(v)' PROVE project'[v].event \notin processed'
    <3>1. CASE v = w BY <1>5, <1>7, <1>8, <3>1
    <3>2. CASE v # w BY <1>9, <2>1, <3>2 DEF IInv, NotTwice
    <3>3. QED BY <3>1, <3>2
  <2>2. ASSUME NEW u \in Projectors, NEW v \in Projectors, Busy(u)', u # v
        PROVE  project'[u].event # project'[v].event
    <3>1. CASE u = w
      <4>1. project'[u].event = e /\ project'[v] = project[v] BY <1>5, <1>7, <2>2, <3>1
      <4>2. e # 0 BY <1>4
      <4>3. QED BY <1>8, <4>1, <4>2 DEF Busy
    <3>2. CASE u # w
      <4>1. Busy(u) /\ project'[u] = project[u] BY <1>9, <2>2, <3>2
      <4>2. CASE v = w BY <1>5, <1>7, <1>8, <4>1, <4>2
      <4>3. CASE v # w BY <1>7, <2>2, <4>1, <4>3 DEF IInv, NotTwice
      <4>4. QED BY <4>2, <4>3
    <3>3. QED BY <3>1, <3>2
  <2>3. \A p \in DOMAIN fact'.participant :
          \E d \in processed' : log'[d].type = "PARTICIPANT_CREATED" /\ log'[d].participant = p
    BY DEF IInv, NotTwice
  <2>4. QED BY <2>1, <2>2, <2>3 DEF NotTwice
<1>12. AllSourced'
  <2>1. Sourced(fact) /\ \A v \in Projectors : Sourced(project[v].seen) BY DEF IInv, AllSourced
  <2>2. PICK seen : seen = [v \in Projectors |-> IF v = w THEN t.seen ELSE project[v].seen] OBVIOUS
  <2>3. \A v \in Projectors : Sourced(seen[v]) BY <1>3, <1>5, <2>1, <2>2, ReadFields
  <2>4. \A v \in Projectors : project'[v].seen = seen[v] BY <1>7, <2>2
  <2>5. PICK f : f = fact OBVIOUS
  <2>6. Sourced(f) /\ f = fact' BY <2>1, <2>5
  <2>7. QED BY <2>3, <2>4, <2>6, AllSourcedAfter
<1>13. InTurn'
  <2>1. SUFFICES ASSUME ~crossed' PROVE
          /\ \A u, v \in Projectors : Busy(u)' /\ Busy(v)' /\ u # v =>
               ~Crosses(log'[project'[u].event], log'[project'[v].event])
          /\ \A v \in Projectors : Busy(v)' =>
               Current(fact', project'[v].seen, log'[project'[v].event])
    BY DEF InTurn, Current, Crosses, PresentUsers
  <2>2. ~crossed /\ \A v \in Projectors : Busy(v) => ~Crosses(log[e], log[project[v].event])
    BY <1>10, <2>1
  <2>3. ASSUME NEW u \in Projectors, NEW v \in Projectors, Busy(u)', Busy(v)', u # v
        PROVE  ~Crosses(log'[project'[u].event], log'[project'[v].event])
    <3>1. CASE u = w
      <4>1. Busy(v) /\ project'[v] = project[v] /\ project'[u].event = e
        BY <1>5, <1>7, <1>9, <2>3, <3>1
      <4>2. QED BY <2>2, <4>1
    <3>2. CASE v = w
      <4>1. Busy(u) /\ project'[u] = project[u] /\ project'[v].event = e
        BY <1>5, <1>7, <1>9, <2>3, <3>2
      <4>2. ~Crosses(log[e], log[project[u].event]) BY <2>2, <4>1
      <4>3. ~Crosses(log[project[u].event], log[e]) BY <4>2 DEF Crosses
      <4>4. QED BY <4>1, <4>3
    <3>3. CASE u # w /\ v # w
      <4>1. Busy(u) /\ Busy(v) /\ project'[u] = project[u] /\ project'[v] = project[v]
        BY <1>9, <2>3, <3>3
      <4>2. ~Crosses(log[project[u].event], log[project[v].event])
        BY <2>2, <2>3, <4>1 DEF IInv, InTurn
      <4>3. QED BY <4>1, <4>2
    <3>4. QED BY <3>1, <3>2, <3>3
  <2>4. ASSUME NEW v \in Projectors, Busy(v)'
        PROVE  Current(fact', project'[v].seen, log'[project'[v].event])
    <3>1. CASE v = w
      <4>1. PICK ev : ev = log[e] OBVIOUS
      <4>2. t.seen = Read(fact, ev) BY <1>5, <4>1
      <4>3. /\ ev.type = "ROOM_COMPLETED" => PresentUsers(Read(fact, ev)) = PresentUsers(fact)
            /\ ev.type \in MarkTypes => Read(fact, ev).completed = fact.completed
        BY <1>3, ReadFields, Zenon
      <4>4. /\ ev.type = "ROOM_COMPLETED" => PresentUsers(t.seen) = PresentUsers(fact)
            /\ ev.type \in MarkTypes => t.seen.completed = fact.completed
        BY <4>2, <4>3, Zenon
      <4>5. Current(fact, t.seen, log[e]) BY <4>1, <4>4 DEF Current
      <4>6. QED BY <1>5, <1>7, <3>1, <4>5
    <3>2. CASE v # w
      <4>1. Busy(v) /\ project'[v] = project[v] BY <1>9, <2>4, <3>2
      <4>2. Current(fact, project[v].seen, log[project[v].event])
        BY <2>2, <4>1 DEF IInv, InTurn
      <4>3. QED BY <4>1, <4>2
    <3>3. QED BY <3>1, <3>2
  <2>5. QED BY <2>3, <2>4
<1>14. crossed' \in BOOLEAN /\ (~crossed' => ~crossed) BY <1>10
<1>15. PresenceIsCounted' BY <1>14 DEF IInv, PresenceIsCounted, PresentUsers
<1>16. QED BY <1>5, <1>7, <1>11, <1>12, <1>13, <1>14, <1>15

\* What shows in the tables still does after a projection.
LEMMA ShownStays ==
  ASSUME NEW f \in Facts, NEW g \in Facts, Grows(f, g), NEW e \in Nat, ShownIn(f, e),
         ActiveActors(log[e]) \subseteq Users
  PROVE  ShownIn(g, e)
<1>1. Entered(g, log[e]) BY DEF ShownIn, Entered, Grows
<1>2. ASSUME NEW u \in ActiveActors(log[e])
      PROVE  u \in DOMAIN g.active /\ g.active[u].first <= e /\ e <= g.active[u].last
  <2>1. u \in DOMAIN f.active /\ f.active[u].first <= e /\ e <= f.active[u].last
    BY <1>2 DEF ShownIn
  <2>2. /\ u \in DOMAIN g.active
        /\ g.active[u].first <= f.active[u].first /\ f.active[u].last <= g.active[u].last
    BY <2>1 DEF Grows
  <2>3. f.active[u].first \in Nat /\ f.active[u].last \in Nat
    BY <2>1 DEF Facts, ActiveUsers, Activity
  <2>4. g.active[u].first \in Nat /\ g.active[u].last \in Nat
    BY <2>2 DEF Facts, ActiveUsers, Activity
  <2>5. QED BY <2>1, <2>2, <2>3, <2>4
<1>3. QED BY <1>1, <1>2 DEF ShownIn

\* A commit projects an event nobody has, and marks it processed.
LEMMA CommitKeeps ==
  ASSUME AnalyticsAssumption, IInv, NEW w \in Projectors, Commit(w),
         UNCHANGED <<product, alone, crossed>>
  PROVE  /\ project[w].event \in Positions /\ processed' = processed \cup {project[w].event}
         /\ fact' \in Facts /\ project' \in [Projectors -> Projection]
         /\ \A v \in Projectors : project'[v].event \in Positions' \cup {0}
         /\ \A v \in Projectors : v # w => project'[v] = project[v]
         /\ project'[w].event = 0
         /\ NotTwice' /\ ProcessedIsShown' /\ AllSourced' /\ InTurn' /\ ReplayAlone'
         /\ PresenceIsCounted'
<1>1. TypeOK BY DEF IInv
<1>2. PICK e : e = project[w].event OBVIOUS
<1>3. PICK seen : seen = project[w].seen OBVIOUS
<1>4. project[w] \in Projection BY <1>1 DEF TypeOK
<1>5. e \in Positions /\ seen \in Facts BY <1>1, <1>2, <1>3, <1>4 DEF TypeOK, Commit, Busy, Projection
<1>6. log \in Seq(EventRow) /\ fact \in Facts /\ log' = log BY <1>1 DEF TypeOK, product
<1>7. e \in Nat \ {0} /\ log[e] \in EventRow BY <1>5, <1>6 DEF Positions
<1>8. Busy(w) /\ e \notin processed BY <1>2 DEF Commit, IInv, NotTwice
<1>9. log[e].type = "PARTICIPANT_CREATED" => log[e].participant \in Participants
  BY <1>5 DEF IInv, CreatedOnce
<1>10. PICK f : f = fact OBVIOUS
<1>11. PICK g : g = ProjectClaimed(f, seen, e) OBVIOUS
<1>12. Claims(f, seen, e, g) BY <1>5, <1>6, <1>9, <1>10, <1>11, ClaimedProjects
<1>13. fact' = g BY <1>2, <1>3, <1>10, <1>11 DEF Commit
<1>14. processed' = processed \cup {e} BY <1>2 DEF Commit
<1>15. /\ project' \in [Projectors -> Projection]
       /\ \A v \in Projectors : project'[v].event \in Positions' \cup {0}
       /\ project'[w] = Idle /\ \A v \in Projectors : v # w => project'[v] = project[v]
  <2>1. PICK t : t = Idle OBVIOUS
  <2>2. t \in Projection /\ t.event \in Positions \cup {0} BY <2>1, EmptyTables
  <2>3. project' = [project EXCEPT ![w] = t] BY <2>1 DEF Commit
  <2>4. QED BY <1>1, <1>6, <2>1, <2>2, <2>3, ProjectorTurns
<1>16. Positions' = Positions BY <1>6 DEF Positions
<1>17. f \in Facts /\ g \in Facts /\ Grows(f, g) BY <1>6, <1>10, <1>12 DEF Claims
<1>18. NotTwice'
  <2>1. ASSUME NEW v \in Projectors, Busy(v)'
        PROVE  v # w /\ Busy(v) /\ project'[v] = project[v]
    <3>1. v # w BY <1>15, <2>1, EmptyTables DEF Busy
    <3>2. QED BY <1>15, <2>1, <3>1 DEF Busy
  <2>2. ASSUME NEW v \in Projectors, Busy(v)' PROVE project'[v].event \notin processed'
    <3>1. v # w /\ Busy(v) /\ project'[v] = project[v] BY <2>1, <2>2
    <3>2. project[v].event \notin processed /\ project[v].event # project[w].event
      BY <3>1 DEF IInv, NotTwice
    <3>3. QED BY <1>2, <1>14, <3>1, <3>2
  <2>3. ASSUME NEW u \in Projectors, NEW v \in Projectors, Busy(u)', u # v
        PROVE  project'[u].event # project'[v].event
    <3>1. u # w /\ Busy(u) /\ project'[u] = project[u] BY <2>1, <2>3
    <3>2. CASE v = w BY <1>15, <2>3, <3>2, EmptyTables DEF Busy
    <3>3. CASE v # w
      <4>1. project'[v] = project[v] BY <1>15, <3>3
      <4>2. project[u].event # project[v].event BY <2>3, <3>1 DEF IInv, NotTwice
      <4>3. QED BY <3>1, <4>1, <4>2
    <3>4. QED BY <3>2, <3>3
  <2>4. ASSUME NEW p \in DOMAIN g.participant
        PROVE  \E d \in processed' : log[d].type = "PARTICIPANT_CREATED" /\ log[d].participant = p
    <3>1. CASE p \in DOMAIN f.participant
      <4>1. \E d \in processed : log[d].type = "PARTICIPANT_CREATED" /\ log[d].participant = p
        BY <1>10, <3>1 DEF IInv, NotTwice
      <4>2. QED BY <1>14, <4>1
    <3>2. CASE p \notin DOMAIN f.participant
      <4>1. log[e].type = "PARTICIPANT_CREATED" /\ log[e].participant = p
        BY <1>12, <2>4, <3>2 DEF Claims
      <4>2. QED BY <1>14, <4>1
    <3>3. QED BY <3>1, <3>2
  <2>5. QED BY <1>6, <1>13, <2>2, <2>3, <2>4 DEF NotTwice
<1>19. ProcessedIsShown'
  <2>1. ASSUME NEW d \in processed' PROVE ShownIn(g, d)
    <3>1. CASE d = e BY <1>12, <3>1 DEF Claims
    <3>2. CASE d \in processed
      <4>1. d \in Nat /\ log[d] \in EventRow BY <1>1, <1>6, <3>2 DEF TypeOK, Positions
      <4>2. Shown(d) BY <3>2 DEF IInv, ProcessedIsShown
      <4>3. ShownIn(f, d) BY <1>10, <4>2 DEF Shown, ShownIn, Entered
      <4>4. ActiveActors(log[d]) \subseteq Users BY <1>5, <4>1, ActiveAreUsers
      <4>5. QED BY <1>17, <4>1, <4>3, <4>4, ShownStays
    <3>3. QED BY <1>14, <2>1, <3>1, <3>2
  <2>2. ASSUME NEW d \in processed' PROVE Shown(d)'
    <3>1. ShownIn(g, d) BY <2>1, <2>2
    <3>2. QED BY <1>6, <1>13, <3>1 DEF Shown, ShownIn, Entered
  <2>3. QED BY <2>2 DEF ProcessedIsShown
<1>20. AllSourced'
  <2>1. Sourced(f) /\ \A v \in Projectors : Sourced(project[v].seen)
    BY <1>10 DEF IInv, AllSourced
  <2>2. Sourced(g) BY <1>3, <1>12, <2>1 DEF Claims
  <2>3. PICK s : s = [v \in Projectors |-> IF v = w THEN NoFacts ELSE project[v].seen] OBVIOUS
  <2>4. \A v \in Projectors : Sourced(s[v]) BY <2>1, <2>3, EmptyTables
  <2>5. \A v \in Projectors : project'[v].seen = s[v] BY <1>15, <2>3, EmptyTables
  <2>6. QED BY <1>6, <1>13, <2>2, <2>4, <2>5, AllSourcedAfter
<1>21. ~Busy(w)' BY <1>15, EmptyTables DEF Busy
<1>22. ASSUME ~crossed PROVE Fresh(f, seen, log[e])
  <2>1. Current(f, seen, log[e]) BY <1>2, <1>3, <1>8, <1>10, <1>22 DEF IInv, InTurn
  <2>2. ASSUME log[e].type = "PARTICIPANT_CREATED", log[e].participant \in DOMAIN f.participant
        PROVE  FALSE
    <3>1. PICK d \in processed :
            log[d].type = "PARTICIPANT_CREATED" /\ log[d].participant = log[e].participant
      BY <1>10, <2>2 DEF IInv, NotTwice
    <3>2. d \in Positions BY <1>1 DEF TypeOK
    <3>3. d = e BY <1>5, <2>2, <3>1, <3>2 DEF IInv, CreatedOnce
    <3>4. QED BY <1>8, <3>1, <3>3
  <2>3. QED BY <2>1, <2>2 DEF Fresh
<1>23. InTurn'
  <2>1. SUFFICES ASSUME ~crossed' PROVE
          /\ \A u, v \in Projectors : Busy(u)' /\ Busy(v)' /\ u # v =>
               ~Crosses(log'[project'[u].event], log'[project'[v].event])
          /\ \A v \in Projectors : Busy(v)' =>
               Current(fact', project'[v].seen, log'[project'[v].event])
    BY DEF InTurn, Current, Crosses, PresentUsers
  <2>2. ~crossed BY <2>1
  <2>3. ASSUME NEW v \in Projectors, Busy(v)'
        PROVE  v # w /\ Busy(v) /\ project'[v] = project[v]
    <3>1. v # w BY <1>21, <2>3
    <3>2. QED BY <1>15, <2>3, <3>1 DEF Busy
  <2>4. ASSUME NEW u \in Projectors, NEW v \in Projectors, Busy(u)', Busy(v)', u # v
        PROVE  ~Crosses(log'[project'[u].event], log'[project'[v].event])
    <3>1. ~Crosses(log[project[u].event], log[project[v].event])
      BY <2>2, <2>3, <2>4 DEF IInv, InTurn
    <3>2. QED BY <1>6, <2>3, <2>4, <3>1
  <2>5. ASSUME NEW v \in Projectors, Busy(v)'
        PROVE  Current(fact', project'[v].seen, log'[project'[v].event])
    <3>1. v # w /\ Busy(v) /\ project'[v] = project[v] BY <2>3, <2>5
    <3>2. PICK d : d = project[v].event OBVIOUS
    <3>3. PICK read : read = project[v].seen OBVIOUS
    <3>4. Current(f, read, log[d]) BY <1>10, <2>2, <3>1, <3>2, <3>3 DEF IInv, InTurn
    <3>5. ~Crosses(log[e], log[d]) BY <1>2, <1>8, <2>2, <3>1, <3>2 DEF IInv, InTurn
    <3>6. Spares(f, seen, log[e], g) BY <1>12 DEF Claims
    <3>7. Fresh(f, seen, log[e]) BY <1>22, <2>2
    <3>8. log[d].type = "ROOM_COMPLETED" => PresentUsers(g) \subseteq PresentUsers(read)
      BY <3>4, <3>5, <3>6, <3>7 DEF Current, Crosses, Spares
    <3>9. log[d].attendance = "PRESENT" => g.completed = f.completed
      BY <3>5, <3>6 DEF Crosses, Spares
    <3>10. Current(g, read, log[d]) BY <3>4, <3>8, <3>9 DEF Current
    <3>11. QED BY <1>6, <1>13, <3>1, <3>2, <3>3, <3>10
  <2>6. QED BY <2>4, <2>5
<1>24. ReplayAlone'
  <2>1. ASSUME alone PROVE w = "rebuild" /\ \A v \in Passes : ~Busy(v)'
    <3>1. \A v \in Passes : ~Busy(v) BY <2>1 DEF IInv, ReplayAlone
    <3>2. w = "rebuild" BY <1>8, <3>1, WhoProjects
    <3>3. QED BY <1>15, <3>1, <3>2, WhoProjects DEF Busy
  <2>2. alone' = alone OBVIOUS
  <2>3. QED BY <1>21, <2>1, <2>2 DEF ReplayAlone
<1>25. PresenceIsCounted'
  <2>1. ASSUME ~crossed PROVE Counts(g)
    <3>1. Fresh(f, seen, log[e]) BY <1>22, <2>1
    <3>2. Counts(f) BY <1>10, <2>1 DEF IInv, PresenceIsCounted, Counts
    <3>3. QED BY <1>12, <3>1, <3>2 DEF Claims
  <2>2. crossed' = crossed OBVIOUS
  <2>3. QED BY <1>13, <2>1, <2>2 DEF PresenceIsCounted, Counts, PresentUsers
<1>26. QED
  BY <1>2, <1>5, <1>13, <1>14, <1>15, <1>17, <1>18, <1>19, <1>20, <1>23, <1>24, <1>25, EmptyTables

\* Nothing but the tables and their projections.
LEMMA TablesStay ==
  ASSUME IInv, UNCHANGED <<product, processed, fact, project, alone, crossed>>
  PROVE  CreatedOnce' /\ NotTwice' /\ ProcessedIsShown' /\ AllSourced' /\ InTurn' /\ ReplayAlone'
         /\ PresenceIsCounted' /\ Positions' = Positions
<1>1. log' = log /\ stage' = stage BY DEF product
<1>2. Positions' = Positions BY <1>1 DEF Positions
<1>3. CreatedOnce' BY <1>1, <1>2 DEF IInv, CreatedOnce
<1>4. NotTwice' BY <1>1 DEF IInv, NotTwice, Busy
<1>5. ProcessedIsShown' BY <1>1 DEF IInv, ProcessedIsShown, Shown
<1>6. AllSourced' BY <1>1 DEF IInv, AllSourced, Sourced, IsSource, Positions
<1>7. InTurn' BY <1>1, SameReads DEF IInv, Busy
<1>8. ReplayAlone' BY <1>1 DEF IInv, ReplayAlone, Busy
<1>9. PresenceIsCounted' BY DEF IInv, PresenceIsCounted, PresentUsers
<1>10. QED BY <1>2, <1>3, <1>4, <1>5, <1>6, <1>7, <1>8, <1>9

-----------------------------------------------------------------------------
(* The passes' steps. *)

\* A pass takes an event: to project it, or only to acknowledge it.
LEMMA WorkerTakesStep ==
  ASSUME AnalyticsAssumption, IInv, NEW w \in Passes, NEW e \in Positions, WorkerTakes(w, e)
  PROVE  IInv'
<1>1. TypeOK BY DEF IInv
<1>2. /\ log' = log /\ stage' = stage /\ user' = user /\ attendance' = attendance
      /\ published' = published /\ processed' = processed /\ fact' = fact /\ rebuild' = rebuild
      /\ marks' = marks /\ rebuilds' = rebuilds
  BY DEF WorkerTakes, product, bounds
<1>3. Positions' = Positions BY <1>2 DEF Positions
<1>4. w \in Projectors /\ w # "rebuild" /\ "rebuild" \in Projectors BY WhoProjects
<1>5. CreatedOnce' BY <1>2, <1>3 DEF IInv, CreatedOnce
<1>6. ProcessedIsShown' BY <1>2 DEF IInv, ProcessedIsShown, Shown
<1>7. CASE Begin(w, e) /\ alone' = FALSE /\ returned' = returned
  <2>1. /\ project' \in [Projectors -> Projection]
        /\ \A v \in Projectors : project'[v].event \in Positions' \cup {0}
        /\ \A v \in Projectors : v # w => project'[v] = project[v]
        /\ crossed' \in BOOLEAN
        /\ NotTwice' /\ AllSourced' /\ InTurn' /\ PresenceIsCounted'
    BY <1>2, <1>4, <1>7, BeginKeeps
  <2>2. TypeOK' BY <1>1, <1>2, <1>3, <1>7, <2>1 DEF TypeOK
  <2>3. project'["rebuild"] = project["rebuild"] BY <1>4, <2>1
  <2>4. NothingSkipped' BY <1>2, <1>7, <2>3 DEF IInv, NothingSkipped, Handled, Queued, Busy
  <2>5. ReplayAlone' BY <1>7 DEF ReplayAlone
  <2>6. QED BY <1>5, <1>6, <2>1, <2>2, <2>4, <2>5 DEF IInv
<1>8. CASE /\ e \in processed /\ returned' = [returned EXCEPT ![w] = e]
           /\ UNCHANGED <<project, alone, crossed>>
  <2>1. \A v \in Passes : returned'[v] = IF v = w THEN e ELSE returned[v]
    BY <1>1, <1>8 DEF TypeOK
  <2>2. TypeOK'
    <3>1. e \in Nat BY <1>1 DEF TypeOK, Positions
    <3>2. returned' \in [Passes -> Nat] BY <1>1, <1>8, <3>1 DEF TypeOK
    <3>3. \A v \in Passes : returned'[v] \in Positions' \cup {0} BY <1>1, <1>3, <2>1 DEF TypeOK
    <3>4. QED BY <1>1, <1>2, <1>3, <1>8, <3>2, <3>3 DEF TypeOK
  <2>3. NothingSkipped'
    <3>1. \A d \in Handled' : d \in Handled \/ d \in processed BY <1>2, <1>8, <2>1 DEF Handled
    <3>2. QED BY <1>2, <1>8, <3>1 DEF IInv, NothingSkipped, Queued, Busy
  <2>4. CreatedOnce' /\ NotTwice' /\ ProcessedIsShown' /\ AllSourced' /\ InTurn' /\ ReplayAlone'
        /\ PresenceIsCounted'
    BY <1>2, <1>8, TablesStay DEF product
  <2>5. QED BY <2>2, <2>3, <2>4 DEF IInv
<1>9. QED BY <1>7, <1>8 DEF WorkerTakes

\* A pass's projection commits, and the event is the pass's to acknowledge.
LEMMA WorkerCommitsStep ==
  ASSUME AnalyticsAssumption, IInv, NEW w \in Passes, WorkerCommits(w)
  PROVE  IInv'
<1>1. TypeOK BY DEF IInv
<1>2. /\ log' = log /\ stage' = stage /\ user' = user /\ attendance' = attendance
      /\ published' = published /\ rebuild' = rebuild /\ alone' = alone /\ crossed' = crossed
      /\ marks' = marks /\ rebuilds' = rebuilds
  BY DEF WorkerCommits, product, bounds
<1>3. Positions' = Positions BY <1>2 DEF Positions
<1>4. w \in Projectors /\ w # "rebuild" /\ "rebuild" \in Projectors BY WhoProjects
<1>5. PICK e : e = project[w].event OBVIOUS
<1>6. /\ e \in Positions /\ processed' = processed \cup {e}
      /\ fact' \in Facts /\ project' \in [Projectors -> Projection]
      /\ \A v \in Projectors : project'[v].event \in Positions' \cup {0}
      /\ \A v \in Projectors : v # w => project'[v] = project[v]
      /\ NotTwice' /\ ProcessedIsShown' /\ AllSourced' /\ InTurn' /\ ReplayAlone'
      /\ PresenceIsCounted'
  BY <1>4, <1>5, CommitKeeps DEF WorkerCommits
<1>7. \A v \in Passes : returned'[v] = IF v = w THEN e ELSE returned[v]
  BY <1>1, <1>5 DEF TypeOK, WorkerCommits
<1>8. TypeOK'
  <2>1. processed' \subseteq Positions' BY <1>1, <1>3, <1>6 DEF TypeOK
  <2>2. e \in Nat BY <1>1, <1>6 DEF TypeOK, Positions
  <2>3. returned' \in [Passes -> Nat] BY <1>1, <1>5, <2>2 DEF TypeOK, WorkerCommits
  <2>4. \A v \in Passes : returned'[v] \in Positions' \cup {0}
    BY <1>1, <1>3, <1>6, <1>7 DEF TypeOK
  <2>5. QED BY <1>1, <1>2, <1>3, <1>6, <2>1, <2>3, <2>4 DEF TypeOK
<1>9. CreatedOnce' BY <1>2, <1>3 DEF IInv, CreatedOnce
<1>10. NothingSkipped'
  <2>1. project'["rebuild"] = project["rebuild"] BY <1>4, <1>6
  <2>2. \A d \in Handled' : d \in Handled \/ d \in processed' BY <1>2, <1>6, <1>7 DEF Handled
  <2>3. QED BY <1>2, <1>6, <2>1, <2>2 DEF IInv, NothingSkipped, Queued, Busy
<1>11. QED BY <1>6, <1>8, <1>9, <1>10 DEF IInv

\* A projection that is given up leaves the tables as they are.
LEMMA GivenUp ==
  ASSUME AnalyticsAssumption, IInv, NEW w \in Projectors,
         project' = [project EXCEPT ![w] = Idle],
         UNCHANGED <<log, processed, fact, alone, crossed>>
  PROVE  /\ project' \in [Projectors -> Projection]
         /\ \A v \in Projectors : project'[v].event \in Positions' \cup {0}
         /\ project'[w].event = 0 /\ \A v \in Projectors : v # w => project'[v] = project[v]
         /\ NotTwice' /\ AllSourced' /\ InTurn' /\ ReplayAlone'
<1>1. TypeOK BY DEF IInv
<1>2. PICK t : t = Idle OBVIOUS
<1>3. t \in Projection /\ t.event = 0 /\ t.seen = NoFacts BY <1>2, EmptyTables
<1>4. t.event \in Positions \cup {0} /\ project' = [project EXCEPT ![w] = t] BY <1>2, <1>3
<1>5. /\ project' \in [Projectors -> Projection]
      /\ \A v \in Projectors : project'[v].event \in Positions' \cup {0}
      /\ project'[w] = t /\ \A v \in Projectors : v # w => project'[v] = project[v]
  BY <1>1, <1>3, <1>4, ProjectorTurns
<1>6. ~Busy(w)' BY <1>3, <1>5 DEF Busy
<1>7. \A v \in Projectors : Busy(v)' => v # w /\ Busy(v) /\ project'[v] = project[v]
  BY <1>5, <1>6 DEF Busy
<1>8. NotTwice'
  <2>1. ASSUME NEW v \in Projectors, Busy(v)' PROVE project'[v].event \notin processed'
    BY <1>7, <2>1 DEF IInv, NotTwice
  <2>2. ASSUME NEW u \in Projectors, NEW v \in Projectors, Busy(u)', u # v
        PROVE  project'[u].event # project'[v].event
    <3>1. u # w /\ Busy(u) /\ project'[u] = project[u] BY <1>7, <2>2
    <3>2. CASE v = w BY <1>3, <1>5, <2>2, <3>2 DEF Busy
    <3>3. CASE v # w
      <4>1. project'[v] = project[v] BY <1>5, <3>3
      <4>2. project[u].event # project[v].event BY <2>2, <3>1 DEF IInv, NotTwice
      <4>3. QED BY <3>1, <4>1, <4>2
    <3>4. QED BY <3>2, <3>3
  <2>3. \A p \in DOMAIN fact'.participant :
          \E d \in processed' : log'[d].type = "PARTICIPANT_CREATED" /\ log'[d].participant = p
    BY DEF IInv, NotTwice
  <2>4. QED BY <2>1, <2>2, <2>3 DEF NotTwice
<1>9. AllSourced'
  <2>1. Sourced(fact) /\ \A v \in Projectors : Sourced(project[v].seen) BY DEF IInv, AllSourced
  <2>2. PICK s : s = [v \in Projectors |-> IF v = w THEN NoFacts ELSE project[v].seen] OBVIOUS
  <2>3. \A v \in Projectors : Sourced(s[v]) BY <2>1, <2>2, EmptyTables
  <2>4. \A v \in Projectors : project'[v].seen = s[v] BY <1>3, <1>5, <2>2
  <2>5. PICK f : f = fact OBVIOUS
  <2>6. Sourced(f) /\ f = fact' BY <2>1, <2>5
  <2>7. QED BY <2>3, <2>4, <2>6, AllSourcedAfter
<1>10. InTurn' BY <1>7, SameReads DEF IInv
<1>11. ReplayAlone' BY <1>7, WhoProjects DEF IInv, ReplayAlone
<1>12. QED BY <1>3, <1>5, <1>8, <1>9, <1>10, <1>11

\* A pass's projection, or its acknowledgement, fails.
LEMMA WorkerFailsStep ==
  ASSUME AnalyticsAssumption, IInv, NEW w \in Passes, WorkerFails(w)
  PROVE  IInv'
<1>1. TypeOK BY DEF IInv
<1>2. /\ log' = log /\ stage' = stage /\ user' = user /\ attendance' = attendance
      /\ published' = published /\ processed' = processed /\ fact' = fact /\ rebuild' = rebuild
      /\ alone' = alone /\ crossed' = crossed /\ marks' = marks /\ rebuilds' = rebuilds
      /\ returned' = [returned EXCEPT ![w] = 0]
  BY DEF WorkerFails, product, bounds
<1>3. Positions' = Positions BY <1>2 DEF Positions
<1>4. w \in Projectors /\ w # "rebuild" /\ "rebuild" \in Projectors BY WhoProjects
<1>5. /\ project' \in [Projectors -> Projection]
      /\ \A v \in Projectors : project'[v].event \in Positions' \cup {0}
      /\ \A v \in Projectors : v # w => project'[v] = project[v]
      /\ NotTwice' /\ AllSourced' /\ InTurn' /\ ReplayAlone'
  BY <1>2, <1>4, GivenUp DEF WorkerFails
<1>6. \A v \in Passes : returned'[v] = IF v = w THEN 0 ELSE returned[v] BY <1>1, <1>2 DEF TypeOK
<1>7. TypeOK'
  <2>1. returned' \in [Passes -> Nat] BY <1>1, <1>2 DEF TypeOK
  <2>2. \A v \in Passes : returned'[v] \in Positions' \cup {0} BY <1>1, <1>3, <1>6 DEF TypeOK
  <2>3. QED BY <1>1, <1>2, <1>3, <1>5, <2>1, <2>2 DEF TypeOK
<1>8. CreatedOnce' BY <1>2, <1>3 DEF IInv, CreatedOnce
<1>9. ProcessedIsShown' BY <1>2 DEF IInv, ProcessedIsShown, Shown
<1>10. NothingSkipped'
  <2>1. project'["rebuild"] = project["rebuild"] BY <1>4, <1>5
  <2>2. Handled' \subseteq Handled BY <1>2, <1>6 DEF Handled
  <2>3. QED BY <1>2, <2>1, <2>2 DEF IInv, NothingSkipped, Queued, Busy
<1>11. PresenceIsCounted' BY <1>2 DEF IInv, PresenceIsCounted, PresentUsers
<1>12. QED BY <1>5, <1>7, <1>8, <1>9, <1>10, <1>11 DEF IInv

\* The outbox marks the event a pass has handled.
LEMMA AcknowledgeStep ==
  ASSUME IInv, NEW w \in Passes, Acknowledge(w)
  PROVE  IInv'
<1>1. TypeOK BY DEF IInv
<1>2. CreatedOnce' /\ NotTwice' /\ ProcessedIsShown' /\ AllSourced' /\ InTurn' /\ ReplayAlone'
      /\ PresenceIsCounted' /\ Positions' = Positions
  BY TablesStay DEF Acknowledge
<1>3. /\ returned' = [returned EXCEPT ![w] = 0] /\ published' = published \cup {returned[w]}
      /\ returned[w] # 0 /\ returned[w] \in Positions
  BY <1>1 DEF Acknowledge, TypeOK
<1>4. \A v \in Passes : returned'[v] = IF v = w THEN 0 ELSE returned[v] BY <1>1, <1>3 DEF TypeOK
<1>5. TypeOK'
  <2>1. returned' \in [Passes -> Nat] BY <1>1, <1>3 DEF TypeOK
  <2>2. \A v \in Passes : returned'[v] \in Positions' \cup {0} BY <1>1, <1>2, <1>4 DEF TypeOK
  <2>3. published' \subseteq Positions' BY <1>1, <1>2, <1>3 DEF TypeOK
  <2>4. QED BY <1>1, <1>2, <2>1, <2>2, <2>3 DEF TypeOK, Acknowledge, product, bounds
<1>6. NothingSkipped'
  <2>1. Handled' \subseteq Handled BY <1>3, <1>4 DEF Handled
  <2>2. QED BY <2>1 DEF IInv, NothingSkipped, Queued, Busy, Acknowledge
<1>7. QED BY <1>2, <1>5, <1>6 DEF IInv

-----------------------------------------------------------------------------
(* The rebuild's steps. *)

\* The tables are emptied while no projection is open.
LEMMA TruncateStep ==
  ASSUME AnalyticsAssumption, IInv, Truncate
  PROVE  IInv'
<1>1. TypeOK BY DEF IInv
<1>2. /\ log' = log /\ stage' = stage /\ user' = user /\ attendance' = attendance
      /\ published' = published /\ returned' = returned /\ project' = project /\ marks' = marks
      /\ processed' = {} /\ fact' = NoFacts /\ alone' = TRUE /\ crossed' = FALSE
      /\ rebuild' = [stage |-> "EMPTIED", queue |-> <<>>] /\ rebuilds' = rebuilds + 1
  BY DEF Truncate, product
<1>3. Positions' = Positions BY <1>2 DEF Positions
<1>4. \A w \in Projectors : ~Busy(w)
  <2>1. (\A w \in Passes : ~Busy(w)) /\ ~Rebuilding BY DEF Truncate
  <2>2. ~Busy("rebuild") BY <2>1 DEF IInv, NothingSkipped, Rebuilding
  <2>3. QED BY <2>1, <2>2, WhoProjects
<1>5. \A w \in Projectors : ~Busy(w)' BY <1>2, <1>4 DEF Busy
<1>6. rebuild'.stage = "EMPTIED" /\ rebuild'.queue = <<>> BY <1>2
<1>7. TypeOK'
  <2>1. rebuild' \in [stage : {"NONE", "EMPTIED", "REPLAYING", "DONE", "ERROR"},
                      queue : Seq(Nat)]
    BY <1>2
  <2>2. \A i \in DOMAIN rebuild'.queue : rebuild'.queue[i] \in Positions' BY <1>6
  <2>3. fact' \in Facts BY <1>2, EmptyTables
  <2>4. processed' \subseteq Positions' BY <1>2
  <2>5. rebuilds' \in Nat BY <1>1, <1>2 DEF TypeOK
  <2>6. QED BY <1>1, <1>2, <1>3, <2>1, <2>2, <2>3, <2>4, <2>5 DEF TypeOK
<1>8. CreatedOnce' BY <1>2, <1>3 DEF IInv, CreatedOnce
<1>9. NotTwice'
  <2>1. DOMAIN fact'.participant = {} BY <1>2, EmptyTables
  <2>2. QED BY <1>5, <2>1 DEF NotTwice
<1>10. ProcessedIsShown' BY <1>2 DEF ProcessedIsShown
<1>11. NothingSkipped' BY <1>5, <1>6, WhoProjects DEF NothingSkipped
<1>12. AllSourced'
  <2>1. \A v \in Projectors : Sourced(project[v].seen) BY DEF IInv, AllSourced
  <2>2. PICK s : s = [v \in Projectors |-> project[v].seen] OBVIOUS
  <2>3. \A v \in Projectors : Sourced(s[v]) BY <2>1, <2>2
  <2>4. \A v \in Projectors : project'[v].seen = s[v] BY <1>2, <2>2
  <2>5. PICK f : f = NoFacts OBVIOUS
  <2>6. Sourced(f) /\ f = fact' BY <1>2, <2>5, EmptyTables
  <2>7. QED BY <1>2, <2>3, <2>4, <2>6, AllSourcedAfter
<1>13. InTurn' BY <1>5 DEF InTurn
<1>14. ReplayAlone' BY <1>5, WhoProjects DEF ReplayAlone
<1>15. PresenceIsCounted' BY <1>2, EmptyTables DEF PresenceIsCounted
<1>16. QED BY <1>7, <1>8, <1>9, <1>10, <1>11, <1>12, <1>13, <1>14, <1>15 DEF IInv

\* The whole outbox is queued.
LEMMA SelectEventsStep ==
  ASSUME IInv, SelectEvents
  PROVE  IInv'
<1>1. TypeOK BY DEF IInv
<1>2. CreatedOnce' /\ NotTwice' /\ ProcessedIsShown' /\ AllSourced' /\ InTurn' /\ ReplayAlone'
      /\ PresenceIsCounted' /\ Positions' = Positions
  BY TablesStay DEF SelectEvents
<1>3. PICK q : q = OutboxEvents OBVIOUS
<1>4. q = [e \in Positions |-> e] BY <1>3 DEF OutboxEvents
<1>5. q \in Seq(Nat) /\ DOMAIN q = Positions /\ \A e \in Positions : q[e] = e
  <2>1. PICK n \in Nat : Positions = 1 .. n BY <1>1 DEF TypeOK, Positions
  <2>2. q \in [1 .. n -> Nat] BY <1>4, <2>1
  <2>3. QED BY <1>4, <2>1, <2>2
<1>6. rebuild' = [stage |-> "REPLAYING", queue |-> q] BY <1>3 DEF SelectEvents
<1>7. rebuild'.stage = "REPLAYING" /\ rebuild'.queue = q BY <1>6
<1>8. TypeOK'
  <2>1. rebuild' \in [stage : {"NONE", "EMPTIED", "REPLAYING", "DONE", "ERROR"},
                      queue : Seq(Nat)]
    BY <1>5, <1>6
  <2>2. \A i \in DOMAIN rebuild'.queue : rebuild'.queue[i] \in Positions' BY <1>2, <1>5, <1>7
  <2>3. /\ published' \subseteq Positions' /\ processed' \subseteq Positions'
        /\ returned' \in [Passes -> Nat] /\ \A w \in Passes : returned'[w] \in Positions' \cup {0}
        /\ \A w \in Projectors : project'[w].event \in Positions' \cup {0}
    BY <1>1, <1>2 DEF TypeOK, SelectEvents
  <2>4. QED BY <1>1, <2>1, <2>2, <2>3 DEF TypeOK, SelectEvents, product, bounds
<1>9. NothingSkipped'
  <2>1. Handled' \subseteq Positions BY <1>1 DEF TypeOK, SelectEvents, Handled
  <2>2. \A e \in Positions : \E i \in DOMAIN rebuild'.queue : rebuild'.queue[i] = e BY <1>5, <1>7
  <2>3. QED BY <1>7, <2>1, <2>2 DEF NothingSkipped, Queued
<1>10. QED BY <1>2, <1>8, <1>9 DEF IInv

\* A replay takes the first event off its queue.
LEMMA TakenOff ==
  ASSUME TypeOK, rebuild.queue # <<>>, rebuild' = [rebuild EXCEPT !.queue = Tail(rebuild.queue)],
         UNCHANGED log
  PROVE  /\ Head(rebuild.queue) \in Positions
         /\ rebuild' \in [stage : {"NONE", "EMPTIED", "REPLAYING", "DONE", "ERROR"},
                          queue : Seq(Nat)]
         /\ \A i \in DOMAIN rebuild'.queue : rebuild'.queue[i] \in Positions'
         /\ rebuild'.stage = rebuild.stage
         /\ \A e : Queued(e) =>
              e = Head(rebuild.queue) \/ \E i \in DOMAIN rebuild'.queue : rebuild'.queue[i] = e
<1>1. PICK r : r = rebuild OBVIOUS
<1>2. PICK q : q = r.queue OBVIOUS
<1>3. r \in [stage : {"NONE", "EMPTIED", "REPLAYING", "DONE", "ERROR"}, queue : Seq(Nat)]
  BY <1>1 DEF TypeOK
<1>4. q \in Seq(Nat) /\ q # <<>> /\ \A i \in DOMAIN q : q[i] \in Positions
  BY <1>1, <1>2, <1>3 DEF TypeOK
<1>5. PICK n \in Nat : n = Len(q) /\ n > 0 BY <1>4
<1>6. /\ Tail(q) \in Seq(Nat) /\ DOMAIN Tail(q) = 1 .. (n - 1) /\ DOMAIN q = 1 .. n
      /\ Head(q) = q[1] /\ \A i \in 1 .. (n - 1) : Tail(q)[i] = q[i + 1]
  BY <1>4, <1>5
<1>7. rebuild' = [r EXCEPT !.queue = Tail(q)] BY <1>1, <1>2
<1>8. rebuild' \in [stage : {"NONE", "EMPTIED", "REPLAYING", "DONE", "ERROR"}, queue : Seq(Nat)]
      /\ rebuild'.stage = r.stage /\ rebuild'.queue = Tail(q)
  BY <1>3, <1>6, <1>7
<1>9. Head(q) \in Positions BY <1>4, <1>5, <1>6
<1>10. \A i \in 1 .. (n - 1) : Tail(q)[i] \in Positions' BY <1>4, <1>5, <1>6 DEF Positions
<1>11. ASSUME NEW e, NEW i \in DOMAIN q, q[i] = e
       PROVE  e = Head(q) \/ \E j \in DOMAIN Tail(q) : Tail(q)[j] = e
  <2>1. CASE i = 1 BY <1>6, <1>11, <2>1
  <2>2. CASE i # 1
    <3>1. i - 1 \in 1 .. (n - 1) /\ i - 1 + 1 = i BY <1>5, <1>6, <2>2
    <3>2. Tail(q)[i - 1] = e BY <1>6, <1>11, <3>1
    <3>3. QED BY <1>6, <3>1, <3>2
  <2>3. QED BY <2>1, <2>2
<1>12. QED BY <1>1, <1>2, <1>6, <1>8, <1>9, <1>10, <1>11 DEF Queued

\* The next event of the queue is projected, or has been.
LEMMA ReplayStep ==
  ASSUME AnalyticsAssumption, IInv, Replay
  PROVE  IInv'
<1>1. TypeOK BY DEF IInv
<1>2. /\ log' = log /\ stage' = stage /\ user' = user /\ attendance' = attendance
      /\ published' = published /\ returned' = returned /\ processed' = processed
      /\ fact' = fact /\ alone' = alone /\ marks' = marks /\ rebuilds' = rebuilds
  BY DEF Replay, product, bounds
<1>3. Positions' = Positions BY <1>2 DEF Positions
<1>4. /\ rebuild.stage = "REPLAYING" /\ rebuild.queue # <<>> /\ ~Busy("rebuild")
      /\ rebuild' = [rebuild EXCEPT !.queue = Tail(rebuild.queue)]
  BY DEF Replay
<1>5. PICK e : e = Head(rebuild.queue) OBVIOUS
<1>6. /\ e \in Positions
      /\ rebuild' \in [stage : {"NONE", "EMPTIED", "REPLAYING", "DONE", "ERROR"},
                       queue : Seq(Nat)]
      /\ \A i \in DOMAIN rebuild'.queue : rebuild'.queue[i] \in Positions'
      /\ rebuild'.stage = "REPLAYING"
      /\ \A d : Queued(d) =>
           d = e \/ \E i \in DOMAIN rebuild'.queue : rebuild'.queue[i] = d
  BY <1>1, <1>2, <1>4, <1>5, TakenOff
<1>7. CreatedOnce' BY <1>2, <1>3 DEF IInv, CreatedOnce
<1>8. ProcessedIsShown' BY <1>2 DEF IInv, ProcessedIsShown, Shown
<1>9. /\ project["rebuild"].event = 0 /\ Handled \subseteq Nat \ {0} /\ Handled' = Handled
  BY <1>1, <1>2, <1>4 DEF Busy, TypeOK, Positions, Handled
<1>10. CASE e \in processed /\ UNCHANGED <<project, crossed>>
  <2>1. TypeOK' BY <1>1, <1>2, <1>3, <1>6, <1>10 DEF TypeOK
  <2>2. NothingSkipped'
    <3>1. Busy("rebuild")' => rebuild'.stage = "REPLAYING" BY <1>6
    <3>2. ASSUME NEW d \in Handled
          PROVE  d \in processed \/ \E i \in DOMAIN rebuild'.queue : rebuild'.queue[i] = d
      BY <1>4, <1>6, <1>9, <1>10, <3>2 DEF IInv, NothingSkipped
    <3>3. QED BY <1>2, <1>6, <1>9, <3>1, <3>2 DEF NothingSkipped, Queued
  <2>3. NotTwice' /\ AllSourced' /\ InTurn' /\ ReplayAlone' /\ PresenceIsCounted'
    BY <1>2, <1>10, TablesStay DEF product
  <2>4. QED BY <1>7, <1>8, <2>1, <2>2, <2>3 DEF IInv
<1>11. CASE Begin("rebuild", e)
  <2>1. "rebuild" \in Projectors BY WhoProjects
  <2>2. /\ project' \in [Projectors -> Projection]
        /\ \A v \in Projectors : project'[v].event \in Positions' \cup {0}
        /\ \A v \in Projectors : v # "rebuild" => project'[v] = project[v]
        /\ project'["rebuild"].event = e
        /\ project'["rebuild"].seen = Read(fact, log[e])
        /\ crossed' \in BOOLEAN
        /\ NotTwice' /\ AllSourced' /\ InTurn' /\ PresenceIsCounted'
    BY <1>2, <1>6, <1>11, <2>1, BeginKeeps
  <2>3. TypeOK' BY <1>1, <1>2, <1>3, <1>6, <2>2 DEF TypeOK
  <2>4. NothingSkipped'
    <3>1. ASSUME NEW d \in Handled
          PROVE  \/ d \in processed
                 \/ \E i \in DOMAIN rebuild'.queue : rebuild'.queue[i] = d
                 \/ d = project'["rebuild"].event
      BY <1>4, <1>6, <1>9, <2>2, <3>1 DEF IInv, NothingSkipped
    <3>2. QED BY <1>2, <1>6, <1>9, <3>1 DEF NothingSkipped, Queued
  <2>5. ReplayAlone' BY <1>2, <2>2, WhoProjects DEF IInv, ReplayAlone, Busy
  <2>6. QED BY <1>7, <1>8, <2>2, <2>3, <2>4, <2>5 DEF IInv
<1>12. QED BY <1>5, <1>10, <1>11 DEF Replay

\* The replay's projection commits.
LEMMA ReplayCommitsStep ==
  ASSUME AnalyticsAssumption, IInv, ReplayCommits
  PROVE  IInv'
<1>1. TypeOK BY DEF IInv
<1>2. /\ log' = log /\ stage' = stage /\ user' = user /\ attendance' = attendance
      /\ published' = published /\ returned' = returned /\ rebuild' = rebuild
      /\ alone' = alone /\ crossed' = crossed /\ marks' = marks /\ rebuilds' = rebuilds
  BY DEF ReplayCommits, product, bounds
<1>3. Positions' = Positions BY <1>2 DEF Positions
<1>4. "rebuild" \in Projectors BY WhoProjects
<1>5. PICK e : e = project["rebuild"].event OBVIOUS
<1>6. /\ e \in Positions /\ processed' = processed \cup {e}
      /\ fact' \in Facts /\ project' \in [Projectors -> Projection]
      /\ \A v \in Projectors : project'[v].event \in Positions' \cup {0}
      /\ project'["rebuild"].event = 0
      /\ NotTwice' /\ ProcessedIsShown' /\ AllSourced' /\ InTurn' /\ ReplayAlone'
      /\ PresenceIsCounted'
  BY <1>4, <1>5, CommitKeeps DEF ReplayCommits
<1>7. TypeOK'
  <2>1. processed' \subseteq Positions' BY <1>1, <1>3, <1>6 DEF TypeOK
  <2>2. QED BY <1>1, <1>2, <1>3, <1>6, <2>1 DEF TypeOK
<1>8. CreatedOnce' BY <1>2, <1>3 DEF IInv, CreatedOnce
<1>9. NothingSkipped' BY <1>2, <1>5, <1>6 DEF IInv, NothingSkipped, Handled, Queued, Busy
<1>10. QED BY <1>6, <1>7, <1>8, <1>9 DEF IInv

\* Nothing is left of the queue.
LEMMA EndRebuildStep ==
  ASSUME IInv, EndRebuild
  PROVE  IInv'
<1>1. TypeOK BY DEF IInv
<1>2. CreatedOnce' /\ NotTwice' /\ ProcessedIsShown' /\ AllSourced' /\ InTurn' /\ ReplayAlone'
      /\ PresenceIsCounted' /\ Positions' = Positions
  BY TablesStay DEF EndRebuild
<1>3. PICK r : r = rebuild OBVIOUS
<1>4. r \in [stage : {"NONE", "EMPTIED", "REPLAYING", "DONE", "ERROR"}, queue : Seq(Nat)]
  BY <1>1, <1>3 DEF TypeOK
<1>5. rebuild' = [r EXCEPT !.stage = "DONE"] BY <1>3 DEF EndRebuild
<1>6. /\ rebuild' \in [stage : {"NONE", "EMPTIED", "REPLAYING", "DONE", "ERROR"}, queue : Seq(Nat)]
      /\ rebuild'.stage = "DONE" /\ rebuild'.queue = <<>>
  BY <1>3, <1>4, <1>5 DEF EndRebuild
<1>7. TypeOK' BY <1>1, <1>2, <1>6 DEF TypeOK, EndRebuild, product, bounds
<1>8. NothingSkipped'
  <2>1. rebuild.stage = "REPLAYING" /\ project["rebuild"].event = 0 /\ DOMAIN rebuild.queue = {}
    BY DEF EndRebuild, Busy
  <2>2. Handled \subseteq Nat \ {0} /\ Handled' = Handled
    BY <1>1 DEF TypeOK, Positions, Handled, EndRebuild
  <2>3. \A e \in Handled : e \in processed
    BY <2>1, <2>2 DEF IInv, NothingSkipped, Queued
  <2>4. ~Busy("rebuild")' BY <2>1 DEF Busy, EndRebuild
  <2>5. QED BY <1>6, <2>2, <2>3, <2>4 DEF NothingSkipped, EndRebuild
<1>9. QED BY <1>2, <1>7, <1>8 DEF IInv

\* The replay ends with an error.
LEMMA RebuildFailsStep ==
  ASSUME AnalyticsAssumption, IInv, RebuildFails
  PROVE  IInv'
<1>1. TypeOK BY DEF IInv
<1>2. /\ log' = log /\ stage' = stage /\ user' = user /\ attendance' = attendance
      /\ published' = published /\ returned' = returned /\ processed' = processed /\ fact' = fact
      /\ alone' = alone /\ crossed' = crossed /\ marks' = marks /\ rebuilds' = rebuilds
      /\ rebuild' = [stage |-> "ERROR", queue |-> <<>>]
  BY DEF RebuildFails, product, bounds
<1>3. Positions' = Positions BY <1>2 DEF Positions
<1>4. "rebuild" \in Projectors BY WhoProjects
<1>5. /\ project' \in [Projectors -> Projection]
      /\ \A v \in Projectors : project'[v].event \in Positions' \cup {0}
      /\ project'["rebuild"].event = 0
      /\ NotTwice' /\ AllSourced' /\ InTurn' /\ ReplayAlone'
  BY <1>2, <1>4, GivenUp DEF RebuildFails
<1>6. /\ rebuild' \in [stage : {"NONE", "EMPTIED", "REPLAYING", "DONE", "ERROR"}, queue : Seq(Nat)]
      /\ rebuild'.stage = "ERROR" /\ rebuild'.queue = <<>>
  BY <1>2
<1>7. TypeOK' BY <1>1, <1>2, <1>3, <1>5, <1>6 DEF TypeOK
<1>8. CreatedOnce' BY <1>2, <1>3 DEF IInv, CreatedOnce
<1>9. ProcessedIsShown' BY <1>2 DEF IInv, ProcessedIsShown, Shown
<1>10. NothingSkipped' BY <1>5, <1>6 DEF NothingSkipped, Busy
<1>11. PresenceIsCounted' BY <1>2 DEF IInv, PresenceIsCounted, PresentUsers
<1>12. QED BY <1>5, <1>7, <1>8, <1>9, <1>10, <1>11 DEF IInv

-----------------------------------------------------------------------------
(* The theorems. *)

\* The empty outbox and the empty tables.
LEMMA InitialState == ASSUME AnalyticsAssumption, Init PROVE IInv
<1>1. log = <<>> /\ Positions = {} /\ rebuild.queue = <<>> /\ rebuild.stage = "NONE"
  BY DEF Init, Positions
<1>2. user \in [Participants -> Accounts] BY DEF Init, AnalyticsAssumption, Accounts
<1>3. \A w \in Projectors : project[w] = Idle BY DEF Init
<1>4. \A w \in Projectors : ~Busy(w) BY <1>3, EmptyTables DEF Busy
<1>5. TypeOK
  <2>1. project \in [Projectors -> Projection] /\ fact \in Facts BY EmptyTables DEF Init
  <2>2. attendance \in [Participants -> Attendance] BY DEF Init, Attendance
  <2>3. rebuild \in [stage : {"NONE", "EMPTIED", "REPLAYING", "DONE", "ERROR"}, queue : Seq(Nat)]
    BY DEF Init
  <2>4. \A w \in Projectors : project[w].event \in Positions \cup {0} BY <1>3, EmptyTables
  <2>5. log \in Seq(EventRow) BY <1>1
  <2>6. \A i \in DOMAIN rebuild.queue : rebuild.queue[i] \in Positions BY <1>1
  <2>7. /\ stage \in Stages /\ published \subseteq Positions /\ processed \subseteq Positions
        /\ returned \in [Passes -> Nat] /\ \A w \in Passes : returned[w] = 0
        /\ alone \in BOOLEAN /\ crossed \in BOOLEAN
        /\ marks \in Nat /\ rebuilds \in Nat
    BY DEF Init, Stages
  <2>8. QED BY <1>2, <2>1, <2>2, <2>3, <2>4, <2>5, <2>6, <2>7 DEF TypeOK
<1>6. CreatedOnce BY <1>1 DEF CreatedOnce
<1>7. NotTwice
  <2>1. DOMAIN fact.participant = {} BY EmptyTables DEF Init
  <2>2. QED BY <1>4, <2>1 DEF NotTwice
<1>8. ProcessedIsShown BY DEF Init, ProcessedIsShown
<1>9. NothingSkipped
  <2>1. Handled = {} BY DEF Init, Handled
  <2>2. QED BY <1>4, <2>1, WhoProjects DEF NothingSkipped
<1>10. AllSourced
  <2>1. Sourced(fact) BY EmptyTables DEF Init
  <2>2. \A w \in Projectors : Sourced(project[w].seen) BY <1>3, EmptyTables
  <2>3. QED BY <2>1, <2>2 DEF AllSourced
<1>11. InTurn BY <1>4 DEF InTurn
<1>12. ReplayAlone BY DEF Init, ReplayAlone
<1>13. PresenceIsCounted BY EmptyTables DEF Init, PresenceIsCounted
<1>14. QED BY <1>5, <1>6, <1>7, <1>8, <1>9, <1>10, <1>11, <1>12, <1>13 DEF IInv

\* Nothing happens.
LEMMA Stutter == ASSUME IInv, UNCHANGED vars PROVE IInv'
<1>1. /\ UNCHANGED product /\ UNCHANGED bounds
      /\ UNCHANGED <<published, returned, processed, fact, project, rebuild, alone, crossed>>
  BY DEF vars
<1>2. CreatedOnce' /\ NotTwice' /\ ProcessedIsShown' /\ AllSourced' /\ InTurn' /\ ReplayAlone'
      /\ PresenceIsCounted' /\ Positions' = Positions
  BY <1>1, TablesStay
<1>3. TypeOK' BY <1>1, <1>2 DEF IInv, TypeOK, product, bounds
<1>4. NothingSkipped' BY <1>1 DEF IInv, NothingSkipped, Handled, Queued, Busy
<1>5. QED BY <1>2, <1>3, <1>4 DEF IInv

\* Each action, by its own lemma.
LEMMA EveryStep ==
  ASSUME AnalyticsAssumption, IInv, [Next]_vars PROVE IInv'
<1>1. CASE CreateRoom BY <1>1, CreateRoomStep
<1>2. CASE ApplyToRoom BY <1>2, ApplyToRoomStep
<1>3. CASE AcceptApplication BY <1>3, AcceptApplicationStep
<1>4. CASE CompleteRoom BY <1>4, CompleteRoomStep
<1>5. CASE \E p \in Participants, u \in Claimers : ClaimGuest(p, u) BY <1>5, ClaimGuestStep
<1>6. CASE \E p \in Participants, status \in {"PRESENT", "NO_SHOW"} : MarkAttendance(p, status)
  BY <1>6, MarkAttendanceStep
<1>7. CASE \E w \in Passes : \E e \in Positions : WorkerTakes(w, e) BY <1>7, WorkerTakesStep
<1>8. CASE \E w \in Passes : WorkerCommits(w) BY <1>8, WorkerCommitsStep
<1>9. CASE \E w \in Passes : WorkerFails(w) BY <1>9, WorkerFailsStep
<1>10. CASE \E w \in Passes : Acknowledge(w) BY <1>10, AcknowledgeStep
<1>11. CASE Truncate BY <1>11, TruncateStep
<1>12. CASE SelectEvents BY <1>12, SelectEventsStep
<1>13. CASE Replay BY <1>13, ReplayStep
<1>14. CASE ReplayCommits BY <1>14, ReplayCommitsStep
<1>15. CASE EndRebuild BY <1>15, EndRebuildStep
<1>16. CASE RebuildFails BY <1>16, RebuildFailsStep
<1>17. CASE UNCHANGED vars BY <1>17, Stutter
<1>18. QED
  BY <1>1, <1>2, <1>3, <1>4, <1>5, <1>6, <1>7, <1>8, <1>9, <1>10, <1>11, <1>12, <1>13, <1>14,
     <1>15, <1>16, <1>17
  DEF Next, Product, Worker, Rebuild

\* The inductive invariant holds in every reachable state.
LEMMA Invariance == Spec => []IInv
<1>1. Init => IInv BY InitialState, AnalyticsAssumption
<1>2. IInv /\ [Next]_vars => IInv' BY EveryStep, AnalyticsAssumption
<1>3. QED BY <1>1, <1>2, PTL DEF Spec

\* The types of the tables, of the outbox and of every projection.
THEOREM TypeCorrect == Spec => []TypeOK
<1>1. IInv => TypeOK BY DEF IInv
<1>2. QED BY <1>1, Invariance, PTL

\* What the outbox has published is in the tables, for any number of places,
\* marks and rebuilds, whatever the order the outbox hands the events over in.
THEOREM PublishedIsProjected == Spec => []HandledEventsAreProjected
<1>1. ASSUME IInv PROVE HandledEventsAreProjected
  <2>1. SUFFICES ASSUME ~Rebuilding, rebuild.stage # "ERROR", NEW e \in published
                 PROVE  e \in processed /\ Shown(e)
    BY DEF HandledEventsAreProjected
  <2>2. rebuild.stage \in {"NONE", "EMPTIED", "REPLAYING", "DONE", "ERROR"}
    BY <1>1 DEF IInv, TypeOK
  <2>3. rebuild.stage \in {"NONE", "DONE"} BY <2>1, <2>2 DEF Rebuilding
  <2>4. e \in processed BY <1>1, <2>3 DEF IInv, NothingSkipped, Handled
  <2>5. QED BY <1>1, <2>4 DEF IInv, ProcessedIsShown
<1>2. QED BY <1>1, Invariance, PTL

\* Players present in the completed room are counted, for any number of passes,
\* as long as no completion and mark of presence have been projected at once
\* since the tables were last emptied.
THEOREM PresentPlayersAreCounted == Spec => []PresenceIsCounted
<1>1. IInv => PresenceIsCounted BY DEF IInv
<1>2. QED BY <1>1, Invariance, PTL

\* Facts always name the events they come from, even where projections overlap
\* and in the middle of a rebuild.
THEOREM FactsHaveSources == Spec => []ValidationFindsNothing
<1>1. ASSUME IInv PROVE ValidationFindsNothing
  <2>1. Sourced(fact) BY <1>1 DEF IInv, AllSourced
  <2>2. CompletedWithoutSource = {} BY <2>1 DEF CompletedWithoutSource, Sourced, IsSource
  <2>3. ~AcceptedWithoutSource BY <2>1 DEF AcceptedWithoutSource, Sourced, IsSource
  <2>4. QED BY <2>2, <2>3 DEF ValidationFindsNothing
<1>2. QED BY <1>1, Invariance, PTL

-----------------------------------------------------------------------------
(* What the outbox tells of the places, and in what order. *)

PlaceEvents == {"PARTICIPANT_CREATED", "PLAYER_MARKED_PRESENT", "PLAYER_NO_SHOW",
                "ATTENDANCE_CORRECTED"}

CreatesPlace(l, d, p) == l[d].type = "PARTICIPANT_CREATED" /\ l[d].participant = p

\* The latest of the first k events about the place has that status.
Leaves(l, k, p, status) ==
  \E e \in 1 .. k : /\ l[e].participant = p /\ l[e].attendance = status
                    /\ \A d \in 1 .. k : l[d].participant = p => d <= e

\* One of the first k events says that the place is this user's.
Names(l, k, p, u) == \E e \in 1 .. k : l[e].participant = p /\ l[e].user = u

Seated(s) == s \in {"SEATED", "COMPLETED"}

\* The place an event is about has been created by then, and the event names
\* its user or, as long as nobody has claimed it, nobody.
EventTold(l, users, e) ==
  /\ l[e].participant \in Participants <=> l[e].type \in PlaceEvents
  /\ l[e].type \in PlaceEvents =>
       /\ l[e].user \in {Nil, users[l[e].participant]}
       /\ \E d \in 1 .. e : CreatesPlace(l, d, l[e].participant)
  /\ l[e].type = "PARTICIPANT_CREATED" => l[e].attendance = "NOT_SET"

EventsTold(l, users) == \A e \in DOMAIN l : EventTold(l, users, e)

\* Places are told of once the application is accepted, then of every place.
PlacesTold(s, l) ==
  /\ \A e \in DOMAIN l : l[e].type \in PlaceEvents => Seated(s)
  /\ Seated(s) => \A p \in Participants : \E e \in DOMAIN l : CreatesPlace(l, e, p)

\* The latest event about a place has the status the product has.
AttendanceTold(s, a, l) ==
  \A p \in Participants :
    /\ ~Seated(s) => a[p] = "NOT_SET"
    /\ \A status \in Attendance : Leaves(l, Len(l), p, status) => a[p] = status

\* Nothing happens to a completed room.
CompletionTold(s, l) ==
  /\ \A e \in DOMAIN l : l[e].type = "ROOM_COMPLETED" => s = "COMPLETED" /\ e = Len(l)
  /\ s = "COMPLETED" => \E e \in DOMAIN l : l[e].type = "ROOM_COMPLETED"

OutboxTells(s, users, a, l) ==
  EventsTold(l, users) /\ PlacesTold(s, l) /\ AttendanceTold(s, a, l) /\ CompletionTold(s, l)

\* Events told stay told when more are appended.
LEMMA EventsStay ==
  ASSUME NEW l \in Seq(EventRow), NEW k, Extends(l, k), NEW users, NEW claimed,
         EventsTold(l, users),
         \A p \in Participants : users[p] \in {Nil, claimed[p]}
  PROVE  \A e \in DOMAIN l : EventTold(k, claimed, e)
<1>1. SUFFICES ASSUME NEW e \in DOMAIN l PROVE EventTold(k, claimed, e) OBVIOUS
<1>2. k[e] = l[e] /\ EventTold(l, users, e) BY DEF Extends, EventsTold
<1>3. ASSUME l[e].type \in PlaceEvents
      PROVE  /\ l[e].user \in {Nil, claimed[l[e].participant]}
             /\ \E d \in 1 .. e : CreatesPlace(k, d, l[e].participant)
  <2>1. /\ l[e].participant \in Participants /\ l[e].user \in {Nil, users[l[e].participant]}
    BY <1>2, <1>3 DEF EventTold
  <2>2. PICK d \in 1 .. e : CreatesPlace(l, d, l[e].participant) BY <1>2, <1>3 DEF EventTold
  <2>3. d \in DOMAIN l OBVIOUS
  <2>4. CreatesPlace(k, d, l[e].participant) BY <2>2, <2>3 DEF Extends, CreatesPlace
  <2>5. QED BY <2>1, <2>2, <2>4
<1>4. QED BY <1>2, <1>3 DEF EventTold

\* So do the places.
LEMMA PlacesStay ==
  ASSUME NEW l \in Seq(EventRow), NEW k, Extends(l, k), NEW s, NEW t, PlacesTold(s, l),
         Seated(t) <=> Seated(s),
         \A e \in DOMAIN k \ DOMAIN l : k[e].type \in PlaceEvents => Seated(s)
  PROVE  PlacesTold(t, k)
<1>1. \A e \in DOMAIN k : k[e].type \in PlaceEvents => Seated(t)
  BY DEF Extends, PlacesTold
<1>2. ASSUME Seated(t), NEW p \in Participants PROVE \E e \in DOMAIN k : CreatesPlace(k, e, p)
  <2>1. PICK e \in DOMAIN l : CreatesPlace(l, e, p) BY <1>2 DEF PlacesTold
  <2>2. e \in DOMAIN k /\ CreatesPlace(k, e, p) BY <2>1 DEF Extends, CreatesPlace
  <2>3. QED BY <2>2
<1>3. QED BY <1>1, <1>2 DEF PlacesTold

\* Appending events leaves a place as it was if none is about it.
LEMMA NobodysStatus ==
  ASSUME NEW l \in Seq(EventRow), NEW k, Extends(l, k), NEW p, NEW status,
         \A e \in DOMAIN k \ DOMAIN l : k[e].participant # p,
         Leaves(k, Len(k), p, status)
  PROVE  Leaves(l, Len(l), p, status)
<1>1. /\ Len(l) \in Nat /\ Len(k) \in Nat /\ DOMAIN l = 1 .. Len(l) /\ DOMAIN k = 1 .. Len(k)
      /\ DOMAIN l \subseteq DOMAIN k
  BY DEF Extends
<1>2. PICK e \in 1 .. Len(k) : /\ k[e].participant = p /\ k[e].attendance = status
                               /\ \A d \in 1 .. Len(k) : k[d].participant = p => d <= e
  BY DEF Leaves
<1>3. e \in DOMAIN l BY <1>1, <1>2
<1>4. k[e] = l[e] /\ \A d \in DOMAIN l : k[d] = l[d] BY <1>3 DEF Extends
<1>5. \A d \in 1 .. Len(l) : l[d].participant = p => d <= e BY <1>1, <1>2, <1>4
<1>6. QED BY <1>1, <1>2, <1>3, <1>4, <1>5 DEF Leaves

\* Events about no place: the room's, and its application's.
LEMMA RoomEventTold ==
  ASSUME AnalyticsAssumption, NEW l \in Seq(EventRow), NEW s, NEW users, NEW a,
         OutboxTells(s, users, a, l),
         NEW ev \in EventRow, ev.participant = Nil, ev.type \notin PlaceEvents,
         NEW k, Appends(l, <<ev>>, k), NEW t, Seated(t) <=> Seated(s),
         s # "COMPLETED", t = "COMPLETED" <=> ev.type = "ROOM_COMPLETED"
  PROVE  OutboxTells(t, users, a, k)
<1>0. Len(k) = Len(l) + 1 BY DEF Appends
<1>1. Extends(l, k) BY DEF Appends
<1>2. \A e \in DOMAIN k \ DOMAIN l : e - Len(l) = 1 /\ k[e] = ev BY DEF Appends
<1>3. /\ Len(l) \in Nat /\ Len(k) \in Nat /\ DOMAIN l = 1 .. Len(l) /\ DOMAIN k = 1 .. Len(k)
      /\ DOMAIN l \subseteq DOMAIN k
  BY <1>1 DEF Extends
<1>4. EventsTold(k, users)
  <2>1. \A p \in Participants : users[p] \in {Nil, users[p]} OBVIOUS
  <2>2. \A e \in DOMAIN l : EventTold(k, users, e) BY <1>1, <2>1, EventsStay DEF OutboxTells
  <2>3. ev.participant \notin Participants BY DEF AnalyticsAssumption
  <2>4. \A e \in DOMAIN k \ DOMAIN l : EventTold(k, users, e)
    BY <1>2, <2>3 DEF EventTold, PlaceEvents
  <2>5. QED BY <2>2, <2>4 DEF EventsTold
<1>5. PlacesTold(t, k) BY <1>1, <1>2, PlacesStay DEF OutboxTells
<1>6. AttendanceTold(t, a, k)
  <2>1. ASSUME NEW p \in Participants, NEW status \in Attendance, Leaves(k, Len(k), p, status)
        PROVE  a[p] = status
    <3>1. \A e \in DOMAIN k \ DOMAIN l : k[e].participant # p BY <1>2 DEF AnalyticsAssumption
    <3>2. Leaves(l, Len(l), p, status) BY <1>1, <2>1, <3>1, NobodysStatus
    <3>3. QED BY <3>2 DEF OutboxTells, AttendanceTold
  <2>2. QED BY <2>1 DEF OutboxTells, AttendanceTold
<1>7. CompletionTold(t, k)
  <2>1. \A e \in DOMAIN l : k[e].type # "ROOM_COMPLETED"
    BY <1>1 DEF Extends, OutboxTells, CompletionTold
  <2>2. ASSUME NEW e \in DOMAIN k, k[e].type = "ROOM_COMPLETED"
        PROVE  t = "COMPLETED" /\ e = Len(k)
    <3>1. e \in DOMAIN k \ DOMAIN l BY <2>1, <2>2
    <3>2. ev.type = "ROOM_COMPLETED" /\ e = Len(l) + 1 BY <1>2, <1>3, <2>2, <3>1
    <3>3. QED BY <1>0, <1>3, <2>2, <3>2
  <2>3. ASSUME t = "COMPLETED" PROVE \E e \in DOMAIN k : k[e].type = "ROOM_COMPLETED"
    <3>1. Len(l) + 1 \in DOMAIN k \ DOMAIN l BY <1>0, <1>3
    <3>2. QED BY <1>2, <2>3, <3>1
  <2>4. QED BY <2>2, <2>3 DEF CompletionTold
<1>8. QED BY <1>4, <1>5, <1>6, <1>7 DEF OutboxTells

\* Marks of a place already created, the last with the status it has now.
LEMMA MarksTold ==
  ASSUME AnalyticsAssumption, NEW l \in Seq(EventRow), NEW users \in [Participants -> Accounts],
         NEW a \in [Participants -> Attendance], OutboxTells("SEATED", users, a, l),
         NEW p \in Participants, NEW status \in {"PRESENT", "NO_SHOW"},
         NEW events \in Seq(EventRow), events # <<>>,
         \A i \in DOMAIN events :
           /\ events[i].type \in PlaceEvents \ {"PARTICIPANT_CREATED"}
           /\ events[i].participant = p /\ events[i].user = users[p]
           /\ events[i].attendance = status,
         NEW k, Appends(l, events, k)
  PROVE  OutboxTells("SEATED", users, [a EXCEPT ![p] = status], k)
<1>1. Extends(l, k) BY DEF Appends
<1>2. \A e \in DOMAIN k \ DOMAIN l :
        /\ k[e].type \in PlaceEvents \ {"PARTICIPANT_CREATED"}
        /\ k[e].participant = p /\ k[e].user = users[p] /\ k[e].attendance = status
  BY DEF Appends
<1>3. /\ Len(l) \in Nat /\ Len(k) \in Nat /\ DOMAIN l = 1 .. Len(l) /\ DOMAIN k = 1 .. Len(k)
      /\ DOMAIN l \subseteq DOMAIN k /\ Len(k) > Len(l)
  <2>1. Len(events) \in Nat \ {0} OBVIOUS
  <2>2. QED BY <1>1, <2>1 DEF Appends, Extends
<1>4. EventsTold(k, users)
  <2>1. \A q \in Participants : users[q] \in {Nil, users[q]} OBVIOUS
  <2>2. \A e \in DOMAIN l : EventTold(k, users, e) BY <1>1, <2>1, EventsStay DEF OutboxTells
  <2>3. PICK d \in DOMAIN l : CreatesPlace(l, d, p) BY DEF OutboxTells, PlacesTold, Seated
  <2>4. CreatesPlace(k, d, p) BY <1>1, <2>3 DEF Extends, CreatesPlace
  <2>5. ASSUME NEW e \in DOMAIN k \ DOMAIN l PROVE EventTold(k, users, e)
    <3>1. d \in 1 .. e BY <1>3, <2>3, <2>5
    <3>2. QED BY <1>2, <2>4, <2>5, <3>1 DEF EventTold
  <2>6. QED BY <2>2, <2>5 DEF EventsTold
<1>5. PlacesTold("SEATED", k) BY <1>1, PlacesStay DEF OutboxTells, Seated
<1>6. AttendanceTold("SEATED", [a EXCEPT ![p] = status], k)
  <2>1. ASSUME NEW q \in Participants, NEW left \in Attendance, Leaves(k, Len(k), q, left)
        PROVE  [a EXCEPT ![p] = status][q] = left
    <3>1. CASE q = p
      <4>1. PICK e \in 1 .. Len(k) :
              /\ k[e].participant = p /\ k[e].attendance = left
              /\ \A d \in 1 .. Len(k) : k[d].participant = p => d <= e
        BY <2>1, <3>1 DEF Leaves
      <4>2. k[Len(k)].participant = p BY <1>2, <1>3
      <4>3. Len(k) <= e BY <1>3, <4>1, <4>2
      <4>4. e = Len(k)
        <5>1. e \in Nat /\ e <= Len(k) /\ Len(k) \in Nat BY <1>3, <4>1
        <5>2. QED BY <4>3, <5>1
      <4>5. k[Len(k)].attendance = status BY <1>2, <1>3
      <4>6. QED BY <3>1, <4>1, <4>4, <4>5
    <3>2. CASE q # p
      <4>1. \A e \in DOMAIN k \ DOMAIN l : k[e].participant # q BY <1>2, <3>2
      <4>2. Leaves(l, Len(l), q, left) BY <1>1, <2>1, <4>1, NobodysStatus
      <4>3. a[q] = left BY <4>2 DEF OutboxTells, AttendanceTold
      <4>4. QED BY <3>2, <4>3
    <3>3. QED BY <3>1, <3>2
  <2>2. QED BY <2>1 DEF AttendanceTold, Seated
<1>7. CompletionTold("SEATED", k)
  <2>1. \A e \in DOMAIN l : k[e].type # "ROOM_COMPLETED"
    BY <1>1 DEF Extends, OutboxTells, CompletionTold
  <2>2. \A e \in DOMAIN k \ DOMAIN l : k[e].type # "ROOM_COMPLETED" BY <1>2 DEF PlaceEvents
  <2>3. QED BY <2>1, <2>2 DEF CompletionTold
<1>8. QED BY <1>4, <1>5, <1>6, <1>7 DEF OutboxTells

\* All the places, created together.
LEMMA SeatsTold ==
  ASSUME AnalyticsAssumption, NEW l \in Seq(EventRow), NEW users \in [Participants -> Accounts],
         NEW a \in [Participants -> Attendance], NEW s, ~Seated(s), OutboxTells(s, users, a, l),
         NEW events \in Seq(EventRow), NEW k, Appends(l, events, k),
         \A i \in DOMAIN events :
           \/ /\ events[i].type \notin PlaceEvents \cup {"ROOM_COMPLETED"}
              /\ events[i].participant = Nil
           \/ \E p \in Participants : events[i] = Event("PARTICIPANT_CREATED", p, users[p], "NOT_SET"),
         \A p \in Participants : \E i \in DOMAIN events : CreatesPlace(events, i, p)
  PROVE  OutboxTells("SEATED", users, a, k)
<1>1. Extends(l, k) BY DEF Appends
<1>2. \A e \in DOMAIN k \ DOMAIN l : \E i \in DOMAIN events : i = e - Len(l) /\ k[e] = events[i]
  BY DEF Appends
<1>3. ASSUME NEW e \in DOMAIN k \ DOMAIN l
      PROVE  \/ /\ k[e].type \notin PlaceEvents \cup {"ROOM_COMPLETED"} /\ k[e].participant = Nil
             \/ \E p \in Participants : k[e] = Event("PARTICIPANT_CREATED", p, users[p], "NOT_SET")
  BY <1>2, <1>3
<1>4. /\ Len(l) \in Nat /\ Len(k) \in Nat /\ DOMAIN l = 1 .. Len(l) /\ DOMAIN k = 1 .. Len(k)
      /\ DOMAIN l \subseteq DOMAIN k /\ Len(k) = Len(l) + Len(events)
      /\ DOMAIN events = 1 .. Len(events) /\ Len(events) \in Nat
  BY <1>1 DEF Appends, Extends
<1>5. \A e \in DOMAIN l : l[e].type \notin PlaceEvents /\ l[e].participant \notin Participants
  BY DEF OutboxTells, PlacesTold, EventsTold, EventTold
<1>6. EventsTold(k, users)
  <2>1. \A p \in Participants : users[p] \in {Nil, users[p]} OBVIOUS
  <2>2. \A e \in DOMAIN l : EventTold(k, users, e) BY <1>1, <2>1, EventsStay DEF OutboxTells
  <2>3. ASSUME NEW e \in DOMAIN k \ DOMAIN l PROVE EventTold(k, users, e)
    <3>1. CASE k[e].type \notin PlaceEvents \cup {"ROOM_COMPLETED"} /\ k[e].participant = Nil
      BY <3>1 DEF EventTold, AnalyticsAssumption, PlaceEvents
    <3>2. CASE \E p \in Participants : k[e] = Event("PARTICIPANT_CREATED", p, users[p], "NOT_SET")
      <4>1. PICK p \in Participants : k[e] = Event("PARTICIPANT_CREATED", p, users[p], "NOT_SET")
        BY <3>2
      <4>2. /\ k[e].type = "PARTICIPANT_CREATED" /\ k[e].participant = p /\ k[e].user = users[p]
            /\ k[e].attendance = "NOT_SET"
        BY <4>1 DEF Event
      <4>3. e \in 1 .. e BY <1>4, <2>3
      <4>4. CreatesPlace(k, e, p) BY <4>2 DEF CreatesPlace
      <4>5. QED BY <4>2, <4>3, <4>4 DEF EventTold, PlaceEvents
    <3>3. QED BY <1>3, <2>3, <3>1, <3>2
  <2>4. QED BY <2>2, <2>3 DEF EventsTold
<1>7. PlacesTold("SEATED", k)
  <2>1. ASSUME NEW p \in Participants PROVE \E e \in DOMAIN k : CreatesPlace(k, e, p)
    <3>1. PICK i \in DOMAIN events : CreatesPlace(events, i, p) OBVIOUS
    <3>2. PICK e : e = Len(l) + i OBVIOUS
    <3>3. e \in DOMAIN k \ DOMAIN l /\ e - Len(l) = i BY <1>4, <3>2
    <3>4. k[e] = events[i] BY <1>2, <3>3
    <3>5. QED BY <3>1, <3>3, <3>4 DEF CreatesPlace
  <2>2. QED BY <2>1 DEF PlacesTold, Seated
<1>8. AttendanceTold("SEATED", a, k)
  <2>1. ASSUME NEW p \in Participants, NEW status \in Attendance, Leaves(k, Len(k), p, status)
        PROVE  a[p] = status
    <3>1. PICK e \in 1 .. Len(k) : k[e].participant = p /\ k[e].attendance = status
      BY <2>1 DEF Leaves
    <3>2. e \in DOMAIN k \ DOMAIN l BY <1>1, <1>4, <1>5, <3>1 DEF Extends
    <3>3. status = "NOT_SET" BY <1>3, <3>1, <3>2 DEF Event, AnalyticsAssumption
    <3>4. QED BY <3>3 DEF OutboxTells, AttendanceTold
  <2>2. QED BY <2>1 DEF AttendanceTold, Seated
<1>9. CompletionTold("SEATED", k)
  <2>1. s # "COMPLETED" BY DEF Seated
  <2>2. \A e \in DOMAIN l : k[e].type # "ROOM_COMPLETED"
    BY <1>1, <2>1 DEF Extends, OutboxTells, CompletionTold
  <2>3. \A e \in DOMAIN k \ DOMAIN l : k[e].type # "ROOM_COMPLETED" BY <1>3 DEF Event
  <2>4. QED BY <2>2, <2>3 DEF CompletionTold
<1>10. QED BY <1>6, <1>7, <1>8, <1>9 DEF OutboxTells

\* A claim changes who has the place and nothing that was told of it.
LEMMA ClaimTold ==
  ASSUME NEW l \in Seq(EventRow), NEW s, NEW users \in [Participants -> Accounts], NEW a,
         OutboxTells(s, users, a, l), NEW p \in Participants, users[p] = Nil, NEW u
  PROVE  OutboxTells(s, [users EXCEPT ![p] = u], a, l)
<1>1. \A q \in Participants : users[q] \in {Nil, [users EXCEPT ![p] = u][q]} OBVIOUS
<1>2. Extends(l, l) BY DEF Extends
<1>3. EventsTold(l, [users EXCEPT ![p] = u])
  <2>1. PICK claimed : claimed = [users EXCEPT ![p] = u] OBVIOUS
  <2>2. \A q \in Participants : users[q] \in {Nil, claimed[q]} BY <1>1, <2>1
  <2>3. EventsTold(l, claimed) BY <1>2, <2>2, EventsStay DEF OutboxTells, EventsTold
  <2>4. QED BY <2>1, <2>3
<1>4. QED BY <1>3 DEF OutboxTells

-----------------------------------------------------------------------------
(* The outbox, whatever the product does. *)

ProductTold == OutboxTells(stage, user, attendance, log)

\* An event of the room or of its application.
LEMMA OneEventTold ==
  ASSUME AnalyticsAssumption, TypeOK, ProductTold, NEW ev \in EventRow,
         ev.participant = Nil, ev.type \notin PlaceEvents, log' = log \o <<ev>>,
         Seated(stage') <=> Seated(stage), stage # "COMPLETED",
         stage' = "COMPLETED" <=> ev.type = "ROOM_COMPLETED",
         UNCHANGED <<user, attendance>>
  PROVE  ProductTold' /\ Extends(log, log')
<1>1. PICK k : k = log' OBVIOUS
<1>2. PICK t : t = stage' OBVIOUS
<1>3. log \in Seq(EventRow) /\ <<ev>> \in Seq(EventRow) BY DEF TypeOK
<1>4. Appends(log, <<ev>>, k) BY <1>1, <1>3, Appended
<1>5. OutboxTells(t, user, attendance, k)
  <2>1. OutboxTells(stage, user, attendance, log) BY DEF ProductTold
  <2>2. Seated(t) <=> Seated(stage) BY <1>2
  <2>3. t = "COMPLETED" <=> ev.type = "ROOM_COMPLETED" BY <1>2
  <2>4. QED BY <1>3, <1>4, <2>1, <2>2, <2>3, RoomEventTold
<1>6. Extends(log, log') BY <1>1, <1>4 DEF Appends
<1>7. QED BY <1>1, <1>2, <1>5, <1>6 DEF ProductTold

\* The marks' events.
LEMMA MarkAttendanceTold ==
  ASSUME AnalyticsAssumption, TypeOK, ProductTold,
         NEW p \in Participants, NEW status \in {"PRESENT", "NO_SHOW"}, MarkAttendance(p, status)
  PROVE  ProductTold' /\ Extends(log, log')
<1>1. PICK users \in [Participants -> Accounts] : users = user BY DEF TypeOK
<1>2. PICK at \in [Participants -> Attendance] : at = attendance BY DEF TypeOK
<1>3. PICK type : type = IF status = "PRESENT" THEN "PLAYER_MARKED_PRESENT" ELSE "PLAYER_NO_SHOW"
  OBVIOUS
<1>4. PICK a : a = Event(type, p, users[p], status) OBVIOUS
<1>5. PICK b : b = Event("ATTENDANCE_CORRECTED", p, users[p], status) OBVIOUS
<1>6. /\ a \in EventRow /\ a.type \in PlaceEvents \ {"PARTICIPANT_CREATED"}
      /\ a.participant = p /\ a.user = users[p] /\ a.attendance = status
      /\ b \in EventRow /\ b.type \in PlaceEvents \ {"PARTICIPANT_CREATED"}
      /\ b.participant = p /\ b.user = users[p] /\ b.attendance = status
  BY <1>3, <1>4, <1>5 DEF Event, EventRow, EventTypes, Attendance, PlaceEvents
<1>7. PICK events : events = <<a>> \o (IF attendance[p] = "NOT_SET" THEN <<>> ELSE <<b>>) OBVIOUS
<1>8. /\ events \in Seq(EventRow) /\ events # <<>>
      /\ \A i \in DOMAIN events : events[i] \in {a, b}
  <2>1. CASE attendance[p] = "NOT_SET"
    <3>1. events = <<a>> BY <1>7, <2>1
    <3>2. QED BY <1>6, <3>1
  <2>2. CASE attendance[p] # "NOT_SET"
    <3>0. events = <<a>> \o <<b>> BY <1>7, <2>2
    <3>1. <<a>> \in Seq(EventRow) /\ <<b>> \in Seq(EventRow) BY <1>6
    <3>2. Appends(<<a>>, <<b>>, events) BY <3>0, <3>1, Appended
    <3>3. /\ events \in Seq(EventRow) /\ DOMAIN <<a>> \subseteq DOMAIN events
          /\ \A i \in DOMAIN <<a>> : events[i] = <<a>>[i]
      BY <3>2 DEF Appends, Extends
    <3>4. events # <<>> /\ \A i \in DOMAIN <<a>> : events[i] = a BY <3>3
    <3>5. \A i \in DOMAIN events \ DOMAIN <<a>> : events[i] = b BY <3>2 DEF Appends
    <3>6. QED BY <3>3, <3>4, <3>5
  <2>3. QED BY <2>1, <2>2
<1>9. log' = log \o events
  BY <1>1, <1>3, <1>4, <1>5, <1>7 DEF MarkAttendance, AppendOutboxEvents
<1>10. PICK k : k = log' OBVIOUS
<1>11. log \in Seq(EventRow) BY DEF TypeOK
<1>12. Appends(log, events, k) BY <1>8, <1>9, <1>10, <1>11, Appended
<1>13. \A i \in DOMAIN events :
         /\ events[i].type \in PlaceEvents \ {"PARTICIPANT_CREATED"}
         /\ events[i].participant = p /\ events[i].user = users[p]
         /\ events[i].attendance = status
  BY <1>6, <1>8
<1>14. stage = "SEATED" /\ stage' = "SEATED" /\ user' = user
       /\ attendance' = [at EXCEPT ![p] = status]
  BY <1>2 DEF MarkAttendance
<1>15. OutboxTells("SEATED", users, at, log) BY <1>1, <1>2, <1>14 DEF ProductTold
<1>16. OutboxTells("SEATED", users, [at EXCEPT ![p] = status], k)
  BY <1>8, <1>11, <1>12, <1>13, <1>15, MarksTold
<1>17. Extends(log, log') BY <1>10, <1>12 DEF Appends
<1>18. QED BY <1>1, <1>10, <1>14, <1>16, <1>17 DEF ProductTold

\* The acceptance's events.
LEMMA AcceptApplicationTold ==
  ASSUME AnalyticsAssumption, TypeOK, ProductTold, AcceptApplication
  PROVE  ProductTold' /\ Extends(log, log')
<1>0. PICK sq : sq = SetToSeq(Participants) OBVIOUS
<1>1. PICK n \in Nat : /\ sq \in [1 .. n -> Participants]
                       /\ \A p \in Participants : \E i \in 1 .. n : sq[i] = p
  BY <1>0, PlacesInOrder
<1>2. PICK users \in [Participants -> Accounts] : users = user BY DEF TypeOK
<1>3. PICK a : a = RoomEvent("JOIN_REQUEST_ACCEPTED") OBVIOUS
<1>4. PICK seats : seats = [i \in 1 .. n |-> Event("PARTICIPANT_CREATED", sq[i], users[sq[i]], "NOT_SET")]
  OBVIOUS
<1>5. a \in EventRow /\ a.type \notin PlaceEvents \cup {"ROOM_COMPLETED"} /\ a.participant = Nil
  BY <1>3 DEF RoomEvent, Event, EventRow, EventTypes, Attendance, Accounts, PlaceEvents
<1>6. seats \in Seq(EventRow) /\ DOMAIN seats = 1 .. n
  <2>1. \A i \in 1 .. n : seats[i] \in EventRow
    BY <1>1, <1>2, <1>4 DEF Event, EventRow, EventTypes, Attendance
  <2>2. seats \in [1 .. n -> EventRow] BY <1>4, <2>1
  <2>3. QED BY <2>2
<1>7. PICK events : events = <<a>> \o seats OBVIOUS
<1>8. <<a>> \in Seq(EventRow) /\ DOMAIN <<a>> = {1} /\ Len(<<a>>) = 1 BY <1>5
<1>9. Appends(<<a>>, seats, events) BY <1>6, <1>7, <1>8, Appended
<1>10. /\ events \in Seq(EventRow) /\ events[1] = a /\ Len(events) = 1 + Len(seats)
       /\ \A i \in DOMAIN events : i # 1 => i - 1 \in 1 .. n /\ events[i] = seats[i - 1]
  BY <1>6, <1>8, <1>9 DEF Appends, Extends
<1>11. log' = log \o events
  <2>1. DOMAIN sq = 1 .. n BY <1>1
  <2>2. [i \in DOMAIN SetToSeq(Participants) |->
           LET p == SetToSeq(Participants)[i] IN
             Event("PARTICIPANT_CREATED", p, user[p], "NOT_SET")] = seats
    BY <1>0, <1>2, <1>4, <2>1
  <2>3. QED BY <1>3, <1>7, <2>2 DEF AcceptApplication, AppendOutboxEvents
<1>12. ASSUME NEW i \in DOMAIN events
       PROVE  \/ /\ events[i].type \notin PlaceEvents \cup {"ROOM_COMPLETED"}
                 /\ events[i].participant = Nil
              \/ \E p \in Participants :
                   events[i] = Event("PARTICIPANT_CREATED", p, users[p], "NOT_SET")
  <2>1. CASE i = 1 BY <1>5, <1>10, <2>1
  <2>2. CASE i # 1
    <3>1. PICK j \in 1 .. n : events[i] = seats[j] BY <1>10, <1>12, <2>2
    <3>2. events[i] = Event("PARTICIPANT_CREATED", sq[j], users[sq[j]], "NOT_SET") BY <1>4, <3>1
    <3>3. QED BY <1>1, <3>2
  <2>3. QED BY <2>1, <2>2
<1>13. ASSUME NEW p \in Participants PROVE \E i \in DOMAIN events : CreatesPlace(events, i, p)
  <2>1. PICK j \in 1 .. n : sq[j] = p BY <1>1
  <2>2. j + 1 \in DOMAIN events /\ j + 1 # 1 /\ j + 1 - 1 = j
    <3>1. Len(seats) = n BY <1>6
    <3>2. DOMAIN events = 1 .. n + 1 BY <1>10, <3>1
    <3>3. QED BY <2>1, <3>2
  <2>3. events[j + 1] = seats[j]
    <3>1. PICK i : i = j + 1 OBVIOUS
    <3>2. i \in DOMAIN events /\ i # 1 /\ i - 1 = j BY <2>2, <3>1
    <3>3. events[i] = seats[i - 1] BY <1>10, <3>2, Zenon
    <3>4. QED BY <3>1, <3>2, <3>3
  <2>4. seats[j] = Event("PARTICIPANT_CREATED", p, users[p], "NOT_SET") BY <1>4, <2>1
  <2>5. CreatesPlace(events, j + 1, p) BY <2>3, <2>4 DEF CreatesPlace, Event
  <2>6. QED BY <2>2, <2>5
<1>14. PICK k : k = log' OBVIOUS
<1>15. log \in Seq(EventRow) BY DEF TypeOK
<1>16. Appends(log, events, k) BY <1>10, <1>11, <1>14, <1>15, Appended
<1>17. PICK at \in [Participants -> Attendance] : at = attendance BY DEF TypeOK
<1>18. ~Seated(stage) BY DEF Seated, AcceptApplication
<1>19. OutboxTells("SEATED", users, at, k)
  <2>1. OutboxTells(stage, users, at, log) BY <1>2, <1>17 DEF ProductTold
  <2>2. QED BY <1>10, <1>12, <1>13, <1>15, <1>16, <1>18, <2>1, SeatsTold
<1>20. stage' = "SEATED" /\ user' = users /\ attendance' = at BY <1>2, <1>17 DEF AcceptApplication
<1>21. Extends(log, log') BY <1>14, <1>16 DEF Appends
<1>22. QED BY <1>14, <1>19, <1>20, <1>21 DEF ProductTold

\* Every step leaves the outbox telling what the product holds, and every
\* event where it is.
LEMMA ProductToldStep ==
  ASSUME AnalyticsAssumption, TypeOK, ProductTold, [Next]_vars
  PROVE  ProductTold' /\ Extends(log, log')
<1>0. log \in Seq(EventRow) /\ Extends(log, log) BY DEF TypeOK, Extends
<1>1. CASE CreateRoom
  <2>1. PICK ev : ev = RoomEvent("ROOM_CREATED") OBVIOUS
  <2>2. /\ ev \in EventRow /\ ev.participant = Nil /\ ev.type \notin PlaceEvents
        /\ ev.type # "ROOM_COMPLETED"
    BY <2>1 DEF RoomEvent, Event, EventRow, EventTypes, Attendance, Accounts, PlaceEvents
  <2>3. log' = log \o <<ev>> BY <1>1, <2>1 DEF CreateRoom, AppendOutboxEvents
  <2>4. /\ stage # "COMPLETED" /\ stage' # "COMPLETED" /\ ~Seated(stage) /\ ~Seated(stage')
        /\ UNCHANGED <<user, attendance>>
    BY <1>1 DEF CreateRoom, Seated
  <2>5. QED BY <2>2, <2>3, <2>4, OneEventTold
<1>2. CASE ApplyToRoom
  <2>1. PICK ev : ev = Event("JOIN_REQUEST_CREATED", Nil, Requester, "NOT_SET") OBVIOUS
  <2>2. /\ ev \in EventRow /\ ev.participant = Nil /\ ev.type \notin PlaceEvents
        /\ ev.type # "ROOM_COMPLETED"
    BY <2>1 DEF Event, EventRow, EventTypes, Attendance, Accounts, PlaceEvents, AnalyticsAssumption
  <2>3. log' = log \o <<ev>> BY <1>2, <2>1 DEF ApplyToRoom, AppendOutboxEvents
  <2>4. /\ stage # "COMPLETED" /\ stage' # "COMPLETED" /\ ~Seated(stage) /\ ~Seated(stage')
        /\ UNCHANGED <<user, attendance>>
    BY <1>2 DEF ApplyToRoom, Seated
  <2>5. QED BY <2>2, <2>3, <2>4, OneEventTold
<1>3. CASE CompleteRoom
  <2>1. PICK ev : ev = RoomEvent("ROOM_COMPLETED") OBVIOUS
  <2>2. /\ ev \in EventRow /\ ev.participant = Nil /\ ev.type \notin PlaceEvents
        /\ ev.type = "ROOM_COMPLETED"
    BY <2>1 DEF RoomEvent, Event, EventRow, EventTypes, Attendance, Accounts, PlaceEvents
  <2>3. log' = log \o <<ev>> BY <1>3, <2>1 DEF CompleteRoom, AppendOutboxEvents
  <2>4. /\ stage # "COMPLETED" /\ stage' = "COMPLETED" /\ Seated(stage) /\ Seated(stage')
        /\ UNCHANGED <<user, attendance>>
    BY <1>3 DEF CompleteRoom, Seated
  <2>5. QED BY <2>2, <2>3, <2>4, OneEventTold
<1>4. CASE AcceptApplication BY <1>4, AcceptApplicationTold
<1>5. CASE \E p \in Participants, status \in {"PRESENT", "NO_SHOW"} : MarkAttendance(p, status)
  BY <1>5, MarkAttendanceTold
<1>6. CASE \E p \in Participants, u \in Claimers : ClaimGuest(p, u)
  <2>1. PICK p \in Participants, u \in Claimers : ClaimGuest(p, u) BY <1>6
  <2>2. PICK users \in [Participants -> Accounts] : users = user BY DEF TypeOK
  <2>3. OutboxTells(stage, users, attendance, log) /\ users[p] = Nil
    BY <2>1, <2>2 DEF ProductTold, ClaimGuest
  <2>4. OutboxTells(stage, [users EXCEPT ![p] = u], attendance, log) BY <1>0, <2>3, ClaimTold
  <2>5. /\ user' = [users EXCEPT ![p] = u] /\ stage' = stage /\ attendance' = attendance
        /\ log' = log
    BY <2>1, <2>2 DEF ClaimGuest
  <2>6. QED BY <1>0, <2>4, <2>5 DEF ProductTold
<1>7. CASE UNCHANGED product BY <1>0, <1>7 DEF ProductTold, product
<1>8. (\E w \in Passes : Worker(w)) \/ Rebuild \/ UNCHANGED vars => UNCHANGED product
  BY DEF Worker, Rebuild, WorkerTakes, WorkerCommits, WorkerFails, Acknowledge, Truncate,
         SelectEvents, Replay, ReplayCommits, EndRebuild, RebuildFails, vars
<1>9. QED BY <1>1, <1>2, <1>3, <1>4, <1>5, <1>6, <1>7, <1>8 DEF Next, Product

-----------------------------------------------------------------------------
(* The tables a replay has filled from the first events of the outbox. *)

Mirrors(l, users, f, k) ==
  /\ \A p \in Participants : p \in DOMAIN f.participant <=> \E e \in 1 .. k : l[e].participant = p
  /\ \A p \in DOMAIN f.participant :
       /\ Leaves(l, k, p, f.participant[p].attendance)
       /\ f.participant[p].user = IF Names(l, k, p, users[p]) THEN users[p] ELSE Nil
  /\ f.completed # 0 <=> \E e \in 1 .. k : l[e].type = "ROOM_COMPLETED"
  /\ DOMAIN f.played = IF f.completed = 0 THEN {} ELSE PresentUsers(f)

\* What is so of the first events stays so as others follow them.
LEMMA MirrorsStays ==
  ASSUME NEW l \in Seq(EventRow), NEW m, Extends(l, m), NEW k \in 0 .. Len(l),
         NEW users, NEW f \in Facts, Mirrors(l, users, f, k)
  PROVE  Mirrors(m, users, f, k)
<1>1. \A e \in 1 .. k : m[e] = l[e] BY DEF Extends
<1>2. \A p \in Participants : p \in DOMAIN f.participant <=> \E e \in 1 .. k : m[e].participant = p
  BY <1>1 DEF Mirrors
<1>3. ASSUME NEW p \in DOMAIN f.participant
      PROVE  /\ Leaves(m, k, p, f.participant[p].attendance)
             /\ f.participant[p].user = IF Names(m, k, p, users[p]) THEN users[p] ELSE Nil
  <2>1. Leaves(m, k, p, f.participant[p].attendance) BY <1>1, <1>3 DEF Mirrors, Leaves
  <2>2. Names(m, k, p, users[p]) <=> Names(l, k, p, users[p]) BY <1>1 DEF Names
  <2>3. QED BY <1>3, <2>1, <2>2 DEF Mirrors
<1>4. f.completed # 0 <=> \E e \in 1 .. k : m[e].type = "ROOM_COMPLETED" BY <1>1 DEF Mirrors
<1>5. QED BY <1>2, <1>3, <1>4 DEF Mirrors

\* And as somebody claims a place no event gives to anybody.
LEMMA MirrorsClaimed ==
  ASSUME AnalyticsAssumption, NEW l \in Seq(EventRow), NEW users \in [Participants -> Accounts],
         EventsTold(l, users), NEW k \in 0 .. Len(l), NEW f \in Facts, Mirrors(l, users, f, k),
         NEW p \in Participants, users[p] = Nil, NEW u \in Users
  PROVE  Mirrors(l, [users EXCEPT ![p] = u], f, k)
<1>1. PICK claimed : claimed = [users EXCEPT ![p] = u] OBVIOUS
<1>2. ASSUME NEW q \in DOMAIN f.participant
      PROVE  f.participant[q].user = IF Names(l, k, q, claimed[q]) THEN claimed[q] ELSE Nil
  <2>1. f.participant[q].user = IF Names(l, k, q, users[q]) THEN users[q] ELSE Nil
    BY <1>2 DEF Mirrors
  <2>2. q \in Participants BY <1>2, PlaceFields
  <2>3. CASE q # p BY <1>1, <2>1, <2>2, <2>3
  <2>4. CASE q = p
    <3>1. claimed[q] = u /\ u # Nil BY <1>1, <2>4 DEF AnalyticsAssumption
    <3>2. ASSUME NEW e \in 1 .. k, l[e].participant = q PROVE l[e].user # u
      <4>1. e \in DOMAIN l BY <3>2
      <4>2. l[e].user \in {Nil, users[q]} BY <2>2, <3>2, <4>1 DEF EventsTold, EventTold
      <4>3. QED BY <2>4, <3>1, <4>2
    <3>3. ~Names(l, k, q, claimed[q]) BY <3>1, <3>2 DEF Names
    <3>4. QED BY <2>1, <2>4, <3>3
  <2>5. QED BY <2>3, <2>4
<1>3. Mirrors(l, claimed, f, k) BY <1>2 DEF Mirrors
<1>4. QED BY <1>1, <1>3

\* No event, and empty tables.
LEMMA MirrorsNothing ==
  ASSUME NEW l, NEW users PROVE Mirrors(l, users, NoFacts, 0)
<1>1. DOMAIN NoFacts.participant = {} /\ DOMAIN NoFacts.played = {} /\ NoFacts.completed = 0
  BY DEF NoFacts
<1>2. 1 .. 0 = {} OBVIOUS
<1>3. QED BY <1>1, <1>2 DEF Mirrors

\* Who the next event says has the place.
LEMMA OneMoreNames ==
  ASSUME NEW l, NEW k \in Nat, NEW p, NEW u
  PROVE  Names(l, k + 1, p, u) <=>
           \/ Names(l, k, p, u)
           \/ l[k + 1].participant = p /\ l[k + 1].user = u
<1>1. 1 .. k + 1 = (1 .. k) \cup {k + 1} OBVIOUS
<1>2. QED BY <1>1 DEF Names

\* The status the next event leaves a place with.
LEMMA OneMoreLeaves ==
  ASSUME NEW l, NEW k \in Nat, NEW p, NEW status
  PROVE  /\ l[k + 1].participant = p => Leaves(l, k + 1, p, l[k + 1].attendance)
         /\ l[k + 1].participant # p /\ Leaves(l, k, p, status) => Leaves(l, k + 1, p, status)
<1>1. 1 .. k + 1 = (1 .. k) \cup {k + 1} OBVIOUS
<1>2. ASSUME l[k + 1].participant = p PROVE Leaves(l, k + 1, p, l[k + 1].attendance)
  <2>1. \A d \in 1 .. k + 1 : d <= k + 1 OBVIOUS
  <2>2. k + 1 \in 1 .. k + 1 OBVIOUS
  <2>3. QED BY <1>2, <2>1, <2>2 DEF Leaves
<1>3. ASSUME l[k + 1].participant # p, Leaves(l, k, p, status)
      PROVE  Leaves(l, k + 1, p, status)
  BY <1>1, <1>3 DEF Leaves
<1>4. QED BY <1>2, <1>3

\* An event about no place leaves the places as they were.
LEMMA RoomMirrors ==
  ASSUME NEW l, NEW users, NEW k \in Nat, NEW f \in Facts, NEW g \in Facts,
         Mirrors(l, users, f, k), l[k + 1].participant \notin Participants,
         g.participant = f.participant,
         g.completed # 0 <=> f.completed # 0 \/ l[k + 1].type = "ROOM_COMPLETED",
         DOMAIN g.played = IF g.completed = 0 THEN {} ELSE PresentUsers(g)
  PROVE  Mirrors(l, users, g, k + 1)
<1>1. 1 .. k + 1 = (1 .. k) \cup {k + 1} OBVIOUS
<1>2. \A p \in Participants :
        p \in DOMAIN g.participant <=> \E e \in 1 .. k + 1 : l[e].participant = p
  BY <1>1 DEF Mirrors
<1>3. ASSUME NEW p \in DOMAIN g.participant
      PROVE  /\ Leaves(l, k + 1, p, g.participant[p].attendance)
             /\ g.participant[p].user = IF Names(l, k + 1, p, users[p]) THEN users[p] ELSE Nil
  <2>1. p \in Participants BY <1>3, PlaceFields
  <2>2. l[k + 1].participant # p BY <2>1
  <2>3. Leaves(l, k, p, g.participant[p].attendance) BY <1>3 DEF Mirrors
  <2>4. g.participant[p].user = IF Names(l, k, p, users[p]) THEN users[p] ELSE Nil
    BY <1>3 DEF Mirrors
  <2>5. Leaves(l, k + 1, p, g.participant[p].attendance) BY <2>2, <2>3, OneMoreLeaves
  <2>6. Names(l, k + 1, p, users[p]) <=> Names(l, k, p, users[p]) BY <2>2, OneMoreNames
  <2>7. QED BY <2>4, <2>5, <2>6
<1>4. g.completed # 0 <=> \E e \in 1 .. k + 1 : l[e].type = "ROOM_COMPLETED"
  BY <1>1 DEF Mirrors
<1>5. QED BY <1>2, <1>3, <1>4 DEF Mirrors

\* Who has the place, once one more event has been projected.
WhoHas(f, p, u) == IF p \in DOMAIN f.participant THEN KnownUser(f.participant[p].user, u) ELSE u

\* An event about a place changes that place, before the room is completed.
LEMMA PlaceMirrors ==
  ASSUME NEW l \in Seq(EventRow), NEW users, NEW k \in Nat, k + 1 \in DOMAIN l,
         EventTold(l, users, k + 1), NEW f \in Facts, NEW g \in Facts, Mirrors(l, users, f, k),
         NEW p \in Participants, l[k + 1].participant = p,
         DOMAIN g.participant = DOMAIN f.participant \cup {p},
         g.participant[p].attendance = l[k + 1].attendance,
         g.participant[p].user = WhoHas(f, p, l[k + 1].user),
         \A q \in DOMAIN f.participant : q # p => g.participant[q] = f.participant[q],
         f.completed = 0, g.completed = 0, DOMAIN g.played = {}
  PROVE  Mirrors(l, users, g, k + 1)
<1>1. 1 .. k + 1 = (1 .. k) \cup {k + 1} OBVIOUS
<1>2. l[k + 1].type \in PlaceEvents /\ l[k + 1].user \in {Nil, users[p]} BY DEF EventTold
<1>3. \A q \in Participants :
        q \in DOMAIN g.participant <=> \E e \in 1 .. k + 1 : l[e].participant = q
  BY <1>1 DEF Mirrors
<1>4. ASSUME NEW q \in DOMAIN g.participant
      PROVE  /\ Leaves(l, k + 1, q, g.participant[q].attendance)
             /\ g.participant[q].user = IF Names(l, k + 1, q, users[q]) THEN users[q] ELSE Nil
  <2>1. CASE q # p
    <3>1. q \in DOMAIN f.participant /\ g.participant[q] = f.participant[q] BY <1>4, <2>1
    <3>2. Leaves(l, k, q, g.participant[q].attendance) BY <3>1 DEF Mirrors
    <3>3. g.participant[q].user = IF Names(l, k, q, users[q]) THEN users[q] ELSE Nil
      BY <3>1 DEF Mirrors
    <3>4. l[k + 1].participant # q BY <2>1
    <3>5. Leaves(l, k + 1, q, g.participant[q].attendance) BY <3>2, <3>4, OneMoreLeaves
    <3>6. Names(l, k + 1, q, users[q]) <=> Names(l, k, q, users[q]) BY <3>4, OneMoreNames
    <3>7. QED BY <3>3, <3>5, <3>6
  <2>2. CASE q = p
    <3>1. Leaves(l, k + 1, q, g.participant[q].attendance) BY <2>2, OneMoreLeaves
    <3>2. Names(l, k + 1, p, users[p]) <=> Names(l, k, p, users[p]) \/ l[k + 1].user = users[p]
      BY OneMoreNames
    <3>3. CASE p \in DOMAIN f.participant
      <4>1. f.participant[p].user = IF Names(l, k, p, users[p]) THEN users[p] ELSE Nil
        BY <3>3 DEF Mirrors
      <4>2. g.participant[p].user = KnownUser(f.participant[p].user, l[k + 1].user)
        BY <3>3 DEF WhoHas
      <4>3. QED BY <1>2, <2>2, <3>1, <3>2, <4>1, <4>2 DEF KnownUser
    <3>4. CASE p \notin DOMAIN f.participant
      <4>1. ~Names(l, k, p, users[p]) BY <3>4 DEF Mirrors, Names
      <4>2. g.participant[p].user = l[k + 1].user BY <3>4 DEF WhoHas
      <4>3. QED BY <1>2, <2>2, <3>1, <3>2, <4>1, <4>2
    <3>5. QED BY <3>3, <3>4
  <2>3. QED BY <2>1, <2>2
<1>5. g.completed # 0 <=> \E e \in 1 .. k + 1 : l[e].type = "ROOM_COMPLETED"
  BY <1>1, <1>2 DEF Mirrors, PlaceEvents
<1>6. QED BY <1>3, <1>4, <1>5 DEF Mirrors

\* An event that shows in other columns only.
LEMMA SameMirrors ==
  ASSUME NEW l, NEW users, NEW k \in Nat, NEW f \in Facts, NEW g \in Facts,
         Mirrors(l, users, f, k), l[k + 1].participant \notin Participants,
         l[k + 1].type # "ROOM_COMPLETED",
         g.participant = f.participant, g.played = f.played, g.completed = f.completed
  PROVE  Mirrors(l, users, g, k + 1)
<1>1. PresentUsers(f) = PresentUsers(g) BY SamePresent
<1>2. DOMAIN g.played = IF g.completed = 0 THEN {} ELSE PresentUsers(g) BY <1>1 DEF Mirrors
<1>3. QED BY <1>2, RoomMirrors

\* What is so when the next event of the outbox is to be projected.
Due(f, k) ==
  /\ log \in Seq(EventRow) /\ k \in Nat /\ k + 1 \in Positions
  /\ f \in Facts /\ Mirrors(log, user, f, k)

\* The room is not completed before its last event.
LEMMA NotYetCompleted ==
  ASSUME ProductTold, NEW f, NEW k, Due(f, k)
  PROVE  f.completed = 0
<1>1. k + 1 <= Len(log) /\ Len(log) \in Nat /\ k \in Nat BY DEF Due, Positions
<1>2. ASSUME NEW e \in 1 .. k, log[e].type = "ROOM_COMPLETED" PROVE FALSE
  <2>1. e \in DOMAIN log BY <1>1 DEF Due
  <2>2. e = Len(log) BY <1>2, <2>1 DEF ProductTold, OutboxTells, CompletionTold
  <2>3. QED BY <1>1, <2>2
<1>3. QED BY <1>2 DEF Due, Mirrors

\* The room's events, and its application's, but for the completion.
LEMMA RoomEventMirrors ==
  ASSUME NEW f, NEW seen, NEW k, Due(f, k), ProductTold,
         log[k + 1].type \in {"ROOM_CREATED", "JOIN_REQUEST_CREATED", "JOIN_REQUEST_ACCEPTED"}
  PROVE  Mirrors(log, user, ProjectEvent(f, seen, k + 1), k + 1)
<1>1. PICK e \in Nat : e = k + 1 BY DEF Due
<1>2. PICK g : g = ProjectEvent(f, seen, e) OBVIOUS
<1>3. /\ f \in Facts /\ log[e].participant \notin Participants /\ log[e].type # "ROOM_COMPLETED"
  BY <1>1 DEF Due, Positions, ProductTold, OutboxTells, EventsTold, EventTold, PlaceEvents
<1>4. /\ g \in Facts /\ g.participant = f.participant /\ g.played = f.played
      /\ g.completed = f.completed
  <2>1. CASE log[e].type = "ROOM_CREATED"
    <3>1. PICK x \in Nat : x = Coalesce(f.created, e) BY <1>3 DEF Coalesce, Facts
    <3>2. g = [f EXCEPT !.created = x]
      BY <1>2, <2>1, <3>1 DEF ProjectEvent, ProjectRoomCreated
    <3>3. QED BY <1>3, <3>2, CreatedChange
  <2>2. CASE log[e].type = "JOIN_REQUEST_CREATED"
    <3>1. PICK x \in Nat : x = Coalesce(f.firstApplication, e) BY <1>3 DEF Coalesce, Facts
    <3>2. g = [f EXCEPT !.application = TRUE, !.firstApplication = x]
      BY <1>2, <2>2, <3>1 DEF ProjectEvent, ProjectJoinCreated
    <3>3. QED BY <1>3, <3>2 DEF Facts
  <2>3. CASE log[e].type = "JOIN_REQUEST_ACCEPTED"
    <3>1. g = ProjectJoinAccepted(f, seen, e) BY <1>2, <2>3 DEF ProjectEvent
    <3>2. CASE ~seen.application BY <1>3, <3>1, <3>2 DEF ProjectJoinAccepted
    <3>3. CASE seen.application
      <4>1. PICK x \in Nat : x = Coalesce(f.accepted, e) BY <1>3 DEF Coalesce, Facts
      <4>2. PICK y \in Nat : y = Coalesce(f.acceptedSource, e) BY <1>3 DEF Coalesce, Facts
      <4>3. g = [f EXCEPT !.accepted = x, !.acceptedSource = y]
        BY <3>1, <3>3, <4>1, <4>2 DEF ProjectJoinAccepted
      <4>4. QED BY <1>3, <4>3 DEF Facts
    <3>4. QED BY <3>2, <3>3
  <2>4. QED BY <1>1, <2>1, <2>2, <2>3
<1>5. Mirrors(log, user, g, k + 1) BY <1>1, <1>3, <1>4, SameMirrors DEF Due
<1>6. QED BY <1>1, <1>2, <1>5

\* The completion counts whoever is present by then.
LEMMA CompletionMirrors ==
  ASSUME NEW f, NEW seen \in Facts, NEW k, Due(f, k), ProductTold,
         log[k + 1].type = "ROOM_COMPLETED", seen.participant = f.participant
  PROVE  Mirrors(log, user, ProjectEvent(f, seen, k + 1), k + 1)
<1>1. PICK e \in Nat : e = k + 1 BY DEF Due
<1>2. PICK g : g = ProjectEvent(f, seen, e) OBVIOUS
<1>3. f \in Facts /\ log[e].participant \notin Participants /\ e # 0
  BY <1>1 DEF Due, Positions, ProductTold, OutboxTells, EventsTold, EventTold, PlaceEvents
<1>4. f.completed = 0 /\ DOMAIN f.played = {}
  <2>1. f.completed = 0 BY NotYetCompleted
  <2>2. QED BY <2>1 DEF Due, Mirrors
<1>5. PICK y \in Nat : y = Coalesce(f.completedSource, e) BY <1>3 DEF Coalesce, Facts
<1>6. PICK h : h = [f EXCEPT !.completed = e, !.completedSource = y] OBVIOUS
<1>7. h \in Facts /\ h.participant = f.participant /\ h.played = f.played /\ h.completed = e
  BY <1>3, <1>6 DEF Facts
<1>8. PICK present \in SUBSET Users : present = PresentUsers(seen) BY PlaceFields
<1>9. g = InsertCompletedParticipations(h, present, e)
  BY <1>1, <1>2, <1>4, <1>5, <1>6, <1>8 DEF ProjectEvent, ProjectRoomCompleted, Coalesce
<1>10. Inserts(h, present, e, g) BY <1>7, <1>9, Inserted
<1>11. /\ g \in Facts /\ g.participant = f.participant /\ g.completed = e
       /\ DOMAIN g.played = present
  BY <1>4, <1>7, <1>10 DEF Inserts
<1>12. present = PresentUsers(g) BY <1>8, <1>11, SamePresent
<1>13. Mirrors(log, user, g, k + 1) BY <1>1, <1>3, <1>11, <1>12, RoomMirrors DEF Due
<1>14. QED BY <1>1, <1>2, <1>13

\* A place is created once, and before anything else is told of it.
LEMMA CreationMirrors ==
  ASSUME IInv, NEW f, NEW seen, NEW k, Due(f, k), ProductTold,
         log[k + 1].type = "PARTICIPANT_CREATED"
  PROVE  Mirrors(log, user, ProjectEvent(f, seen, k + 1), k + 1)
<1>1. PICK e \in Nat : e = k + 1 BY DEF Due
<1>2. PICK g : g = ProjectEvent(f, seen, e) OBVIOUS
<1>3. PICK p : p = log[e].participant OBVIOUS
<1>4. PICK u \in Accounts : u = log[e].user
  <2>1. log[e] \in EventRow BY <1>1 DEF Due, Positions
  <2>2. QED BY <2>1 DEF EventRow
<1>5. /\ log \in Seq(EventRow) /\ f \in Facts /\ Mirrors(log, user, f, k) /\ k \in Nat
      /\ e \in Positions /\ EventTold(log, user, e)
  BY <1>1 DEF Due, Positions, ProductTold, OutboxTells, EventsTold
<1>6. p \in Participants /\ log[e].attendance = "NOT_SET"
  BY <1>1, <1>3, <1>5 DEF EventTold, PlaceEvents
<1>7. p \notin DOMAIN f.participant
  <2>1. SUFFICES ASSUME p \in DOMAIN f.participant PROVE FALSE OBVIOUS
  <2>2. PICK d \in 1 .. k : log[d].participant = p BY <1>5, <1>6, <2>1 DEF Mirrors
  <2>3. d \in DOMAIN log /\ d <= k BY <1>1, <1>5, <2>2 DEF Positions
  <2>4. EventTold(log, user, d) BY <2>3 DEF ProductTold, OutboxTells, EventsTold
  <2>5. PICK c \in 1 .. d : CreatesPlace(log, c, p) BY <1>6, <2>2, <2>4 DEF EventTold
  <2>6. c \in Positions /\ c <= k BY <1>5, <2>3, <2>5 DEF Positions
  <2>7. c = e BY <1>1, <1>3, <1>5, <2>5, <2>6 DEF IInv, CreatedOnce, CreatesPlace
  <2>8. QED BY <1>1, <1>5, <2>6, <2>7
<1>8. PICK row : row = [user |-> u, attendance |-> "NOT_SET"] OBVIOUS
<1>9. row \in Participant BY <1>8 DEF Participant, Attendance
<1>10. PICK b : b = With(f.participant, p, row) OBVIOUS
<1>11. /\ b \in Places /\ DOMAIN f.participant \subseteq DOMAIN b
       /\ DOMAIN b \subseteq DOMAIN f.participant \cup {p} /\ p \in DOMAIN b /\ b[p] = row
       /\ \A q \in DOMAIN b : q # p => q \in DOMAIN f.participant /\ b[q] = f.participant[q]
  BY <1>5, <1>6, <1>9, <1>10, Placed
<1>12. g = [f EXCEPT !.participant = b]
  <2>1. g = ProjectParticipantCreated(f, p, u) BY <1>1, <1>2, <1>3, <1>4 DEF ProjectEvent
  <2>2. QED BY <1>7, <1>8, <1>10, <2>1 DEF ProjectParticipantCreated
<1>13. g \in Facts /\ g.participant = b /\ g.played = f.played /\ g.completed = f.completed
  BY <1>5, <1>11, <1>12, PlacesChange
<1>14. DOMAIN g.participant = DOMAIN f.participant \cup {p} BY <1>11, <1>13
<1>15. g.participant[p].attendance = log[e].attendance /\ g.participant[p].user = WhoHas(f, p, u)
  BY <1>6, <1>7, <1>8, <1>11, <1>13 DEF WhoHas
<1>16. \A q \in DOMAIN f.participant : q # p => g.participant[q] = f.participant[q]
  BY <1>11, <1>13
<1>17. f.completed = 0 /\ g.completed = 0 /\ DOMAIN g.played = {}
  <2>1. f.completed = 0 BY NotYetCompleted
  <2>2. QED BY <1>5, <1>13, <2>1 DEF Mirrors
<1>18. k + 1 \in DOMAIN log BY <1>1, <1>5 DEF Positions
<1>19. Mirrors(log, user, g, k + 1)
  BY <1>1, <1>3, <1>4, <1>5, <1>6, <1>13, <1>14, <1>15, <1>16, <1>17, <1>18, PlaceMirrors
<1>20. QED BY <1>1, <1>2, <1>19

\* A mark, or its correction, is of a place the replay has created.
LEMMA MarkMirrors ==
  ASSUME NEW f, NEW seen \in Facts, NEW k, Due(f, k), ProductTold,
         log[k + 1].type \in {"PLAYER_MARKED_PRESENT", "PLAYER_NO_SHOW", "ATTENDANCE_CORRECTED"},
         seen.participant = f.participant, seen.completed = f.completed
  PROVE  Mirrors(log, user, ProjectEvent(f, seen, k + 1), k + 1)
<1>1. PICK e \in Nat : e = k + 1 BY DEF Due
<1>2. PICK g : g = ProjectEvent(f, seen, e) OBVIOUS
<1>3. PICK p : p = log[e].participant OBVIOUS
<1>4. PICK u \in Accounts : u = log[e].user
  <2>1. log[e] \in EventRow BY <1>1 DEF Due, Positions
  <2>2. QED BY <2>1 DEF EventRow
<1>5. PICK status \in Attendance : status = log[e].attendance
  <2>1. log[e] \in EventRow BY <1>1 DEF Due, Positions
  <2>2. QED BY <2>1 DEF EventRow
<1>6. /\ log \in Seq(EventRow) /\ f \in Facts /\ Mirrors(log, user, f, k) /\ k \in Nat
      /\ e \in Positions /\ EventTold(log, user, e)
  BY <1>1 DEF Due, Positions, ProductTold, OutboxTells, EventsTold
<1>7. log[e].type \in PlaceEvents \ {"PARTICIPANT_CREATED"} BY <1>1 DEF PlaceEvents
<1>8. p \in DOMAIN f.participant /\ p \in Participants
  <2>1. p \in Participants BY <1>3, <1>6, <1>7 DEF EventTold
  <2>2. PICK d \in 1 .. e : CreatesPlace(log, d, p) BY <1>3, <1>6, <1>7 DEF EventTold
  <2>3. d # e BY <1>7, <2>2 DEF CreatesPlace
  <2>4. d \in 1 .. k BY <1>1, <1>6, <2>2, <2>3
  <2>5. log[d].participant = p BY <2>2 DEF CreatesPlace
  <2>6. QED BY <1>6, <2>1, <2>4, <2>5 DEF Mirrors
<1>9. f.completed = 0 /\ DOMAIN f.played = {}
  <2>1. f.completed = 0 BY NotYetCompleted
  <2>2. QED BY <1>6, <2>1 DEF Mirrors
<1>10. PICK player : player = KnownUser(f.participant[p].user, u) OBVIOUS
<1>11. player \in Accounts BY <1>6, <1>8, <1>10, PlaceFields DEF KnownUser
<1>12. PICK row : row = [user |-> player, attendance |-> status] OBVIOUS
<1>13. row \in Participant BY <1>11, <1>12 DEF Participant
<1>14. PICK b : b = [f.participant EXCEPT ![p] = row] OBVIOUS
<1>15. /\ b \in Places
       /\ p \in DOMAIN b => b[p] = row
       /\ \A q \in DOMAIN b : q # p => q \in DOMAIN f.participant /\ b[q] = f.participant[q]
  BY <1>6, <1>8, <1>13, <1>14, Placed
<1>16. DOMAIN b = DOMAIN f.participant BY <1>14
<1>17. g = [f EXCEPT !.participant = b]
  <2>1. g = ProjectAttendance(f, seen, p, u, status)
    BY <1>1, <1>2, <1>3, <1>4, <1>5 DEF ProjectEvent
  <2>2. Player(seen, p, u) = player BY <1>8, <1>10 DEF Player
  <2>3. seen.completed = 0 /\ p \in DOMAIN seen.participant BY <1>8, <1>9
  <2>4. g = [f EXCEPT !.participant[p] = row] BY <1>12, <2>1, <2>2, <2>3 DEF ProjectAttendance
  <2>5. QED BY <1>14, <2>4
<1>18. g \in Facts /\ g.participant = b /\ g.played = f.played /\ g.completed = f.completed
  BY <1>6, <1>15, <1>17, PlacesChange
<1>19. /\ DOMAIN g.participant = DOMAIN f.participant \cup {p}
       /\ \A q \in DOMAIN f.participant : q # p => g.participant[q] = f.participant[q]
  BY <1>8, <1>15, <1>16, <1>18
<1>20. g.participant[p].attendance = log[e].attendance /\ g.participant[p].user = WhoHas(f, p, u)
  BY <1>5, <1>8, <1>10, <1>12, <1>15, <1>16, <1>18 DEF WhoHas
<1>21. k + 1 \in DOMAIN log BY <1>1, <1>6 DEF Positions
<1>22. Mirrors(log, user, g, k + 1)
  BY <1>1, <1>3, <1>4, <1>6, <1>8, <1>9, <1>18, <1>19, <1>20, <1>21, PlaceMirrors
<1>23. QED BY <1>1, <1>2, <1>22

\* A projection of the next event takes the tables one event further.
LEMMA ProjectionMirrors ==
  ASSUME AnalyticsAssumption, IInv, ProductTold, NEW f, NEW seen \in Facts, NEW k, Due(f, k),
         seen = Read(f, log[k + 1])
  PROVE  Mirrors(log, user, ProjectClaimed(f, seen, k + 1), k + 1)
<1>1. PICK e \in Nat : e = k + 1 BY DEF Due
<1>2. f \in Facts /\ Mirrors(log, user, f, k) /\ log[e] \in EventRow
  BY <1>1 DEF Due, Positions
<1>3. PICK users : users = ActiveActors(log[e]) \cup Concerned(log[e], seen) OBVIOUS
<1>4. users \in SUBSET Users BY <1>2, <1>3, ActiveAreUsers
<1>5. PICK h : h = TouchActiveUsers(f, users, e) OBVIOUS
<1>6. Touches(f, users, e, h) BY <1>2, <1>4, <1>5, Touched
<1>7. h \in Facts /\ SameButActive(f, h) BY <1>6 DEF Touches
<1>8. Mirrors(log, user, h, k)
  <2>1. h.participant = f.participant /\ h.completed = f.completed /\ h.played = f.played
    BY <1>7 DEF SameButActive
  <2>2. PresentUsers(h) = PresentUsers(f) BY <2>1, SamePresent
  <2>3. QED BY <1>2, <2>1, <2>2 DEF Mirrors
<1>9. Due(h, k) BY <1>7, <1>8 DEF Due
<1>10. /\ log[e].type = "ROOM_COMPLETED" => seen.participant = h.participant
       /\ log[e].type \in MarkTypes =>
            seen.participant = h.participant /\ seen.completed = h.completed
  BY <1>1, <1>2, <1>7, ReadFields DEF SameButActive
<1>11. Mirrors(log, user, ProjectEvent(h, seen, k + 1), k + 1)
  <2>1. log[k + 1].type \in EventTypes BY <1>1, <1>2 DEF EventRow
  <2>2. CASE log[k + 1].type \in {"ROOM_CREATED", "JOIN_REQUEST_CREATED", "JOIN_REQUEST_ACCEPTED"}
    BY <1>9, <2>2, RoomEventMirrors
  <2>3. CASE log[k + 1].type = "ROOM_COMPLETED"
    BY <1>1, <1>9, <1>10, <2>3, CompletionMirrors
  <2>4. CASE log[k + 1].type = "PARTICIPANT_CREATED" BY <1>9, <2>4, CreationMirrors
  <2>5. CASE log[k + 1].type \in {"PLAYER_MARKED_PRESENT", "PLAYER_NO_SHOW", "ATTENDANCE_CORRECTED"}
    <3>1. log[e].type \in MarkTypes BY <1>1, <2>5 DEF MarkTypes
    <3>2. QED BY <1>9, <1>10, <2>5, <3>1, MarkMirrors
  <2>6. QED BY <2>1, <2>2, <2>3, <2>4, <2>5 DEF EventTypes
<1>12. ProjectClaimed(f, seen, e) = ProjectEvent(h, seen, e) BY <1>3, <1>5 DEF ProjectClaimed
<1>13. QED BY <1>1, <1>11, <1>12

-----------------------------------------------------------------------------
(* A replay nobody disturbs. *)

Undisturbed == alone /\ rebuild.stage \in {"EMPTIED", "REPLAYING", "DONE"}

\* The tables hold the first k events; the next is being projected or the
\* first of the queue, which holds the rest of what was selected in order.
ReplayedUpTo(k) ==
  /\ processed = 1 .. k /\ k <= Len(log) /\ Mirrors(log, user, fact, k)
  /\ rebuild.stage = "EMPTIED" => k = 0
  /\ Busy("rebuild") => project["rebuild"].event = k + 1
  /\ rebuild.stage = "REPLAYING" =>
       \A i \in DOMAIN rebuild.queue :
         rebuild.queue[i] = k + i + (IF Busy("rebuild") THEN 1 ELSE 0)

ReplayedInOrder == Undisturbed => \E k \in Nat : ReplayedUpTo(k)

\* The product goes on: the events replayed so far stay where they are.
LEMMA ProductReplayed ==
  ASSUME AnalyticsAssumption, IInv, ProductTold, ReplayedInOrder, Extends(log, log'),
         \/ user' = user
         \/ \E p \in Participants, u \in Claimers : user[p] = Nil /\ user' = [user EXCEPT ![p] = u],
         UNCHANGED <<processed, fact, project, rebuild, alone>>
  PROVE  ReplayedInOrder'
<1>1. SUFFICES ASSUME Undisturbed' PROVE \E k \in Nat : ReplayedUpTo(k)' BY DEF ReplayedInOrder
<1>2. Undisturbed BY <1>1 DEF Undisturbed
<1>3. PICK k \in Nat : ReplayedUpTo(k) BY <1>2 DEF ReplayedInOrder
<1>4. /\ log \in Seq(EventRow) /\ fact \in Facts /\ user \in [Participants -> Accounts]
  BY DEF IInv, TypeOK
<1>5. k \in 0 .. Len(log) /\ Mirrors(log, user, fact, k) BY <1>3, <1>4 DEF ReplayedUpTo
<1>6. PICK m : m = log' OBVIOUS
<1>7. Extends(log, m) /\ Len(log) \in Nat /\ Len(m) \in Nat /\ Len(log) <= Len(m)
  <2>1. Extends(log, m) BY <1>6
  <2>2. /\ m \in Seq(EventRow) /\ DOMAIN log = 1 .. Len(log) /\ DOMAIN m = 1 .. Len(m)
        /\ Len(log) \in Nat /\ Len(m) \in Nat /\ DOMAIN log \subseteq DOMAIN m
    BY <1>4, <2>1 DEF Extends
  <2>3. QED BY <2>1, <2>2
<1>8. PICK f : f = fact OBVIOUS
<1>9. Mirrors(m, user, f, k) BY <1>4, <1>5, <1>7, <1>8, MirrorsStays
<1>10. Mirrors(log', user', fact', k)
  <2>1. fact' = f BY <1>8
  <2>2. CASE user' = user BY <1>6, <1>9, <2>1, <2>2
  <2>3. CASE \E p \in Participants, u \in Claimers : user[p] = Nil /\ user' = [user EXCEPT ![p] = u]
    <3>1. PICK p \in Participants, u \in Claimers : user[p] = Nil /\ user' = [user EXCEPT ![p] = u]
      BY <2>3
    <3>2. PICK users \in [Participants -> Accounts] : users = user BY <1>4
    <3>3. u \in Users BY DEF AnalyticsAssumption
    <3>4. EventsTold(log, users) BY <3>2 DEF ProductTold, OutboxTells
    <3>5. Mirrors(log, [users EXCEPT ![p] = u], f, k)
      BY <1>4, <1>5, <1>8, <3>1, <3>2, <3>3, <3>4, MirrorsClaimed
    <3>6. Mirrors(m, [users EXCEPT ![p] = u], f, k) BY <1>4, <1>5, <1>7, <1>8, <3>5, MirrorsStays
    <3>7. QED BY <1>6, <2>1, <3>1, <3>2, <3>6
  <2>4. QED BY <2>2, <2>3
<1>11. ReplayedUpTo(k)'
  <2>1. k <= Len(log') BY <1>5, <1>6, <1>7
  <2>2. QED BY <1>3, <1>10, <2>1 DEF ReplayedUpTo, Busy
<1>12. QED BY <1>11

\* Whatever a pass does that leaves the replay alone, tables and replay stay.
LEMMA WorkerReplayed ==
  ASSUME AnalyticsAssumption, IInv, ReplayedInOrder, NEW w \in Passes, Worker(w)
  PROVE  ReplayedInOrder'
<1>1. SUFFICES ASSUME Undisturbed' PROVE \E k \in Nat : ReplayedUpTo(k)' BY DEF ReplayedInOrder
<1>2. /\ log' = log /\ user' = user /\ rebuild' = rebuild
      /\ w \in Projectors /\ w # "rebuild" /\ "rebuild" \in Projectors
      /\ project \in [Projectors -> Projection]
  BY WhoProjects
  DEF Worker, WorkerTakes, WorkerCommits, WorkerFails, Acknowledge, product, IInv, TypeOK
<1>3. ASSUME NEW e \in Positions, WorkerTakes(w, e) PROVE UNCHANGED <<processed, fact, project, alone>>
  <2>1. alone' BY <1>1 DEF Undisturbed
  <2>2. QED BY <1>3, <2>1 DEF WorkerTakes
<1>4. alone' = alone BY <1>3 DEF Worker, WorkerCommits, WorkerFails, Acknowledge
<1>5. Undisturbed BY <1>1, <1>2, <1>4 DEF Undisturbed
<1>6. PICK k \in Nat : ReplayedUpTo(k) BY <1>5 DEF ReplayedInOrder
<1>7. ~Busy(w) BY <1>5 DEF Undisturbed, IInv, ReplayAlone
<1>8. ~WorkerCommits(w) BY <1>7 DEF WorkerCommits, Commit
<1>9. processed' = processed /\ fact' = fact /\ project'["rebuild"] = project["rebuild"]
  <2>1. CASE WorkerFails(w)
    <3>1. project' = [project EXCEPT ![w] = Idle] BY <2>1 DEF WorkerFails
    <3>2. project'["rebuild"] = project["rebuild"] BY <1>2, <3>1
    <3>3. QED BY <2>1, <3>2 DEF WorkerFails
  <2>2. CASE Acknowledge(w) BY <2>2 DEF Acknowledge
  <2>3. CASE \E e \in Positions : WorkerTakes(w, e) BY <1>3, <2>3
  <2>4. QED BY <1>8, <2>1, <2>2, <2>3 DEF Worker
<1>10. Busy("rebuild")' = Busy("rebuild") BY <1>9 DEF Busy
<1>11. ReplayedUpTo(k)' BY <1>2, <1>6, <1>9, <1>10 DEF ReplayedUpTo
<1>12. QED BY <1>11

\* The tables are emptied: nothing is replayed, and nothing queued.
LEMMA TruncateReplayed ==
  ASSUME IInv, Truncate
  PROVE  ReplayedInOrder'
<1>1. /\ log' = log /\ user' = user /\ project' = project /\ processed' = {} /\ fact' = NoFacts
      /\ rebuild' = [stage |-> "EMPTIED", queue |-> <<>>]
  BY DEF Truncate, product
<1>2. ~Busy("rebuild")
  <2>1. ~Rebuilding BY DEF Truncate
  <2>2. QED BY <2>1 DEF IInv, NothingSkipped, Rebuilding
<1>3. Mirrors(log, user, NoFacts, 0) BY MirrorsNothing
<1>4. Mirrors(log', user', fact', 0) BY <1>1, <1>3
<1>5. rebuild'.stage = "EMPTIED" BY <1>1
<1>6. 1 .. 0 = {} /\ 0 <= Len(log') BY <1>1 DEF IInv, TypeOK
<1>7. ~Busy("rebuild")' BY <1>1, <1>2 DEF Busy
<1>8. ReplayedUpTo(0)' BY <1>1, <1>4, <1>5, <1>6, <1>7 DEF ReplayedUpTo
<1>9. QED BY <1>8 DEF ReplayedInOrder

\* Everything the outbox holds is queued, oldest first.
LEMMA SelectEventsReplayed ==
  ASSUME IInv, ReplayedInOrder, SelectEvents
  PROVE  ReplayedInOrder'
<1>1. SUFFICES ASSUME Undisturbed' PROVE \E k \in Nat : ReplayedUpTo(k)' BY DEF ReplayedInOrder
<1>2. /\ log' = log /\ user' = user /\ project' = project /\ processed' = processed /\ fact' = fact
      /\ alone' = alone /\ rebuild.stage = "EMPTIED"
      /\ rebuild' = [stage |-> "REPLAYING", queue |-> OutboxEvents]
  BY DEF SelectEvents, product
<1>3. Undisturbed BY <1>1, <1>2 DEF Undisturbed
<1>4. PICK k \in Nat : ReplayedUpTo(k) BY <1>3 DEF ReplayedInOrder
<1>5. k = 0 /\ ~Busy("rebuild")
  <2>1. ~Busy("rebuild") BY <1>2 DEF IInv, NothingSkipped
  <2>2. QED BY <1>2, <1>4, <2>1 DEF ReplayedUpTo
<1>6. ~Busy("rebuild")' BY <1>2, <1>5 DEF Busy
<1>7. PICK q : q = OutboxEvents OBVIOUS
<1>8. \A i \in DOMAIN q : q[i] = k + i + 0
  <2>1. DOMAIN q = Positions /\ \A i \in DOMAIN q : q[i] = i BY <1>7 DEF OutboxEvents
  <2>2. Positions \subseteq Nat BY DEF IInv, TypeOK, Positions
  <2>3. k = 0 /\ \A i \in DOMAIN q : i \in Nat /\ q[i] = i BY <1>5, <2>1, <2>2
  <2>4. QED BY <2>3
<1>9. rebuild'.stage = "REPLAYING" /\ rebuild'.queue = q BY <1>2, <1>7
<1>10. ReplayedUpTo(k)' BY <1>2, <1>4, <1>5, <1>6, <1>8, <1>9 DEF ReplayedUpTo
<1>11. QED BY <1>10

\* The next event of the queue is the next of the outbox.
LEMMA ReplayReplayed ==
  ASSUME AnalyticsAssumption, IInv, ReplayedInOrder, Replay
  PROVE  ReplayedInOrder'
<1>1. SUFFICES ASSUME Undisturbed' PROVE \E k \in Nat : ReplayedUpTo(k)' BY DEF ReplayedInOrder
<1>2. /\ log' = log /\ user' = user /\ processed' = processed /\ fact' = fact
      /\ rebuild.stage = "REPLAYING" /\ rebuild.queue # <<>> /\ ~Busy("rebuild")
      /\ rebuild' = [rebuild EXCEPT !.queue = Tail(rebuild.queue)]
  BY DEF Replay, product
<1>3. PICK r \in [stage : {"NONE", "EMPTIED", "REPLAYING", "DONE", "ERROR"}, queue : Seq(Nat)] :
        r = rebuild
  BY DEF IInv, TypeOK
<1>4. PICK q \in Seq(Nat) : q = r.queue BY <1>3
<1>5. q # <<>> /\ r.stage = "REPLAYING" /\ rebuild' = [r EXCEPT !.queue = Tail(q)]
  BY <1>2, <1>3, <1>4
<1>6. rebuild'.stage = "REPLAYING" /\ rebuild'.queue = Tail(q) BY <1>3, <1>5
<1>7. alone' BY <1>1 DEF Undisturbed
<1>8. alone BY <1>7 DEF Replay
<1>9. Undisturbed BY <1>2, <1>8 DEF Undisturbed
<1>10. PICK k \in Nat : ReplayedUpTo(k) BY <1>9 DEF ReplayedInOrder
<1>11. \A i \in DOMAIN q : q[i] = k + i
  <2>1. \A i \in DOMAIN q : q[i] = k + i + 0 BY <1>2, <1>3, <1>4, <1>10 DEF ReplayedUpTo
  <2>2. DOMAIN q \subseteq Nat OBVIOUS
  <2>3. QED BY <2>1, <2>2
<1>12. /\ 1 \in DOMAIN q /\ Head(q) = k + 1
       /\ \A i \in DOMAIN Tail(q) : i \in Nat /\ Tail(q)[i] = k + i + 1
  <2>1. PICK n \in Nat : n = Len(q) /\ n > 0 BY <1>4, <1>5
  <2>2. /\ DOMAIN q = 1 .. n /\ DOMAIN Tail(q) = 1 .. (n - 1) /\ Head(q) = q[1]
        /\ \A i \in 1 .. (n - 1) : Tail(q)[i] = q[i + 1]
    BY <1>4, <1>5, <2>1
  <2>3. 1 \in DOMAIN q /\ Head(q) = k + 1
    <3>1. 1 \in 1 .. n BY <2>1
    <3>2. 1 \in DOMAIN q BY <2>2, <3>1
    <3>3. q[1] = k + 1 BY <1>11, <3>2
    <3>4. QED BY <2>2, <3>2, <3>3
  <2>4. ASSUME NEW i \in 1 .. (n - 1) PROVE Tail(q)[i] = k + i + 1
    <3>1. i + 1 \in DOMAIN q /\ i \in Nat BY <2>1, <2>2, <2>4
    <3>2. q[i + 1] = k + (i + 1) BY <1>11, <3>1
    <3>3. QED BY <2>2, <2>4, <3>1, <3>2
  <2>5. QED BY <2>2, <2>3, <2>4
<1>13. Head(q) \notin processed BY <1>10, <1>12 DEF ReplayedUpTo
<1>14. Begin("rebuild", k + 1) BY <1>3, <1>4, <1>12, <1>13 DEF Replay
<1>15. project'["rebuild"].event = k + 1
  <2>1. "rebuild" \in Projectors BY WhoProjects
  <2>2. project \in [Projectors -> Projection] BY DEF IInv, TypeOK
  <2>3. PICK t : /\ t = [event |-> k + 1, seen |-> Read(fact, log[k + 1])]
                 /\ project' = [project EXCEPT !["rebuild"] = t]
    BY <1>14 DEF Begin
  <2>4. t.event = k + 1 BY <2>3
  <2>5. QED BY <2>1, <2>2, <2>3, <2>4
<1>16. Busy("rebuild")' BY <1>10, <1>15 DEF Busy
<1>17. processed' = 1 .. k /\ k <= Len(log') /\ Mirrors(log', user', fact', k)
  BY <1>2, <1>10 DEF ReplayedUpTo
<1>18. ReplayedUpTo(k)' BY <1>6, <1>12, <1>15, <1>16, <1>17 DEF ReplayedUpTo
<1>19. QED BY <1>18

\* One event more.
LEMMA ReplayCommitsReplayed ==
  ASSUME AnalyticsAssumption, IInv, ProductTold, ReplayedInOrder, ReplayCommits
  PROVE  ReplayedInOrder'
<1>1. SUFFICES ASSUME Undisturbed' PROVE \E k \in Nat : ReplayedUpTo(k)' BY DEF ReplayedInOrder
<1>2. /\ log' = log /\ user' = user /\ rebuild' = rebuild /\ alone' = alone
      /\ Commit("rebuild") /\ Busy("rebuild")
  BY DEF ReplayCommits, product, Commit
<1>3. Undisturbed BY <1>1, <1>2 DEF Undisturbed
<1>4. PICK k \in Nat : ReplayedUpTo(k) BY <1>3 DEF ReplayedInOrder
<1>5. PICK e : e = project["rebuild"].event OBVIOUS
<1>6. e = k + 1 /\ e \in Positions
  <2>1. e = k + 1 BY <1>2, <1>4, <1>5 DEF ReplayedUpTo
  <2>2. project["rebuild"].event \in Positions \cup {0} BY WhoProjects DEF IInv, TypeOK
  <2>3. QED BY <1>2, <1>5, <2>1, <2>2 DEF Busy
<1>7. PICK seen : seen = project["rebuild"].seen OBVIOUS
<1>8. PICK f : f = fact OBVIOUS
<1>9. seen \in Facts /\ f \in Facts /\ log \in Seq(EventRow)
  <2>1. project["rebuild"] \in Projection BY WhoProjects DEF IInv, TypeOK
  <2>2. QED BY <1>7, <1>8, <2>1 DEF IInv, TypeOK, Projection
<1>10. seen = Read(f, log[k + 1])
  BY <1>2, <1>3, <1>5, <1>6, <1>7, <1>8 DEF Undisturbed, IInv, ReplayAlone
<1>11. Due(f, k) BY <1>4, <1>6, <1>8, <1>9 DEF Due, ReplayedUpTo
<1>12. Mirrors(log, user, ProjectClaimed(f, seen, k + 1), k + 1)
  BY <1>9, <1>10, <1>11, ProjectionMirrors
<1>13. fact' = ProjectClaimed(f, seen, k + 1) BY <1>2, <1>5, <1>6, <1>7, <1>8 DEF Commit
<1>14. Mirrors(log', user', fact', k + 1) BY <1>2, <1>12, <1>13
<1>15. processed' = 1 .. k + 1
  <2>1. processed' = processed \cup {k + 1} BY <1>2, <1>5, <1>6 DEF Commit
  <2>2. processed = 1 .. k BY <1>4 DEF ReplayedUpTo
  <2>3. QED BY <2>1, <2>2
<1>16. ~Busy("rebuild")'
  <2>1. "rebuild" \in Projectors BY WhoProjects
  <2>2. project \in [Projectors -> Projection] BY DEF IInv, TypeOK
  <2>3. project' = [project EXCEPT !["rebuild"] = Idle] BY <1>2 DEF Commit
  <2>4. project'["rebuild"] = Idle BY <2>1, <2>2, <2>3
  <2>5. QED BY <2>4, EmptyTables DEF Busy
<1>17. rebuild.stage = "REPLAYING" BY <1>2 DEF IInv, NothingSkipped
<1>18. \A i \in DOMAIN rebuild.queue : rebuild.queue[i] = (k + 1) + i + 0
  <2>1. \A i \in DOMAIN rebuild.queue : rebuild.queue[i] = k + i + 1
    BY <1>2, <1>4, <1>17 DEF ReplayedUpTo
  <2>2. DOMAIN rebuild.queue \subseteq Nat BY DEF IInv, TypeOK
  <2>3. QED BY <2>1, <2>2
<1>19. k + 1 <= Len(log') BY <1>2, <1>6, <1>9 DEF Positions
<1>20. ReplayedUpTo(k + 1)' BY <1>2, <1>14, <1>15, <1>16, <1>17, <1>18, <1>19 DEF ReplayedUpTo
<1>21. k + 1 \in Nat OBVIOUS
<1>22. QED BY <1>20, <1>21

\* The replay ends with what it was given.
LEMMA EndRebuildReplayed ==
  ASSUME IInv, ReplayedInOrder, EndRebuild
  PROVE  ReplayedInOrder'
<1>1. SUFFICES ASSUME Undisturbed' PROVE \E k \in Nat : ReplayedUpTo(k)' BY DEF ReplayedInOrder
<1>2. /\ log' = log /\ user' = user /\ project' = project /\ processed' = processed /\ fact' = fact
      /\ alone' = alone /\ rebuild.stage = "REPLAYING" /\ ~Busy("rebuild")
  BY DEF EndRebuild, product
<1>3. Undisturbed BY <1>1, <1>2 DEF Undisturbed
<1>4. PICK k \in Nat : ReplayedUpTo(k) BY <1>3 DEF ReplayedInOrder
<1>5. rebuild'.stage = "DONE"
  <2>1. PICK r \in [stage : {"NONE", "EMPTIED", "REPLAYING", "DONE", "ERROR"}, queue : Seq(Nat)] :
          r = rebuild
    BY DEF IInv, TypeOK
  <2>2. rebuild' = [r EXCEPT !.stage = "DONE"] BY <2>1 DEF EndRebuild
  <2>3. QED BY <2>1, <2>2
<1>6. ~Busy("rebuild")' BY <1>2 DEF Busy
<1>7. ReplayedUpTo(k)' BY <1>2, <1>4, <1>5, <1>6 DEF ReplayedUpTo
<1>8. QED BY <1>7

\* Each step, from what the outbox tells and what the tables hold of it.
LEMMA ReplayedInOrderStep ==
  ASSUME AnalyticsAssumption, IInv, ProductTold, ReplayedInOrder, [Next]_vars
  PROVE  ProductTold' /\ ReplayedInOrder'
<1>1. ProductTold' /\ Extends(log, log') BY ProductToldStep DEF IInv
<1>2. CASE Product
  <2>1. UNCHANGED <<processed, fact, project, rebuild, alone>>
    BY <1>2 DEF Product, CreateRoom, ApplyToRoom, AcceptApplication, CompleteRoom, ClaimGuest,
                MarkAttendance, AppendOutboxEvents
  <2>2. \/ user' = user
        \/ \E p \in Participants, u \in Claimers : user[p] = Nil /\ user' = [user EXCEPT ![p] = u]
    BY <1>2 DEF Product, CreateRoom, ApplyToRoom, AcceptApplication, CompleteRoom, ClaimGuest,
                MarkAttendance
  <2>3. QED BY <1>1, <2>1, <2>2, ProductReplayed
<1>3. CASE \E w \in Passes : Worker(w) BY <1>1, <1>3, WorkerReplayed
<1>4. CASE Truncate BY <1>1, <1>4, TruncateReplayed
<1>5. CASE SelectEvents BY <1>1, <1>5, SelectEventsReplayed
<1>6. CASE Replay BY <1>1, <1>6, ReplayReplayed
<1>7. CASE ReplayCommits BY <1>1, <1>7, ReplayCommitsReplayed
<1>8. CASE EndRebuild BY <1>1, <1>8, EndRebuildReplayed
<1>9. CASE RebuildFails
  <2>1. rebuild'.stage = "ERROR" BY <1>9 DEF RebuildFails
  <2>2. ReplayedInOrder' BY <2>1 DEF ReplayedInOrder, Undisturbed
  <2>3. QED BY <1>1, <2>2
<1>10. CASE UNCHANGED vars
  <2>1. UNCHANGED <<processed, fact, project, rebuild, alone>> /\ user' = user
    BY <1>10 DEF vars, product
  <2>2. QED BY <1>1, <2>1, ProductReplayed
<1>11. QED BY <1>2, <1>3, <1>4, <1>5, <1>6, <1>7, <1>8, <1>9, <1>10 DEF Next, Rebuild

\* Nothing has been told and nothing replayed.
LEMMA NothingReplayed == ASSUME AnalyticsAssumption, Init PROVE ProductTold /\ ReplayedInOrder
<1>1. log = <<>> /\ DOMAIN log = {} /\ Len(log) = 0 /\ 1 .. Len(log) = {} BY DEF Init
<1>2. ~Seated(stage) /\ stage # "COMPLETED" BY DEF Init, Seated
<1>3. EventsTold(log, user) BY <1>1 DEF EventsTold
<1>4. PlacesTold(stage, log) BY <1>1, <1>2 DEF PlacesTold
<1>5. AttendanceTold(stage, attendance, log) BY <1>1, <1>2 DEF Init, AttendanceTold, Leaves
<1>6. CompletionTold(stage, log) BY <1>1, <1>2 DEF CompletionTold
<1>7. ReplayedInOrder BY DEF Init, ReplayedInOrder, Undisturbed
<1>8. QED BY <1>3, <1>4, <1>5, <1>6, <1>7 DEF ProductTold, OutboxTells

\* Both hold in every reachable state.
LEMMA ReplayInvariance == Spec => [](IInv /\ ProductTold /\ ReplayedInOrder)
<1>1. Init => IInv /\ ProductTold /\ ReplayedInOrder
  BY InitialState, NothingReplayed, AnalyticsAssumption
<1>2. IInv /\ ProductTold /\ ReplayedInOrder /\ [Next]_vars
        => (IInv /\ ProductTold /\ ReplayedInOrder)'
  BY EveryStep, ReplayedInOrderStep, AnalyticsAssumption
<1>3. QED BY <1>1, <1>2, PTL DEF Spec

\* Tables that hold the whole outbox of a completed room count whoever the
\* outbox says was present.
LEMMA WholeOutboxTells ==
  ASSUME AnalyticsAssumption, IInv, ProductTold, ReplayedInOrder
  PROVE  RebuildRestoresTheTruth
<1>1. SUFFICES ASSUME rebuild.stage = "DONE", alone, stage = "COMPLETED",
                      processed = Positions
               PROVE  DOMAIN fact.played =
                        {user[p] : p \in {q \in Participants : attendance[q] = "PRESENT" /\ Told(q)}}
                          \ {Nil}
  BY DEF RebuildRestoresTheTruth
<1>2. log \in Seq(EventRow) /\ fact \in Facts BY DEF IInv, TypeOK
<1>3. PICK k \in Nat : ReplayedUpTo(k) BY <1>1 DEF ReplayedInOrder, Undisturbed
<1>4. Positions = 1 .. k /\ Mirrors(log, user, fact, k) BY <1>1, <1>3 DEF ReplayedUpTo
<1>5. k = Len(log) BY <1>2, <1>3, <1>4 DEF Positions, ReplayedUpTo
<1>6. fact.completed # 0 /\ DOMAIN fact.played = PresentUsers(fact)
  <2>1. PICK e \in Positions : log[e].type = "ROOM_COMPLETED"
    BY <1>1 DEF ProductTold, OutboxTells, CompletionTold, Positions
  <2>2. fact.completed # 0 BY <1>4, <2>1 DEF Mirrors
  <2>3. QED BY <1>4, <2>2 DEF Mirrors
<1>7. ASSUME NEW p \in DOMAIN fact.participant
      PROVE  /\ p \in Participants /\ fact.participant[p].attendance = attendance[p]
             /\ fact.participant[p].user = IF Told(p) THEN user[p] ELSE Nil
  <2>1. p \in Participants /\ fact.participant[p].attendance \in Attendance
    BY <1>2, <1>7, PlaceFields
  <2>2. Leaves(log, Len(log), p, fact.participant[p].attendance) BY <1>4, <1>5, <1>7 DEF Mirrors
  <2>3. fact.participant[p].attendance = attendance[p]
    BY <2>1, <2>2 DEF ProductTold, OutboxTells, AttendanceTold
  <2>4. Names(log, k, p, user[p]) <=> Told(p) BY <1>4 DEF Names, Told
  <2>5. QED BY <1>4, <1>7, <2>1, <2>3, <2>4 DEF Mirrors
<1>8. ASSUME NEW p \in Participants, Told(p) PROVE p \in DOMAIN fact.participant
  BY <1>4, <1>8 DEF Mirrors, Told
<1>9. PresentUsers(fact) =
        {user[p] : p \in {q \in Participants : attendance[q] = "PRESENT" /\ Told(q)}} \ {Nil}
  BY <1>7, <1>8 DEF PresentUsers
<1>10. QED BY <1>6, <1>9

\* A rebuild no pass has disturbed restores whose participations were
\* completed, for any number of places, marks, corrections and rebuilds.
THEOREM RebuildRestores == Spec => []RebuildRestoresTheTruth
<1>1. IInv /\ ProductTold /\ ReplayedInOrder => RebuildRestoresTheTruth
  BY WholeOutboxTells, AnalyticsAssumption
<1>2. QED BY <1>1, ReplayInvariance, PTL

=============================================================================
