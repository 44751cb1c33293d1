----------------------------- MODULE Analytics -----------------------------
(***************************************************************************)
(* The analytics consumer of the outbox and its rebuild by hand.  Each     *)
(* event is projected into the derived tables in one transaction that also *)
(* marks it processed.  The outbox hands events over as EventDelivery      *)
(* promises: again until acknowledged, one handler at a time, not in       *)
(* order.  A timer starts passes over the outbox without waiting for the   *)
(* ones before, so several project at once, each another event.  A         *)
(* rebuild, in a process of its own, empties the tables in a first         *)
(* transaction and replays the whole outbox, oldest event first, while     *)
(* the passes go on.                                                       *)
(*                                                                         *)
(* The product is one room with one application, in outline: what it       *)
(* appends to the outbox.  A transaction reads what is committed when it   *)
(* begins and writes when it commits; rows both write make the second one  *)
(* wait.  Times of events are their positions in the outbox.               *)
(***************************************************************************)
EXTENDS Naturals, Sequences, FiniteSets, SequencesExt

CONSTANTS
  Passes,         \* passes over the outbox that may be under way at once
  Users,
  Host, Requester, \* who runs the room and who applies to it
  Participants,   \* places of the room
  Seatings,       \* who may take the places; Nil for a guest nobody has claimed
  Claimers,       \* users who may claim the guests
  MaxMarks,       \* bound: attendance marks and corrections
  MaxOvertaken,   \* bound: older events that are not settled when a pass takes one
  MaxRebuilds,    \* bound: rebuilds an operator runs
  MaxAtWork,      \* bound: projectors at work when a pass takes an event, its own included
  Nil             \* no user, no transaction

ASSUME AnalyticsAssumption ==
  /\ Seatings \subseteq [Participants -> Users \cup {Nil}] /\ Claimers \subseteq Users
  /\ "rebuild" \notin Passes
  /\ {Host, Requester} \subseteq Users /\ Nil \notin Users \cup Participants
  /\ IsFiniteSet(Participants)
  /\ MaxMarks \in Nat /\ MaxOvertaken \in Nat /\ MaxRebuilds \in Nat
  /\ MaxAtWork \in Nat

VARIABLES
  stage,       \* how far the room is
  user,        \* room_participants.user_id
  attendance,  \* room_participants.attendance_status
  log,         \* event_outbox, in the order the events occurred
  published,   \* events the outbox has marked PUBLISHED
  returned,    \* by pass: the event it has handled and not yet acknowledged, or 0
  processed,   \* analytics_processed_events
  fact,        \* the fact tables of the projection
  project,     \* the open projection of each pass and of the rebuild
  rebuild,     \* how far the rebuild is and what it has yet to replay
  alone,       \* history: no pass has projected since the tables were last emptied
  crossed,     \* history: a completion and a mark of presence were open at once since then
  marks, rebuilds

product == <<stage, user, attendance, log>>
bounds == <<marks, rebuilds>>
vars == <<product, published, returned, processed, fact, project, rebuild, alone, crossed, bounds>>

Positions == DOMAIN log

-----------------------------------------------------------------------------
(* The product: what appends the events that are projected. *)

Event(type, p, u, status) == [type |-> type, participant |-> p, user |-> u, attendance |-> status]
RoomEvent(type) == Event(type, Nil, Nil, "NOT_SET")

AppendOutboxEvents(events) ==
  /\ log' = log \o events
  /\ UNCHANGED <<published, returned, processed, fact, project, rebuild, alone, crossed, rebuilds>>

CreateRoom ==
  /\ stage = "NONE" /\ stage' = "OPEN"
  /\ AppendOutboxEvents(<<RoomEvent("ROOM_CREATED")>>)
  /\ UNCHANGED <<user, attendance, marks>>

ApplyToRoom ==
  /\ stage = "OPEN" /\ stage' = "APPLIED"
  /\ AppendOutboxEvents(<<Event("JOIN_REQUEST_CREATED", Nil, Requester, "NOT_SET")>>)
  /\ UNCHANGED <<user, attendance, marks>>

AcceptApplication ==
  /\ stage = "APPLIED" /\ stage' = "SEATED"
  /\ AppendOutboxEvents(<<RoomEvent("JOIN_REQUEST_ACCEPTED")>>
       \o [i \in DOMAIN SetToSeq(Participants) |->
             LET p == SetToSeq(Participants)[i] IN
               Event("PARTICIPANT_CREATED", p, user[p], "NOT_SET")])
  /\ UNCHANGED <<user, attendance, marks>>

ClaimGuest(p, u) ==
  /\ stage = "SEATED" /\ user[p] = Nil /\ \A q \in Participants : user[q] # u
  /\ user' = [user EXCEPT ![p] = u]
  /\ UNCHANGED <<stage, attendance, log, published, returned, processed, fact, project, rebuild, alone, crossed, bounds>>

\* The room is in progress by then.
MarkAttendance(p, status) ==
  /\ stage = "SEATED" /\ attendance[p] # status /\ marks < MaxMarks
  /\ attendance' = [attendance EXCEPT ![p] = status]
  /\ LET type == IF status = "PRESENT" THEN "PLAYER_MARKED_PRESENT" ELSE "PLAYER_NO_SHOW" IN
     AppendOutboxEvents(<<Event(type, p, user[p], status)>>
       \o (IF attendance[p] = "NOT_SET" THEN <<>>
           ELSE <<Event("ATTENDANCE_CORRECTED", p, user[p], status)>>))
  /\ marks' = marks + 1
  /\ UNCHANGED <<stage, user>>

CompleteRoom ==
  /\ stage = "SEATED" /\ \A p \in Participants : attendance[p] # "NOT_SET"
  /\ stage' = "COMPLETED"
  /\ AppendOutboxEvents(<<RoomEvent("ROOM_COMPLETED")>>)
  /\ UNCHANGED <<user, attendance, marks>>

-----------------------------------------------------------------------------
(* Facts.  Zero stands for a column that is NULL. *)

NoFacts ==
  [active |-> <<>>,        \* by user, when first and last seen to be active
   created |-> 0, firstApplication |-> 0, completed |-> 0, completedSource |-> 0,
   application |-> FALSE, accepted |-> 0, acceptedSource |-> 0,
   participant |-> <<>>,   \* by participant, once PARTICIPANT_CREATED is projected
   played |-> <<>>]        \* completed participations: the source event by user

Coalesce(a, b) == IF a = 0 THEN b ELSE a
KnownUser(a, b) == IF a = Nil THEN b ELSE a

With(f, x, value) == [y \in DOMAIN f \cup {x} |-> IF y = x THEN value ELSE f[y]]

TouchActiveUsers(f, users, e) ==
  [f EXCEPT !.active =
     [u \in DOMAIN f.active \cup users |->
        IF u \notin users THEN f.active[u]
        ELSE IF u \notin DOMAIN f.active THEN [first |-> e, last |-> e]
        ELSE [first |-> Min({f.active[u].first, e}), last |-> Max({f.active[u].last, e})]]]

InsertCompletedParticipations(f, users, source) ==
  [f EXCEPT !.played =
     [u \in DOMAIN f.played \cup users |->
        IF u \notin users THEN f.played[u]
        ELSE IF u \in DOMAIN f.played THEN Coalesce(f.played[u], source) ELSE source]]

ProjectRoomCreated(f, e) == [f EXCEPT !.created = Coalesce(f.created, e)]

ProjectJoinCreated(f, e) ==
  [f EXCEPT !.application = TRUE, !.firstApplication = Coalesce(f.firstApplication, e)]

ProjectJoinAccepted(f, seen, e) ==
  IF ~seen.application THEN f
  ELSE [f EXCEPT !.accepted = Coalesce(f.accepted, e),
                 !.acceptedSource = Coalesce(f.acceptedSource, e)]

ProjectParticipantCreated(f, p, u) ==
  [f EXCEPT !.participant =
     With(f.participant, p,
          IF p \in DOMAIN f.participant
          THEN [f.participant[p] EXCEPT !.user = KnownUser(f.participant[p].user, u)]
          ELSE [user |-> u, attendance |-> "NOT_SET"])]

\* Mutant: a late mark does not look whether the room is completed.
MarkOnly(f, seen, p, u, status) ==
  IF p \notin DOMAIN seen.participant THEN f
  ELSE [f EXCEPT !.participant[p] =
                   [user |-> KnownUser(f.participant[p].user, u), attendance |-> status]]

Player(seen, p, u) ==
  IF p \in DOMAIN seen.participant THEN KnownUser(seen.participant[p].user, u) ELSE u

ProjectAttendance(f, seen, p, u, status) ==
  LET player == Player(seen, p, u)
      marked == IF p \in DOMAIN seen.participant
                THEN [f EXCEPT !.participant[p] = [user |-> player, attendance |-> status]]
                ELSE f
  IN IF status = "PRESENT" /\ player # Nil /\ seen.completed # 0
     THEN InsertCompletedParticipations(marked, {player}, seen.completedSource)
     ELSE marked

PresentUsers(f) ==
  {f.participant[p].user : p \in {q \in DOMAIN f.participant : f.participant[q].attendance = "PRESENT"}}
    \ {Nil}

\* Mutant: the room's fact does not keep the event that completed it.
CompleteUnsourced(f, seen, e) ==
  InsertCompletedParticipations([f EXCEPT !.completed = Coalesce(f.completed, e)], PresentUsers(seen), e)

ProjectRoomCompleted(f, seen, e) ==
  InsertCompletedParticipations(
    [f EXCEPT !.completed = Coalesce(f.completed, e),
              !.completedSource = Coalesce(f.completedSource, e)],
    PresentUsers(seen), e)

\* The user an event is about, or else the host, who appended it.
Actor(ev) == IF ev.user = Nil THEN Host ELSE ev.user

\* The activities that make their actor an active user.
ActiveActors(ev) ==
  IF ev.type \in {"JOIN_REQUEST_CREATED", "JOIN_REQUEST_ACCEPTED", "PARTICIPANT_CREATED",
                 "PLAYER_MARKED_PRESENT"}
  THEN {Actor(ev)} ELSE {}

\* Whoever the event's own projection takes for active.
Concerned(ev, seen) ==
  IF ev.type = "JOIN_REQUEST_ACCEPTED" THEN {Requester}
  ELSE IF ev.attendance = "PRESENT" THEN {Player(seen, ev.participant, ev.user)} \ {Nil}
  ELSE {}

ProjectEvent(f, seen, e) ==
  LET ev == log[e] IN
  CASE ev.type = "ROOM_CREATED" -> ProjectRoomCreated(f, e)
    [] ev.type = "JOIN_REQUEST_CREATED" -> ProjectJoinCreated(f, e)
    [] ev.type = "JOIN_REQUEST_ACCEPTED" -> ProjectJoinAccepted(f, seen, e)
    [] ev.type = "PARTICIPANT_CREATED" -> ProjectParticipantCreated(f, ev.participant, ev.user)
    [] ev.type = "ROOM_COMPLETED" -> ProjectRoomCompleted(f, seen, e)
    [] OTHER -> ProjectAttendance(f, seen, ev.participant, ev.user, ev.attendance)

ProjectClaimed(f, seen, e) ==
  ProjectEvent(TouchActiveUsers(f, ActiveActors(log[e]) \cup Concerned(log[e], seen), e), seen, e)

\* The rows whose locks a projection holds until it ends.
Written(t) ==
  LET ev == log[t.event] IN
  ActiveActors(ev) \cup Concerned(ev, t.seen) \cup
  CASE ev.type \in {"ROOM_CREATED", "ROOM_COMPLETED"} -> {"room"}
    [] ev.type = "JOIN_REQUEST_CREATED" -> {"room", "application"}
    [] ev.type = "JOIN_REQUEST_ACCEPTED" -> IF t.seen.application THEN {"application"} ELSE {}
    [] ev.type = "PARTICIPANT_CREATED" -> {ev.participant}
    [] OTHER -> {ev.participant} \cap DOMAIN t.seen.participant

-----------------------------------------------------------------------------
(* Projections. *)

Projectors == Passes \cup {"rebuild"}
Busy(w) == project[w].event # 0
Idle == [event |-> 0, seen |-> NoFacts]

Rebuilding == rebuild.stage \in {"EMPTIED", "REPLAYING"}

MarkTypes == {"PLAYER_MARKED_PRESENT", "PLAYER_NO_SHOW", "ATTENDANCE_CORRECTED"}

\* What the projection of an event looks up of what others have stored in f.
Read(f, ev) ==
  CASE ev.type = "JOIN_REQUEST_ACCEPTED" -> [NoFacts EXCEPT !.application = f.application]
    [] ev.type = "ROOM_COMPLETED"        -> [NoFacts EXCEPT !.participant = f.participant]
    [] ev.type \in MarkTypes             -> [NoFacts EXCEPT !.participant = f.participant,
                                               !.completed = f.completed,
                                               !.completedSource = f.completedSource]
    [] OTHER                             -> NoFacts

\* Each of the two looks for the row the other one writes.
Crosses(c, d) ==
  \/ c.type = "ROOM_COMPLETED" /\ d.attendance = "PRESENT"
  \/ d.type = "ROOM_COMPLETED" /\ c.attendance = "PRESENT"

\* A projection of an event already processed ends here: ON CONFLICT DO NOTHING.
Begin(w, e) ==
  LET t == [event |-> e, seen |-> Read(fact, log[e])]
      open == {v \in Projectors : Busy(v)}
  IN  /\ w \notin open /\ e \notin processed
      /\ \A v \in open : project[v].event # e /\ Written(t) \cap Written(project[v]) = {}
      /\ project' = [project EXCEPT ![w] = t]
      /\ crossed' = (crossed \/ \E v \in open : Crosses(log[e], log[project[v].event]))

\* Some pass has claimed the event, and its status keeps the others from it.
InHand(e) == \E w \in Passes : project[w].event = e \/ returned[w] = e

\* Passes with an event in hand, and a rebuild from its beginning to its end.
AtWork ==
  {w \in Passes : Busy(w) \/ returned[w] # 0} \cup (IF Rebuilding THEN {"rebuild"} ELSE {})

WorkerTakes(w, e) ==
  /\ ~Busy(w) /\ returned[w] = 0 /\ e \notin published /\ ~InHand(e)
  /\ Cardinality({d \in Positions \ published : d < e}) <= MaxOvertaken
  /\ Cardinality(AtWork) < MaxAtWork
  /\ \/ /\ Begin(w, e)
        /\ alone' = FALSE
        /\ UNCHANGED returned
     \/ /\ e \in processed
        /\ returned' = [returned EXCEPT ![w] = e]
        /\ UNCHANGED <<project, alone, crossed>>
  /\ UNCHANGED <<product, published, processed, fact, rebuild, bounds>>

Commit(w) ==
  LET t == project[w] IN
  /\ Busy(w)
  /\ processed' = processed \cup {t.event}
  /\ fact' = ProjectClaimed(fact, t.seen, t.event)
  /\ project' = [project EXCEPT ![w] = Idle]

WorkerCommits(w) ==
  /\ Commit(w)
  /\ returned' = [returned EXCEPT ![w] = project[w].event]
  /\ UNCHANGED <<product, published, rebuild, alone, crossed, bounds>>

\* The transaction rolls back, or its event is not acknowledged: the outbox
\* hands the event over again.
WorkerFails(w) ==
  /\ Busy(w) \/ returned[w] # 0
  /\ project' = [project EXCEPT ![w] = Idle]
  /\ returned' = [returned EXCEPT ![w] = 0]
  /\ UNCHANGED <<product, published, processed, fact, rebuild, alone, crossed, bounds>>

\* The consumers have returned and the outbox marks the event PUBLISHED.
Acknowledge(w) ==
  /\ returned[w] # 0
  /\ published' = published \cup {returned[w]}
  /\ returned' = [returned EXCEPT ![w] = 0]
  /\ UNCHANGED <<product, processed, fact, project, rebuild, alone, crossed, bounds>>

-----------------------------------------------------------------------------
(* The rebuild. *)

\* TRUNCATE waits for whoever uses the tables.
Truncate ==
  /\ ~Rebuilding /\ rebuilds < MaxRebuilds /\ \A w \in Passes : ~Busy(w)
  /\ processed' = {} /\ fact' = NoFacts
  /\ rebuild' = [stage |-> "EMPTIED", queue |-> <<>>]
  /\ alone' = TRUE /\ crossed' = FALSE
  /\ rebuilds' = rebuilds + 1
  /\ UNCHANGED <<product, published, returned, project, marks>>

\* Mutants: only what the outbox has published; newest first.
PublishedEvents == SelectSeq([e \in Positions |-> e], LAMBDA e : e \in published)
NewestFirst == Reverse([e \in Positions |-> e])

OutboxEvents == [e \in Positions |-> e]

SelectEvents ==
  /\ rebuild.stage = "EMPTIED"
  /\ rebuild' = [stage |-> "REPLAYING", queue |-> OutboxEvents]
  /\ UNCHANGED <<product, published, returned, processed, fact, project, alone, crossed, bounds>>

Replay ==
  /\ rebuild.stage = "REPLAYING" /\ rebuild.queue # <<>> /\ ~Busy("rebuild")
  /\ \/ Head(rebuild.queue) \in processed /\ UNCHANGED <<project, crossed>>
     \/ Begin("rebuild", Head(rebuild.queue))
  /\ rebuild' = [rebuild EXCEPT !.queue = Tail(rebuild.queue)]
  /\ UNCHANGED <<product, published, returned, processed, fact, alone, bounds>>

ReplayCommits ==
  /\ Commit("rebuild")
  /\ UNCHANGED <<product, published, returned, rebuild, alone, crossed, bounds>>

EndRebuild ==
  /\ rebuild.stage = "REPLAYING" /\ rebuild.queue = <<>> /\ ~Busy("rebuild")
  /\ rebuild' = [rebuild EXCEPT !.stage = "DONE"]
  /\ UNCHANGED <<product, published, returned, processed, fact, project, alone, crossed, bounds>>

\* An error ends the replay, and so does the end of its process.
RebuildFails ==
  /\ Rebuilding
  /\ rebuild' = [stage |-> "ERROR", queue |-> <<>>]
  /\ project' = [project EXCEPT !["rebuild"] = Idle]
  /\ UNCHANGED <<product, published, returned, processed, fact, alone, crossed, bounds>>

-----------------------------------------------------------------------------
Init ==
  /\ stage = "NONE" /\ user \in Seatings
  /\ attendance = [p \in Participants |-> "NOT_SET"]
  /\ log = <<>> /\ published = {} /\ returned = [w \in Passes |-> 0] /\ processed = {} /\ fact = NoFacts
  /\ project = [w \in Projectors |-> Idle]
  /\ rebuild = [stage |-> "NONE", queue |-> <<>>]
  /\ alone = FALSE /\ crossed = FALSE
  /\ marks = 0 /\ rebuilds = 0

Product ==
  \/ CreateRoom \/ ApplyToRoom \/ AcceptApplication \/ CompleteRoom
  \/ \E p \in Participants, u \in Claimers : ClaimGuest(p, u)
  \/ \E p \in Participants, status \in {"PRESENT", "NO_SHOW"} : MarkAttendance(p, status)

Worker(w) ==
  \/ \E e \in Positions : WorkerTakes(w, e)
  \/ WorkerCommits(w) \/ WorkerFails(w) \/ Acknowledge(w)

Rebuild == Truncate \/ SelectEvents \/ Replay \/ ReplayCommits \/ EndRebuild \/ RebuildFails

Next == Product \/ (\E w \in Passes : Worker(w)) \/ Rebuild

Spec == Init /\ [][Next]_vars

-----------------------------------------------------------------------------
(* Properties. *)

Shown(e) ==
  LET ev == log[e] IN
  /\ ev.type = "JOIN_REQUEST_CREATED" => fact.application
  /\ ev.type = "PARTICIPANT_CREATED" => ev.participant \in DOMAIN fact.participant
  /\ ev.type = "ROOM_COMPLETED" => fact.completed # 0
  /\ \A u \in ActiveActors(ev) :
       u \in DOMAIN fact.active /\ fact.active[u].first <= e /\ e <= fact.active[u].last

(* What the outbox has published is in the projection, whatever the order,   *)
(* the failures and the rebuilds: nothing hands a published event over       *)
(* again.  A rebuild that stops on its way leaves the tables without it.     *)
HandledEventsAreProjected ==
  ~Rebuilding /\ rebuild.stage # "ERROR" => \A e \in published : e \in processed /\ Shown(e)

(* However late the mark or the completion arrives, a player recorded as     *)
(* present in a completed room has the completed participation the           *)
(* retention figures count, whatever passes and a replay project beside it.  *)
(* Only a completion and a mark of presence that are open at the same time,  *)
(* in two passes or in a pass and a replay, each miss what the other writes. *)
PresenceIsCounted ==
  fact.completed # 0 /\ ~crossed => PresentUsers(fact) \subseteq DOMAIN fact.played

\* Whether any event of the outbox tells who has the place now.
Told(p) == \E e \in Positions : log[e].participant = p /\ log[e].user = user[p]

(* A rebuild no pass has disturbed gives a completed participation to the    *)
(* players who were present in the completed room and to nobody else,        *)
(* whatever corrections were made and whatever the passes had made of them;  *)
(* only somebody who claimed a place after its last mark is missing, since   *)
(* no event tells.                                                           *)
RebuildRestoresTheTruth ==
  rebuild.stage = "DONE" /\ alone /\ stage = "COMPLETED" /\ processed = Positions
    => DOMAIN fact.played =
         {user[p] : p \in {q \in Participants : attendance[q] = "PRESENT" /\ Told(q)}} \ {Nil}

\* What validateProjection looks for.
CompletedWithoutSource ==
  {u \in DOMAIN fact.played :
     ~ (fact.played[u] \in Positions /\ log[fact.played[u]].type = "ROOM_COMPLETED")}

AcceptedWithoutSource ==
  fact.accepted # 0 /\
    ~ (fact.acceptedSource \in Positions /\ log[fact.acceptedSource].type = "JOIN_REQUEST_ACCEPTED")

(* validateProjection finds nothing: each completed participation names the  *)
(* ROOM_COMPLETED event it comes from and each accepted application the      *)
(* JOIN_REQUEST_ACCEPTED event, in any order of delivery and in the middle   *)
(* of a rebuild.                                                             *)
ValidationFindsNothing == CompletedWithoutSource = {} /\ ~AcceptedWithoutSource

=============================================================================
