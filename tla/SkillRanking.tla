---------------------------- MODULE SkillRanking ----------------------------
(***************************************************************************)
(* How a HOST's ratings become a player's score and rank.  While a room is *)
(* in progress its HOST rates the players who are present, if he outranks  *)
(* them; the room completes when nobody he may rate is left.  A player's   *)
(* first ratings are averaged without their extremes into a first rank;    *)
(* from then on the score is a weighted mean of the latest ones, each      *)
(* drawn towards the score it found, and the tier follows the score with   *)
(* buffers and a cool-down.                                                *)
(*                                                                         *)
(* One sport.  Scores and ratings are in hundredths, as the database       *)
(* rounds them.  A submission locks the room, the seat and both profiles   *)
(* until it commits, so it is one action.                                  *)
(***************************************************************************)
EXTENDS Integers, FiniteSets, Sequences, SequencesExt, FiniteSetsExt

CONSTANTS
  Users, Guests, Rooms,
  HostOf,                 \* the user who hosts each room
  SeatedIn,               \* the persons accepted into each room
  InitialProfile,         \* profiles to begin with, ranked players among them
  InitialRatings,         \* and the ratings they come from
  Claimers,               \* users who may claim a guest's identity
  Values,                 \* ratings hosts give
  CalibrationRequired,    \* ratings before a first rank
  CalibrationHostMinScore,\* the score above which a host may calibrate others
  RollingWindow,          \* latest ratings the score is made of
  Newest, NextNewest,     \* where the weights fall off
  Tiers, MinScore,        \* the tiers and the score each begins at
  Buffer,                 \* how far past its boundary a score moves the tier
  OutlierCap,             \* how far from the score a rating counts at most
  MinSinceChange,         \* ratings after a change of tier before the next
  Nil                     \* no score, no tier, no user

Persons == Users \cup Guests

\* A state "NONE" is a user without a row for the sport.
NoProfile == [state |-> "NONE", score |-> Nil, tier |-> Nil, valid |-> 0, raters |-> 0,
              matches |-> 0, changedAt |-> 0]

Unranked == [NoProfile EXCEPT !.state = "UNRANKED"]

Top == 10

ASSUME SkillAssumption ==
  /\ IsFiniteSet(Persons) /\ IsFiniteSet(Rooms) /\ Users \cap Guests = {} /\ Nil \notin Persons
  /\ HostOf \in [Rooms -> Users] /\ SeatedIn \in [Rooms -> SUBSET Persons]
  /\ \A r \in Rooms : HostOf[r] \notin SeatedIn[r]
  /\ Claimers \subseteq Users
  /\ Values \subseteq {50 * k : k \in 2..20}
  /\ Tiers \subseteq 1..Top /\ Tiers # {} /\ MinScore \in [Tiers -> 0..1000] /\ Nil \notin Int
  /\ \A t, u \in Tiers : t < u => MinScore[t] < MinScore[u]
  /\ CalibrationRequired \in Nat \ {0} /\ RollingWindow \in Nat \ {0}
  /\ Newest \in Nat /\ NextNewest \in Nat /\ Buffer \in Nat
  /\ OutlierCap \in Nat /\ MinSinceChange \in Nat /\ CalibrationHostMinScore \in Nat

VARIABLES
  room,      \* status of each room
  seat,      \* attendance of each person in each room, "NONE" without a seat
  claimedBy, \* the user who claimed a guest's identity
  profile,   \* user_sport_profiles
  ratings,   \* skill_ratings of each user, oldest first
  events     \* what the outbox says of each user's rank

vars == <<room, seat, claimedBy, profile, ratings, events>>

-----------------------------------------------------------------------------
(* Scores. *)

RoundScore(total, weight) == (2 * total + weight) \div (2 * weight)

SumOf(s) == FoldLeft(LAMBDA a, b : a + b, 0, s)

\* Mutant: the extremes still count in the divisor.
WrongDivisor(s) == RoundScore(SumOf(s) - Min(Range(s)) - Max(Range(s)), Len(s))

CalculateTrimmedMean(s) ==
  IF Len(s) < 3 THEN RoundScore(SumOf(s), Len(s))
  ELSE RoundScore(SumOf(s) - Min(Range(s)) - Max(Range(s)), Len(s) - 2)

RecencyWeight(position) ==
  IF position <= Newest THEN 100 ELSE IF position <= NextNewest THEN 85 ELSE 70

CalculateRollingWeightedScore(list) ==
  LET latest == Reverse(list)
      n      == Min({Len(list), RollingWindow})
      value  == [i \in 1..n |-> latest[i].effective * RecencyWeight(i)]
  IN  RoundScore(SumOf(value), SumOf([i \in 1..n |-> RecencyWeight(i)]))

\* A rating counts at most OutlierCap away from the score it found.
EffectiveRatingForScore(raw, prior) ==
  IF prior = Nil THEN raw ELSE Max({prior - OutlierCap, Min({prior + OutlierCap, raw})})

MapScoreToTier(score) ==
  LET reached == {t \in Tiers : score >= MinScore[t]}
  IN  IF reached = {} THEN Min(Tiers) ELSE Max(reached)

\* Mutant: the tier is the score's, at once.
Uncooled(before, score) == MapScoreToTier(score)

\* The count is the one before this rating.
EvaluateTierTransition(before, score) ==
  LET candidate == MapScoreToTier(score)
  IN  IF /\ before.valid - before.changedAt >= MinSinceChange
         /\ \/ candidate > before.tier /\ score >= MinScore[candidate] + Buffer
            \/ candidate < before.tier /\ score < MinScore[before.tier] - Buffer
      THEN candidate ELSE before.tier

StateOfTier(tier) == IF tier = Top THEN "TOP_TIER_LOCKED" ELSE "RANKED"

Calibrating(prof) == prof.state \in {"UNRANKED", "CALIBRATING"}

\* Mutant: rooms are counted instead of hosts.
RatingRooms(list) == Cardinality({list[i].room : i \in DOMAIN list})

Raters(list) == Cardinality({list[i].rater : i \in DOMAIN list})

\* Profile before, when list are the ratings with the new one.
RecomputeProjection(before, list) ==
  LET base  == [before EXCEPT !.valid = Len(list), !.raters = Raters(list)]
      first == [i \in 1..CalibrationRequired |-> list[i].raw]
      score == IF Calibrating(before) THEN CalculateTrimmedMean(first)
               ELSE CalculateRollingWeightedScore(list)
      tier  == IF Calibrating(before) THEN MapScoreToTier(score)
               ELSE EvaluateTierTransition(before, score)
  IN  IF Len(list) < CalibrationRequired
      THEN [base EXCEPT !.state = "CALIBRATING", !.score = Nil, !.tier = Nil]
      ELSE [base EXCEPT !.state = StateOfTier(tier), !.score = score, !.tier = tier,
                        !.changedAt = IF tier # before.tier THEN Len(list) ELSE before.changedAt]

\* Mutant: only a player's very first rating can publish a rank.
WasUnranked(before, after) == before.state = "UNRANKED" /\ ~ Calibrating(after)

\* A rank is published when calibration ends.
InitialRankPublished(before, after) == Calibrating(before) /\ ~ Calibrating(after)

\* What a rating makes known, in this order; events carry the new tier.
AppendRatingEvents(before, after) ==
  LET published == InitialRankPublished(before, after)
      moved     == ~ Calibrating(before)
      When(condition, type) ==
        IF condition THEN <<[type |-> type, tier |-> after.tier]>> ELSE <<>>
  IN  When(TRUE, "VALID_SKILL_RATING_SUBMITTED")
        \o When(before.state = "UNRANKED", "PLAYER_CALIBRATION_STARTED")
        \o When(after.state = "CALIBRATING", "PLAYER_CALIBRATION_PROGRESS_UPDATED")
        \o When(published, "PLAYER_INITIAL_RANK_PUBLISHED")
        \o When(~ published, "PLAYER_SKILL_SCORE_UPDATED")
        \o When(moved /\ after.tier > before.tier, "PLAYER_RANK_PROMOTED")
        \o When(moved /\ after.tier < before.tier, "PLAYER_RANK_DEMOTED")
        \o When(after.state = "TOP_TIER_LOCKED" /\ before.state # "TOP_TIER_LOCKED", "TOP_TIER_REACHED")

-----------------------------------------------------------------------------
(* Who may rate whom. *)

UserOf(p) == IF p \in Guests THEN claimedBy[p] ELSE p

HasProfile(u) == u # Nil /\ profile[u].state # "NONE"

Rated(r, u) == \E i \in DOMAIN ratings[u] : ratings[u][i].room = r

Outranks(h, u) ==
  /\ profile[u].state # "TOP_TIER_LOCKED"
  /\ profile[h].state \in {"RANKED", "TOP_TIER_LOCKED"}
  /\ IF Calibrating(profile[u]) THEN profile[h].score > CalibrationHostMinScore
     ELSE profile[h].tier >= profile[u].tier + 1

\* What the row of the participant says by now.
PlayerPresent(r, p) == seat[<<r, p>>] = "PRESENT"

EvaluateRatingEligibility(r, p) ==
  LET h == HostOf[r]
      u == UserOf(p)
  IN  u # h /\ PlayerPresent(r, p) /\ ~ Rated(r, u) /\ Outranks(h, u)

\* The host's profile is looked up first and the player's next; without one it fails.
EligibilityForParticipant(r, p) ==
  HasProfile(HostOf[r]) /\ HasProfile(UserOf(p)) /\ EvaluateRatingEligibility(r, p)

Present(r) == {p \in Persons : seat[<<r, p>>] = "PRESENT"}

-----------------------------------------------------------------------------
(* The profiles to begin with are those earlier ratings have made. *)

SkillRatings == [room : Rooms \cup {Nil}, rater : Users, raw : Int, effective : Int]

Profiles ==
  [state : {"NONE", "UNRANKED", "CALIBRATING", "RANKED", "TOP_TIER_LOCKED"},
   score : Int \cup {Nil}, tier : Tiers \cup {Nil}, valid : Nat, raters : Nat, matches : Nat,
   changedAt : Nat]

WithinGiven(score, list) ==
  LET given == {list[i].raw : i \in DOMAIN list}
  IN  \E low, high \in given : low <= score /\ score <= high

\* The profile is one that these ratings make, one after the other.
MadeOf(prof, list) ==
  /\ prof.valid = Len(list) /\ prof.raters = Raters(list)
  /\ \A i \in DOMAIN list : WithinGiven(list[i].effective, list)
  /\ \/ prof = NoProfile
     \/ /\ prof.state = "UNRANKED" /\ list = <<>>
        /\ prof.score = Nil /\ prof.tier = Nil
     \/ /\ prof.state = "CALIBRATING" /\ Len(list) \in 1..(CalibrationRequired - 1)
        /\ prof.score = Nil /\ prof.tier = Nil
     \/ /\ prof.tier \in Tiers /\ prof.state = StateOfTier(prof.tier)
        /\ Len(list) >= CalibrationRequired
        /\ prof.score \in Int /\ WithinGiven(prof.score, list)

ASSUME InitialAssumption ==
  /\ InitialProfile \in [Users -> Profiles]
  /\ InitialRatings \in [Users -> Seq(SkillRatings)]
  /\ \A u \in Users : MadeOf(InitialProfile[u], InitialRatings[u])

Init ==
  /\ room = [r \in Rooms |-> "PLANNED"]
  /\ seat = [x \in Rooms \X Persons |-> "NONE"]
  /\ claimedBy = [g \in Guests |-> Nil]
  /\ profile = InitialProfile
  /\ ratings = InitialRatings
  /\ events = [u \in Users |-> <<>>]

\* A new account has a profile for every sport there is.  One that never does
\* this is older than the sport.
CreateUser(u) ==
  /\ profile[u].state = "NONE"
  /\ \A g \in Guests : claimedBy[g] # u
  /\ profile' = [profile EXCEPT ![u] = Unranked]
  /\ UNCHANGED <<room, seat, claimedBy, ratings, events>>

StartRoom(r) ==
  /\ room[r] = "PLANNED"
  /\ room' = [room EXCEPT ![r] = "IN_PROGRESS"]
  /\ seat' = [x \in Rooms \X Persons |->
                IF x[1] = r /\ x[2] \in SeatedIn[r] THEN "NOT_SET" ELSE seat[x]]
  /\ UNCHANGED <<claimedBy, profile, ratings, events>>

MarkAttendance(r, p, next) ==
  /\ room[r] = "IN_PROGRESS"
  /\ seat[<<r, p>>] \notin {"NONE", next}
  /\ seat' = [seat EXCEPT ![<<r, p>>] = next]
  /\ UNCHANGED <<room, claimedBy, profile, ratings, events>>

\* The seats of the guest become the user's, whatever became of their rooms.
ClaimGuest(g, u) ==
  /\ claimedBy[g] = Nil
  /\ claimedBy' = [claimedBy EXCEPT ![g] = u]
  /\ UNCHANGED <<room, seat, profile, ratings, events>>

NewRating(r, u, raw) ==
  [room |-> r, rater |-> HostOf[r], raw |-> raw,
   effective |-> EffectiveRatingForScore(raw, profile[u].score)]

\* The profiles once the ratings are those of list.
SaveProfiles(rated, list) ==
  [u \in Users |-> IF u \in rated THEN RecomputeProjection(profile[u], list[u]) ELSE profile[u]]

\* submitLocked for each seat of given, which says what each is rated.
\* The same user twice is refused, as already rated.
Submit(r, given) ==
  LET Raw(u) == given[CHOOSE p \in DOMAIN given : UserOf(p) = u]
      rated == {UserOf(p) : p \in DOMAIN given}
  IN  /\ room[r] = "IN_PROGRESS"
      /\ \A p \in DOMAIN given : EligibilityForParticipant(r, p)
      /\ Cardinality(rated) = Cardinality(DOMAIN given)
      /\ ratings' = [u \in Users |->
                       IF u \in rated THEN Append(ratings[u], NewRating(r, u, Raw(u))) ELSE ratings[u]]
      /\ profile' = SaveProfiles(rated, ratings')
      /\ events' = [u \in Users |->
                      IF u \in rated THEN events[u] \o AppendRatingEvents(profile[u], profile'[u])
                      ELSE events[u]]
      /\ UNCHANGED <<room, seat, claimedBy>>

SubmitRating(r, p, value) == Submit(r, [q \in {p} |-> value])

\* A batch of one is a submission like any other.
SubmitBatch(r) == \E S \in SUBSET Present(r) : \E given \in [S -> Values] :
                    Cardinality(S) > 1 /\ Submit(r, given)

\* Mutant: those without a profile are passed over.
KnownRated(r) ==
  \A p \in Present(r) : HasProfile(UserOf(p)) => ~ EvaluateRatingEligibility(r, p)

\* A player without a profile, such as a guest nobody claimed, makes it fail.
AssertCompletionRatingsSatisfied(r) ==
  \A p \in Present(r) :
    /\ HasProfile(UserOf(p)) /\ HasProfile(HostOf[r])
    /\ ~ EligibilityForParticipant(r, p)

\* Once for each user, were he seated twice.
IncrementCompletedMatchCount(r) ==
  [u \in Users |-> IF HasProfile(u) /\ \E p \in Present(r) : UserOf(p) = u
                   THEN [profile[u] EXCEPT !.matches = @ + 1] ELSE profile[u]]

CompleteRoom(r) ==
  /\ room[r] = "IN_PROGRESS"
  /\ \A p \in Persons : seat[<<r, p>>] # "NOT_SET"
  /\ AssertCompletionRatingsSatisfied(r)
  /\ room' = [room EXCEPT ![r] = "COMPLETED"]
  /\ profile' = IncrementCompletedMatchCount(r)
  /\ UNCHANGED <<seat, claimedBy, ratings, events>>

Next ==
  \/ \E u \in Users : CreateUser(u)
  \/ \E r \in Rooms : StartRoom(r) \/ CompleteRoom(r) \/ SubmitBatch(r)
  \/ \E r \in Rooms, p \in Persons :
       \/ \E next \in {"PRESENT", "NO_SHOW"} : MarkAttendance(r, p, next)
       \/ \E value \in Values : SubmitRating(r, p, value)
  \/ \E g \in Guests, u \in Claimers : ClaimGuest(g, u)

Spec == Init /\ [][Next]_vars

-----------------------------------------------------------------------------

\* The reconciler's comparison of a profile with the ratings it was made from.
CollectSkillFindings ==
  {u \in {v \in Users : HasProfile(v)} :
     LET prof == profile[u]
         list == ratings[u]
     IN  \/ prof.valid # Len(list)
         \/ prof.raters # Cardinality({list[i].rater : i \in DOMAIN list})
         \/ list = <<>> /\ ~(prof.state = "UNRANKED" /\ prof.score = Nil /\ prof.tier = Nil)
         \/ /\ list # <<>> /\ prof.state \in {"RANKED", "TOP_TIER_LOCKED"}
            /\ prof.score = Nil \/ prof.tier = Nil}

\* However ratings, batches, claims and new accounts interleave, the counters
\* and the rank a profile carries are those its ratings give: the reconciler,
\* which counts them again, has nothing to report.
ProfilesRestOnRatings == CollectSkillFindings = {}

\* Means, weights, caps and rounding together never publish a score outside
\* of what hosts have rated the player.
ScoreWithinRatings ==
  \A u \in Users : profile[u].score # Nil => WithinGiven(profile[u].score, ratings[u])

RankAnnouncements(s) ==
  {i \in DOMAIN s : s[i].type \in {"PLAYER_INITIAL_RANK_PUBLISHED", "PLAYER_RANK_PROMOTED",
                                    "PLAYER_RANK_DEMOTED"}}

\* The tier known from the events before position i to who knew the first.
TierTold(s, first, i) ==
  LET earlier == {j \in RankAnnouncements(s) : j < i}
  IN  IF earlier = {} THEN first ELSE s[Max(earlier)].tier

\* Followed from one tier, the events lead to the other.
Tells(s, first, last) ==
  /\ \A i \in RankAnnouncements(s) :
       LET from == TierTold(s, first, i)
           to   == s[i].tier
       IN  /\ s[i].type = "PLAYER_INITIAL_RANK_PUBLISHED" => from = Nil
           /\ s[i].type = "PLAYER_RANK_PROMOTED" => to > from
           /\ s[i].type = "PLAYER_RANK_DEMOTED" => to < from
  /\ TierTold(s, first, Len(s) + 1) = last

\* Whoever follows a player's events knows the rank: the first rank is published
\* once, to those who had none, each later announcement moves the tier the way it
\* says, the last one names the tier the profile has, and there are as many
\* submissions as ratings count.
EventsTellTheRank ==
  \A u \in Users :
    /\ Tells(events[u], InitialProfile[u].tier, profile[u].tier)
    /\ Cardinality({i \in DOMAIN events[u] : events[u][i].type = "VALID_SKILL_RATING_SUBMITTED"})
         = profile[u].valid - InitialProfile[u].valid

PlayedIn(u, r) == \E p \in Present(r) : UserOf(p) = u

\* A user's completed matches are the completed rooms he was present in, also
\* of the guests he claimed and whenever he claimed them.
MatchesAreCompletedRooms ==
  \A u \in Users :
    profile[u].matches = InitialProfile[u].matches
      + Cardinality({r \in Rooms : room[r] = "COMPLETED" /\ PlayedIn(u, r)})

\* A tier that changes has stood for MinSinceChange ratings since it was set.
TiersCoolDown ==
  [][\A u \in Users :
       profile[u].tier # Nil /\ profile'[u].tier # profile[u].tier =>
         profile'[u].changedAt > profile[u].changedAt + MinSinceChange]_vars

=============================================================================
