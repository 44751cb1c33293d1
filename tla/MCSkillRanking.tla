--------------------------- MODULE MCSkillRanking ---------------------------
(* A ranked host with three rooms and a newcomer in all of them; a master in
   whose room the host himself plays, beside a guest somebody may claim.     *)
EXTENDS SkillRanking, TLC

CONSTANTS host, newcomer, master, claimer, g1, r1, r2, r3, r4

MCUsers == {host, newcomer, master, claimer}
MCRooms == {r1, r2, r3, r4}
MCHostOf == (r4 :> master) @@ [r \in MCRooms |-> host]
MCSeatedIn == (r4 :> {host, g1}) @@ [r \in MCRooms |-> {newcomer}]
Ranked(state, score, tier) ==
  [state |-> state, score |-> score, tier |-> tier, valid |-> 3, raters |-> 1, matches |-> 0,
   changedAt |-> 3]
MCInitialProfile ==
  (host :> Ranked("RANKED", 600, 6)) @@ (master :> Ranked("TOP_TIER_LOCKED", 1000, 10))
    @@ (newcomer :> [Unranked EXCEPT !.state = "CALIBRATING", !.valid = 2, !.raters = 1])
    @@ (claimer :> NoProfile)
Earlier(raw) == [room |-> Nil, rater |-> master, raw |-> raw, effective |-> raw]
MCInitialRatings ==
  (host :> <<Earlier(600), Earlier(600), Earlier(600)>>)
    @@ (master :> <<Earlier(1000), Earlier(1000), Earlier(1000)>>)
    @@ (newcomer :> <<Earlier(100), Earlier(550)>>) @@ (claimer :> <<>>)
MCTiers == {1, 3, 5, 6, 10}
MCMinScore == (1 :> 100) @@ (3 :> 300) @@ (5 :> 500) @@ (6 :> 600) @@ (10 :> 1000)
MCSymmetry == Permutations({r1, r2, r3})

=============================================================================
