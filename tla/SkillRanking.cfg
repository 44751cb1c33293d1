SPECIFICATION Spec
CONSTANTS
  host = host
  newcomer = newcomer
  master = master
  claimer = claimer
  g1 = g1
  r1 = r1
  r2 = r2
  r3 = r3
  r4 = r4
  Users <- MCUsers
  Guests = {g1}
  Rooms <- MCRooms
  HostOf <- MCHostOf
  SeatedIn <- MCSeatedIn
  InitialProfile <- MCInitialProfile
  InitialRatings <- MCInitialRatings
  Claimers = {claimer, newcomer}
  Values = {100, 550}
  CalibrationRequired = 3
  CalibrationHostMinScore = 500
  RollingWindow = 2
  Newest = 1
  NextNewest = 2
  Tiers <- MCTiers
  MinScore <- MCMinScore
  Buffer = 10
  OutlierCap = 200
  MinSinceChange = 1
  Nil = Nil
SYMMETRY MCSymmetry
INVARIANTS
  ProfilesRestOnRatings
  ScoreWithinRatings
  MatchesAreCompletedRooms
  EventsTellTheRank
PROPERTIES
  TiersCoolDown
CHECK_DEADLOCK FALSE
