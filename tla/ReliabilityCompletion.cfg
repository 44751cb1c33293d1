SPECIFICATION CompletingSpec
CONSTANTS
  ann = ann
  bob = bob
  guest = guest
  r1 = r1
  r2 = r2
  duo = duo
  again = again
  solo = solo
  Nil = Nil
  Rooms = {r1, r2}
  Users = {ann, bob}
  Guests = {}
  Apps = {again, solo}
  Host <- MCHost
  Venue <- MCVenue
  Requester <- MCRequester
  Members <- MCMembers
  Start <- MCStart
  Places = {1}
  MaxReserved = 0
  Cutoff = 1
  EarlyStart = 0
  Grace = 0
  RefillWindow = 0
  MaxScore = 20
  LatePenalty = 5
  NoShowPenalty = 15
  StreakLimit = 1
  MaxMarks = 0
  MaxTime = 2
PROPERTIES
  GatesOpenCompletion
CHECK_DEADLOCK FALSE
