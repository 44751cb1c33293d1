SPECIFICATION Spec
CONSTANTS
  p1 = p1
  host = host
  owner = owner
  claimer = claimer
  Nil = Nil
  w1 = w1
  w2 = w2
  Passes = {w1, w2}
  Users = {host, owner, claimer}
  Host = host
  Requester = owner
  Participants = {p1}
  Seatings <- MCSeatings
  Claimers = {claimer}
  MaxMarks = 2
  MaxOvertaken = 1
  MaxRebuilds = 1
  MaxAtWork = 2
SYMMETRY MCSymmetry
INVARIANTS
  HandledEventsAreProjected
  PresenceIsCounted
  RebuildRestoresTheTruth
  ValidationFindsNothing
CHECK_DEADLOCK FALSE
