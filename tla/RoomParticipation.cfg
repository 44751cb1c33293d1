SPECIFICATION Spec
CONSTANTS
  ann = ann
  bob = bob
  guest = guest
  Nil = Nil
  Rooms = {r1, r2}
  Users = {ann, bob}
  Guests = {guest}
  Parties = {party}
  Apps = {a1, a2}
  Host <- MCHost
  PartyOwner <- MCPartyOwner
  Rosters <- MCRosters
  Shapes <- MCShapes
  Windows <- MCWindows
  MovedWindows <- MCMovedWindows
  EarlyStart = 1
  Grace = 1
  DefaultRadius = 5
  ExpandedRadius = {10}
  MinResults = 1
  Distances = {1, 7}
  Horizons = {3}
  MaxTime = 1
SYMMETRY MCSymmetry
INVARIANTS
  CapacityRespected
  ProjectionFresh
  StatusTracksAvailability
  NoPendingAfterStart
  AllOrNothingSeating
  SearchAgreesWithParticipation
PROPERTIES
  DoubleBookingIsNotAccepted
CHECK_DEADLOCK FALSE
