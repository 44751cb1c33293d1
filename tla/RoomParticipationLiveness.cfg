SPECIFICATION FairSpec
CONSTANTS
  ann = ann
  bob = bob
  guest = guest
  Nil = Nil
  Rooms = {r1}
  Users = {ann, bob}
  Guests = {guest}
  Parties = {party}
  Apps = {a1, a2}
  Host <- MCHost
  PartyOwner <- MCPartyOwner
  Rosters <- MCRosters
  Shapes <- MCShapes
  Windows <- MCWindows
  MovedWindows <- MCMovedWindows
  EarlyStart = 1
  Grace = 1
  DefaultRadius = 5
  ExpandedRadius = {10}
  MinResults = 1
  Distances = {1, 7}
  Horizons = {3}
  MaxTime = 2
INVARIANTS
  AlarmsAreAbsences
PROPERTIES
  RequestsAreResolved
CHECK_DEADLOCK FALSE
