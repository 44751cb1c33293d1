SPECIFICATION FairSpec
CONSTANTS
  Events <- MCEvents
  Passes = {p1, p2}
  NConsumers = 2
  BatchSize = 2
  AttemptLimit = 2
  MaxFaults = 2
  MaxStops = 1
  MaxRetries = 1
  NoEvent = NoEvent
PROPERTIES
  AtLeastOnce
CHECK_DEADLOCK FALSE
