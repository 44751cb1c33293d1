SPECIFICATION FairSpec
CONSTANTS
  host = host
  player = player
  d1 = d1
  Host <- host
  Users <- MCUsers
  Rooms = {r1}
  Devices = {d1}
  Events = {1}
  Passes = {p1, p2}
  Announced <- MCAnnounced
  StartTimes <- MCStartTimes
  Lead = 1
  Lag = 0
  MaxTime = 1
  AttemptLimit = 2
  BatchSize = 2
  MaxFaults = 2
  Switched <- MCSwitched
  DeviceOf <- MCDeviceOf
  MaxSettings = 1
  MaxRetries = 1
  Nil = Nil
INVARIANTS
  CancelledPlayersAreTold
  RepeatsNeedFaults
PROPERTIES
  CancellationReachesDevices
CHECK_DEADLOCK FALSE
