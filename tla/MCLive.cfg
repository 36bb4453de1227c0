SPECIFICATION FairSpec
CONSTANTS
  None = None
  Junk = Junk
  Buses = {"line1"}
  Devices = {"trm1"}
  Points = {"t1", "sp1"}
  WriteIds = {w1}
  DevicesOn <- MCDevicesOn
  PointsOf <- MCPointsOf
  BusOf <- MCBusOf
  Parameter <- MCParameter
  Channel <- MCChannel
  Writable = {"sp1"}
  Published = {"t1", "sp1"}
  WithStatus = {"t1"}
  Drifting = {}
  Readings <- MCReadings
  Encodable = {1, 2}
  Sendable = {1, 2}
  Requests <- MCRequests
  Faults = {"timeout"}
  Pausing = {}
  RequestRetries <- MCRetries
  FaultAfterFailures = 1
  RecoveryPollIntervalCycles = 2
  WRITE_VERIFY_ATTEMPTS = 2
  FLOAT_VERIFY_TOLERANCE = 0
  COUNTER_MODULUS = 1
PROPERTIES
  WritesAreAnswered
  PollingGoesOn
  Recovers
