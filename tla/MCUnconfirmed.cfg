SPECIFICATION Spec
CONSTANTS
  None = None
  Junk = Junk
  Buses = {"line1"}
  Devices = {"trm1"}
  Points = {"sp1"}
  WriteIds = {w1, w2}
  DevicesOn <- MCDevicesOn
  PointsOf <- MCPointsOf
  BusOf <- MCBusOf
  Parameter <- MCParameter
  Channel <- MCChannel
  Writable = {"sp1"}
  Published = {"sp1"}
  WithStatus = {"sp1"}
  Drifting = {}
  Readings <- MCReadings
  Encodable = {1, 2}
  Sendable = {1, 2}
  Requests <- MCGoodRequests
  Faults = {"timeout", "flag"}
  Pausing = {}
  RequestRetries <- MCRetries
  FaultAfterFailures = 2
  RecoveryPollIntervalCycles = 2
  WRITE_VERIFY_ATTEMPTS = 2
  FLOAT_VERIFY_TOLERANCE = 0
  COUNTER_MODULUS = 1
INVARIANTS
  OnlyReadingsAreShown
