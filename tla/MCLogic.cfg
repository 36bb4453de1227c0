SPECIFICATION Spec
CONSTANTS
  None = None
  Junk = Junk
  Buses = {"line1"}
  Devices = {"trm1"}
  Points = {"t1", "sp1", "hyst1", "alt1"}
  WriteIds = {w1}
  DevicesOn <- MCDevicesOn
  PointsOf <- MCPointsOf
  BusOf <- MCBusOf
  Parameter <- MCParameter
  Channel <- MCChannel
  Writable = {"sp1"}
  Published = {"t1", "sp1"}
  WithStatus = {}
  Drifting = {"t1"}
  Readings <- MCReadings
  Encodable = {0, 2, 3, 4}
  Sendable = {2, 3}
  Requests <- MCRequests
  Faults = {"empty"}
  Pausing = {}
  RequestRetries <- MCRetries
  FaultAfterFailures = 1
  RecoveryPollIntervalCycles = 1
  WRITE_VERIFY_ATTEMPTS = 2
  FLOAT_VERIFY_TOLERANCE = 0
  COUNTER_MODULUS = 1
INVARIANTS
  MaskFitsReadings
PROPERTIES
  NoChatter
