SPECIFICATION Spec
CONSTANTS
  None = None
  Junk = Junk
  Buses = {"line1"}
  Devices = {"trm1"}
  Points = {"t1", "sp1"}
  WriteIds = {w1}
  DevicesOn <- MCDevicesOn
  PointsOf <- MCPointsOf
  BusOf <- MCBusOf
  Parameter <- MCParameter
  Channel <- MCChannel
  Writable = {}
  Published = {"t1", "sp1"}
  WithStatus = {"t1", "sp1"}
  Drifting = {"t1"}
  Readings <- MCReadings
  Encodable = {1}
  Sendable = {1}
  Requests <- MCRequests
  Faults = {"timeout", "crc", "io", "flag", "hash", "payload", "empty"}
  Pausing = {"line1"}
  RequestRetries <- MCRetries
  FaultAfterFailures = 2
  RecoveryPollIntervalCycles = 3
  WRITE_VERIFY_ATTEMPTS = 2
  FLOAT_VERIFY_TOLERANCE = 0
  COUNTER_MODULUS = 1
INVARIANTS
  HealthIsConsistent
  StatusesAreDeserved
