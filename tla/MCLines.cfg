SPECIFICATION Spec
CONSTANTS
  None = None
  Junk = Junk
  Buses = {"line1", "line2"}
  Devices = {"trm1", "trm2"}
  Points = {"t1", "t2"}
  WriteIds = {w1}
  DevicesOn <- MCDevicesOn
  PointsOf <- MCPointsOf
  BusOf <- MCBusOf
  Parameter <- MCParameter
  Channel <- MCChannel
  Writable = {}
  Published = {"t1", "t2"}
  WithStatus = {}
  Drifting = {}
  Readings <- MCReadings
  Encodable = {1}
  Sendable = {1}
  Requests <- MCRequests
  Faults = {"timeout", "payload"}
  Pausing = {}
  RequestRetries <- MCRetries
  FaultAfterFailures = 1
  RecoveryPollIntervalCycles = 2
  WRITE_VERIFY_ATTEMPTS = 2
  FLOAT_VERIFY_TOLERANCE = 0
  COUNTER_MODULUS = 2
INVARIANTS
  AggregatesAgree
  CountersAgree
