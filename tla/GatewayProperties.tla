------------------------- MODULE GatewayProperties --------------------------
(***************************************************************************)
(* What the gateway promises: the properties of GatewayService.            *)
(***************************************************************************)
EXTENDS GatewayService, FiniteSetsExt

-----------------------------------------------------------------------------
(* Readings and writes *)

\* Every answer the gateway accepts was meant for the request it waits for.
NoStrayAnswers == Faults \cap {"late", "hash"} = {}

\* A task that has talked to a device and not yet used the result is the first
\* in the queue for the line: it still holds bus_locks[bus], so no other task
\* talks on the line meanwhile.
LinesAreHeld ==
  /\ \A b \in Buses : poll[b].pc = "reply" => Holds(b, b)
  /\ \A w \in WriteIds :
       writes[w].pc \in {"readback", "verified", "failed"} => Holds(w, BusOf[writes[w].point])

\* A reading the polling task is about to publish, and the readback a write is
\* about to confirm, is still the value in the device: nobody writes the device
\* between an exchange and the use of its answer, because the line is held for
\* both (bus_locks in _exchange_with_retries and _handle_modbus_holding_write).
ReadingsAreCurrent ==
  NoStrayAnswers =>
    /\ \A b \in Buses :
         poll[b].pc = "reply" /\ poll[b].reply.kind = "value"
           => CurrentPoint(b) \in Drifting \/ poll[b].reply.value = device[CurrentPoint(b)]
    /\ \A w \in WriteIds :
         writes[w].pc = "verified"
           => writes[w].point \in Drifting \/ writes[w].got = device[writes[w].point]

\* Cells Modbus clients write to, and cells with a write under way.
Touched(c)  == \E r \in Requests : c \in DOMAIN r
InFlight(c) == \E w \in WriteIds : c \in DOMAIN writes[w].req

\* With no write to it under way, the register of a writable point does not show
\* a value that only a client wrote: it shows the last reading, polled or read
\* back, or the device's own value, or is still 0.  (False of the code: a failed
\* write restores what the register held when its client wrote, and that may be
\* the value of another write that failed as well.)
OnlyReadingsAreShown ==
  \A p \in Writable :
    InFlight(ValueCell(p)) \/ hr[ValueCell(p)] \in {0, value[p], device[p]}

-----------------------------------------------------------------------------
(* The abstract register of a setpoint *)

\* Points whose value only the gateway changes.
Setpoints == Writable \ Drifting

\* Of a write, what concerns the registers of setpoints.
OfSetpoints(contents) ==
  [p \in {p \in Setpoints : ValueCell(p) \in DOMAIN contents} |-> contents[ValueCell(p)]]

\* With the device is a request for a setpoint only: one for a point that changes
\* by itself as well asks for no setpoint.
Phase(task) ==
  CASE task.pc = "idle" -> "none"
    [] task.pc \in {"readback", "verified", "failed"} /\ task.point \in Setpoints -> "sent"
    [] OTHER -> "asked"

Stored == [p \in Setpoints |-> device[p]]
Shown  == [p \in Setpoints |-> hr[ValueCell(p)]]
RequestOf(task) == [phase |-> Phase(task), asks |-> OfSetpoints(task.req),
                    before |-> OfSetpoints(task.old)]
Request == [w \in WriteIds |-> RequestOf(writes[w])]

S == INSTANCE Setpoint WITH
       Writes <- WriteIds,
       Contents <- Values \cup {0, Junk},
       Tolerance <- FLOAT_VERIFY_TOLERANCE,
       stored <- Stored,
       shown <- Shown,
       request <- Request

\* To its clients the gateway is the register of Setpoint.tla, whatever its tasks
\* and the faults of the line interleave to, as long as answers are not mistaken
\* (NoStrayAnswers): _handle_modbus_holding_write confirms only what the device
\* has, restores what its client found, and no poll publishes in between.
ImplementsSetpoint == S!Spec

-----------------------------------------------------------------------------
(* Health of points and devices *)

Good == {CHANNEL_OK, CHANNEL_DISABLED}

\* A read-only point is failed exactly when its last FaultAfterFailures polls
\* failed, is skipped only then, and its channel status register (which starts
\* as 0) says what the gateway thinks of it, unless clients write to it.
HealthIsConsistent ==
  \A p \in Points \ Writable :
    /\ point[p].status = CHANNEL_FAILED <=> point[p].failures = FaultAfterFailures
    /\ point[p].skip > 0 => point[p].status = CHANNEL_FAILED
    /\ point[p].status \in Good => point[p].failures = 0
    /\ p \in WithStatus /\ ~Touched(StatusCell(p))
         => \/ hr[StatusCell(p)] = point[p].status
            \/ point[p].status = CHANNEL_COMM_ERROR /\ point[p].failures = 0

\* A channel status register reads "failed" only while the polls of the point
\* have failed FaultAfterFailures times in a row.  (False of the code for a
\* writable point: a confirmed write clears the failures and leaves the skip
\* count, so the next polling cycles publish "failed" again.)
FailedMeansFailedPolls ==
  \A p \in WithStatus :
    hr[StatusCell(p)] = CHANNEL_FAILED => point[p].failures = FaultAfterFailures

\* The polling task of a line is between BeginCycle and EndDevice of device d.
Polling(d) == \E b \in Buses : poll[b].pc # "sleep" /\ CurrentDevice(b) = d

\* The status a device reported last agrees with its points until it is polled
\* again: OK means that every point was read or is switched off, PROTOCOL_ERROR
\* and OFFLINE that none was.  A confirmed write can only mend a point, so the
\* claims about bad points are for devices without writable ones.
StatusesAreDeserved ==
  \A d \in Devices :
    LET points == Elements(PointsOf[d])
        status == blocks[d].status
        good   == {p \in points : point[p].status \in Good}
    IN ~Polling(d) =>
         /\ status = STATUS_OK => good = points
         /\ points \cap Writable = {} =>
              /\ status \in {STATUS_OFFLINE, STATUS_PROTOCOL_ERROR} => good = {}
              /\ status = STATUS_PROTOCOL_ERROR
                   => \A p \in points : point[p].status \in {CHANNEL_PROTOCOL_ERROR, CHANNEL_FAILED}
              /\ status = STATUS_DEGRADED => good # {} /\ good # points

-----------------------------------------------------------------------------
(* What the service device, SlaveID 1, says of all lines *)

\* Line and gateway status registers are the aggregates of what the devices
\* reported, however the two polling tasks interleave: the gateway is OK only
\* when every device of every line is.  Of a register, unless clients write to it.
AggregatesAgree ==
  /\ \A b \in Buses :
       /\ busStatus[b] = AggregateStatus({blocks[d].status : d \in BusDevices(b)})
       /\ Touched(LineCell(b)) \/ hr[LineCell(b)] = busStatus[b]
  /\ Touched(ServiceCell)
     \/ /\ hr[ServiceCell].status = AggregateStatus({busStatus[b] : b \in Buses})
        /\ hr[ServiceCell].status = STATUS_OK => \A d \in Devices :
             blocks[d].status = STATUS_OK
             /\ (Touched(DeviceCell(d)) \/ hr[DeviceCell(d)].status = STATUS_OK)

Total(field) == MapThenSumSet(LAMBDA d : blocks[d][field], Devices) % COUNTER_MODULUS

\* No polling task loses an increment of the other: the gateway's counters of
\* successes, protocol errors and cycles are the sums of the devices' counters,
\* and its timeout counter is too, as long as no exchange ends in an I/O error,
\* which counts as a timeout of the gateway only.
CountersAgree ==
  /\ gateway.success  = Total("success")
  /\ gateway.protocol = Total("protocol")
  /\ gateway.cycles   = Total("cycles")
  /\ "io" \notin Faults => gateway.timeouts = Total("timeouts")

-----------------------------------------------------------------------------
(* Logic units *)

\* Between polls of a device, HR48 fits the readings the gateway has: a heater
\* or cooler unit is on beyond the dead band on its side and off beyond it on
\* the other, a band unit follows its band, a unit without readings is off.
\* A confirmed write of a setpoint keeps it so.  The register itself is claimed
\* only if no client writes to it: a refused write may put back an older mask
\* over one published since (until the next cycle, see Recovers).
MaskFitsReadings ==
  \A d \in Devices : ~Polling(d) =>
    /\ Touched(MaskCell(d)) \/ hr[MaskCell(d)] = mask[d]
    /\ mask[d] = LogicUnitMask(value, d, mask[d])

\* A heater or cooler unit changes only with its reading outside the dead band:
\* a unit does not chatter while the temperature stays inside.
NoChatter ==
  [][\A d \in Devices : \A n \in LogicUnit :
       LET reading == ReadingAt(value', d, "rEAd", n)
           setpoint == ReadingAt(value', d, "C.SP", n)
           hysteresis == ReadingAt(value', d, "HYSt", n)
       IN /\ (n \in mask[d]) # (n \in mask'[d])
          /\ None \notin {reading, setpoint}
          /\ ReadingAt(value', d, "AL.t", n) \in {1, 2}
          => \/ reading < Low(setpoint, hysteresis)
             \/ reading > High(setpoint, hysteresis)]_vars

-----------------------------------------------------------------------------
(* Progress *)

\* Every Modbus write is confirmed, refused or rolled back, whatever the line
\* does: attempts are bounded and the queue for the line is first come, first
\* served.
WritesAreAnswered ==
  \A w \in WriteIds : writes[w].pc = "created" ~> writes[w].pc = "idle"

\* Polling cycles go on for ever on every line that has devices, however many
\* writes its clients send.
PollingGoesOn ==
  \A b \in Buses : DevicesOn[b] # <<>> =>
    /\ []<>(poll[b].pc = "sleep")
    /\ []<>(poll[b].pc # "sleep")

\* The registers agree with the devices, and everything is reported as well.
Converged ==
  /\ \A p \in Published : hr[ValueCell(p)] = device[p]
  /\ \A p \in WithStatus : hr[StatusCell(p)] = CHANNEL_OK
  /\ \A d \in Devices : /\ hr[DeviceCell(d)] # Junk /\ hr[DeviceCell(d)].status = STATUS_OK
                        /\ hr[MaskCell(d)] = LogicUnitMask(device, d, mask[d])
  /\ hr[ServiceCell] # Junk /\ hr[ServiceCell].status = STATUS_OK

\* Once the lines work and nobody writes, every trace of the faults, of the
\* restored registers and of the skipped polls goes away: the registers end up
\* with the values in the devices.
Recovers == <>calm => <>[]Converged
=============================================================================
