--------------------------- MODULE GatewayService ---------------------------
(***************************************************************************)
(* The running gateway (service.py, with the register store of             *)
(* modbus_server.py): one polling task per serial line, one task per       *)
(* Modbus write, an asyncio.Lock per line and the holding registers both   *)
(* kinds of task publish to.                                               *)
(*                                                                         *)
(* Atomicity follows asyncio.  A task runs until its next suspension point *)
(* (the wait for a line, an exchange in a worker thread, a sleep); between *)
(* two of them no other task of the event loop runs.  An action is at most *)
(* the code between two suspension points; where one stretch of code takes *)
(* several actions (a polling task that goes straight from one point to    *)
(* the next) `running` names the task that still holds the event loop.     *)
(* `_state_lock` guards stretches with no suspension point inside, so it   *)
(* is never contended and has no state here.                               *)
(***************************************************************************)
EXTENDS Integers, Sequences, FiniteSets, LogicUnits

CONSTANTS
  Buses,            \* serial lines, and the polling task of each
  Devices,          \* devices: one Modbus SlaveID each
  Points,           \* configured points
  WriteIds,         \* bound: how many Modbus writes are in flight at once
  DevicesOn,        \* [Buses -> Seq(Devices)]  points_by_bus, in its order
  PointsOf,         \* [Devices -> Seq(Points)]
  BusOf,            \* [Points -> Buses]        point.bus
  Parameter,        \* [Points -> STRING]       point.parameter
  Channel,          \* [Points -> Int]          point.address - slave_id
  Writable,         \* points with "writable"
  Published,        \* points with "publish_to_modbus"
  WithStatus,       \* points with a channel_status_address
  Drifting,         \* points whose value changes by itself: a measurement,
                    \* a parameter an operator edits at the front panel
  Readings,         \* [Points -> SUBSET Int]   the values a point may have
  Encodable,        \* values its Modbus data type can hold
  Sendable,         \* values its OVEN payload format can hold
  Requests,         \* Modbus writes: functions from cells to contents
  Faults,           \* what may come instead of the answer to a request
  Pausing,          \* buses with inter_request_delay_ms > 0
  RequestRetries,   \* [Buses -> Nat]           request_retries
  FaultAfterFailures,
  RecoveryPollIntervalCycles,
  WRITE_VERIFY_ATTEMPTS,      \* 3 in the code
  FLOAT_VERIFY_TOLERANCE,
  COUNTER_MODULUS,  \* 2^16 in the code
  Junk              \* register contents that are no reading of the point

-----------------------------------------------------------------------------
(* Codes published to Modbus clients *)

STATUS_OK == 1
STATUS_DEGRADED == 2
STATUS_OFFLINE == 3
STATUS_PROTOCOL_ERROR == 4
DeviceStatuses == STATUS_OK .. STATUS_PROTOCOL_ERROR

ERROR_NONE == 0
ERROR_TIMEOUT == 1
ERROR_BAD_FLAG == 2
ERROR_HASH_MISMATCH == 3
ERROR_DECODE == 4
ERROR_IO == 5
Errors == ERROR_NONE .. ERROR_IO

CHANNEL_DISABLED == 0
CHANNEL_OK == 1
CHANNEL_COMM_ERROR == 2
CHANNEL_PROTOCOL_ERROR == 3
CHANNEL_FAILED == 4
ChannelStatuses == CHANNEL_DISABLED .. CHANNEL_FAILED

\* What can happen to a request on the line.  The first three raise inside the
\* exchange; the next four come as a decoded frame the gateway then looks at.
\* "late": the answer of another point of the line to the same parameter, sent
\* after its own exchange was over (no frame field tells it apart).
FaultKinds == {"timeout", "crc", "io", "flag", "hash", "payload", "empty", "late"}
Raised == {"timeout", "crc", "io"}

-----------------------------------------------------------------------------
(* Registers.  A cell is what one publish call writes: the registers of a  *)
(* value, a channel status, HR48, or a status-and-telemetry block HR1..6.  *)

ValueCell(p)  == <<"value", p>>
StatusCell(p) == <<"status", p>>
MaskCell(d)   == <<"mask", d>>
DeviceCell(d) == <<"device", d>>
LineCell(b)   == <<"line", b>>
ServiceCell   == <<"service", "1">>

Cells == {ValueCell(p) : p \in Published} \cup {StatusCell(p) : p \in WithStatus}
         \cup {MaskCell(d) : d \in Devices} \cup {DeviceCell(d) : d \in Devices}
         \cup {LineCell(b) : b \in Buses} \cup {ServiceCell}

Counts == 0 .. COUNTER_MODULUS - 1
Block == [status : DeviceStatuses, error : Errors, success : Counts,
          timeouts : Counts, protocol : Counts, cycles : Counts]

Tasks == Buses \cup WriteIds
Values == UNION {Readings[p] : p \in Points}

\* What may stand in a cell.
ContentsOf(c) ==
  CASE c[1] = "value"  -> Values \cup {0, Junk}
    [] c[1] = "status" -> ChannelStatuses \cup {Junk}
    [] c[1] = "mask"   -> (SUBSET LogicUnit) \cup {Junk}
    [] c[1] = "line"   -> DeviceStatuses \cup {Junk}
    [] OTHER           -> Block \cup {Junk}

\* What load_config and validate_config leave: every point is on the line of
\* its device, a writable point is published, the limits are positive.
ASSUME ConfigAssumption ==
  /\ DevicesOn \in [Buses -> Seq(Devices)]
  /\ PointsOf \in [Devices -> Seq(Points)]
  /\ BusOf \in [Points -> Buses]
  /\ \A b \in Buses : \A i \in DOMAIN DevicesOn[b] :
       \A j \in DOMAIN PointsOf[DevicesOn[b][i]] : BusOf[PointsOf[DevicesOn[b][i]][j]] = b
  /\ Writable \subseteq Published /\ Published \subseteq Points
  /\ WithStatus \subseteq Points /\ Drifting \subseteq Points
  /\ \A p \in Points : Readings[p] \subseteq Int /\ Readings[p] # {}
  /\ RequestRetries \in [Buses -> Nat] /\ Pausing \subseteq Buses
  /\ FaultAfterFailures \in Nat \ {0} /\ RecoveryPollIntervalCycles \in Nat \ {0}

\* _group_points_by_bus_device: the devices are those of the configured points,
\* on one line each, and every point is in the list of one device.  A point is
\* what its name stands for, as in point_states and point_values.
ASSUME ListingAssumption ==
  /\ IsFiniteSet(Devices)
  /\ \A d \in Devices :
       /\ PointsOf[d] # <<>>
       /\ \E b \in Buses : \E i \in DOMAIN DevicesOn[b] : DevicesOn[b][i] = d
  /\ \A p \in Points : \E d \in Devices : \E i \in DOMAIN PointsOf[d] : PointsOf[d][i] = p
  /\ \A c, d \in Devices : \A i \in DOMAIN PointsOf[c], j \in DOMAIN PointsOf[d] :
       PointsOf[c][i] = PointsOf[d][j] => c = d /\ i = j

\* The other constants, and the nulls that no real value may equal.
ASSUME ModelAssumption ==
  /\ WRITE_VERIFY_ATTEMPTS \in Nat \ {0} /\ FLOAT_VERIFY_TOLERANCE \in Nat
  /\ COUNTER_MODULUS \in Nat \ {0}
  /\ Faults \subseteq FaultKinds /\ Sendable \subseteq Values
  /\ Buses \cap WriteIds = {}
  /\ None \notin Buses \cup WriteIds \cup Points
  /\ \A r \in Requests :
       /\ DOMAIN r \subseteq Cells
       /\ \A c \in DOMAIN r : r[c] \in ContentsOf(c)

VARIABLES
  running,   \* the polling task that holds the event loop, or None
  lock,      \* [Buses -> Seq(Tasks)]: bus_locks; the head holds it, the rest wait
  poll,      \* [Buses -> ...]: the local variables of _poll_bus_once
  writes,    \* [WriteIds -> ...]: those of _handle_modbus_holding_write
  device,    \* [Points -> Int]: the value the OVEN device really has
  point,     \* [Points -> ...]: point_states
  value,     \* [Points -> ...]: point_values
  mask,      \* [Devices -> SUBSET LogicUnit]: device_logic_masks
  blocks,    \* [Devices -> Block]: device_states
  gateway,   \* the gateway_* counters, without a status
  busStatus, \* [Buses -> DeviceStatuses]: bus_statuses
  hr,        \* [Cells -> ...]: the holding registers Modbus clients read
  calm       \* from now on the lines work and nobody changes anything

vars == <<running, lock, poll, writes, device, point, value, mask, blocks,
          gateway, busStatus, hr, calm>>
-----------------------------------------------------------------------------
(* Small operators of the code *)

\* Faulty: a counter that does not wrap.
IncWithoutWrap(n) == n + 1

IncCounter(n) == (n + 1) % COUNTER_MODULUS

AggregateStatus(statuses) ==
  CASE statuses = {}                      -> STATUS_OFFLINE
    [] statuses = {STATUS_OK}             -> STATUS_OK
    [] statuses = {STATUS_PROTOCOL_ERROR} -> STATUS_PROTOCOL_ERROR
    [] statuses = {STATUS_OFFLINE}        -> STATUS_OFFLINE
    [] OTHER                              -> STATUS_DEGRADED

ValuesMatch(expected, actual) == Magnitude(expected - actual) <= FLOAT_VERIFY_TOLERANCE

Elements(s) == {s[i] : i \in DOMAIN s}
BusDevices(b) == Elements(DevicesOn[b])

\* The device a point belongs to (its SlaveID).
DeviceOf(p) == CHOOSE d \in Devices : p \in Elements(PointsOf[d])

\* The point of device d with this parameter on this channel: of several, the
\* last one configured, as the dictionaries of the code keep it.
PointAt(d, parameter, channel) ==
  LET here == {i \in DOMAIN PointsOf[d] : /\ Parameter[PointsOf[d][i]] = parameter
                                          /\ Channel[PointsOf[d][i]] = channel}
  IN IF here = {} THEN None
     ELSE PointsOf[d][CHOOSE i \in here : \A j \in here : j <= i]

ReadingAt(readings, d, parameter, channel) ==
  LET p == PointAt(d, parameter, channel) IN IF p = None THEN None ELSE readings[p]

LogicUnitMask(readings, d, previous) ==
  {n \in LogicUnit :
     EvaluateLogicUnit(ReadingAt(readings, d, "rEAd", n), ReadingAt(readings, d, "C.SP", n),
                       ReadingAt(readings, d, "HYSt", n), ReadingAt(readings, d, "AL.t", n),
                       n \in previous)}

-----------------------------------------------------------------------------
(* Tasks *)

NoReply == [kind |-> "none", value |-> None]

\* _poll_bus_once when it takes up the i-th device of its line
StartOfDevice(i) == [pc |-> "point", dev |-> i, pt |-> 1, attempt |-> 0, reply |-> NoReply,
                     failed |-> 0, protocol |-> 0, error |-> ERROR_NONE]
Sleeping == [StartOfDevice(1) EXCEPT !.pc = "sleep"]

NoWrite == [pc |-> "idle", req |-> <<>>, old |-> <<>>, point |-> None,
            acked |-> TRUE, attempt |-> 0, got |-> None]

CurrentDevice(b) == DevicesOn[b][poll[b].dev]
CurrentPoint(b)  == PointsOf[CurrentDevice(b)][poll[b].pt]

\* Faulty: a task that need not wait for its turn; an exchange awaited in the
\* event loop instead of in a worker thread.
HoldsInAnyPlace(t, b) == \E i \in DOMAIN lock[b] : lock[b][i] = t
BlocksLoop == UNCHANGED running

Holds(t, b)   == lock[b] # <<>> /\ Head(lock[b]) = t
Enqueue(t, b) == lock' = [lock EXCEPT ![b] = Append(@, t)]
Release(b)    == lock' = [lock EXCEPT ![b] = Tail(@)]

\* The event loop: free for any task, or still with the polling task of b.
LoopIsFree   == running = None
HasLoop(b)   == running \in {None, b}
KeepsLoop(b) == running' = b
Suspends     == running' = None

-----------------------------------------------------------------------------
(* What the code publishes, and how it counts *)

BlockOf(status, counters) ==
  [status |-> status, error |-> counters.error, success |-> counters.success,
   timeouts |-> counters.timeouts, protocol |-> counters.protocol,
   cycles |-> counters.cycles]

\* Faulty: the channel status of a point that was read is not published.
PublishValueOnly(p, content, status) ==
  hr' = [c \in Cells |-> IF c = ValueCell(p) THEN content ELSE hr[c]]

\* publish and publish_point_metadata, which both leave alone a cell the point
\* does not have: the content of its value cell and of its status cell.
PublishPoint(p, content, status) ==
  hr' = [c \in Cells |-> CASE c = ValueCell(p)  -> content
                          [] c = StatusCell(p) -> status
                          [] OTHER             -> hr[c]]

PublishStatus(p, status) ==
  hr' = [c \in Cells |-> IF c = StatusCell(p) THEN status ELSE hr[c]]

\* restore_holding_registers, and the write of a Modbus client itself
Overwrite(contents) ==
  hr' = [c \in Cells |-> IF c \in DOMAIN contents THEN contents[c] ELSE hr[c]]

\* The counters of c named in `which` move by one.
Bump(c, which) ==
  [c EXCEPT !.success  = IF "success" \in which THEN IncCounter(@) ELSE @,
            !.timeouts = IF "timeouts" \in which THEN IncCounter(@) ELSE @,
            !.protocol = IF "protocol" \in which THEN IncCounter(@) ELSE @]

\* Faulty: the gateway's counters are forgotten.
CountDeviceOnly(d, forDevice, forGateway) ==
  blocks' = [blocks EXCEPT ![d] = Bump(@, forDevice)] /\ UNCHANGED gateway

\* Counters that move for device d and for the gateway.
Count(d, forDevice, forGateway) ==
  /\ blocks' = [blocks EXCEPT ![d] = Bump(@, forDevice)]
  /\ gateway' = Bump(gateway, forGateway)

\* _failure_status, with consecutive_failures cut off at the limit it is
\* compared with.
AfterFailure(state, transient) ==
  LET failures == IF state.failures < FaultAfterFailures THEN state.failures + 1
                  ELSE FaultAfterFailures
  IN IF failures = FaultAfterFailures
     THEN [failures |-> failures, status |-> CHANNEL_FAILED,
           skip |-> RecoveryPollIntervalCycles - 1]
     ELSE [failures |-> failures, status |-> transient, skip |-> state.skip]

\* Faulty: a success does not end a run of failures.
ClearedStatusOnly(state, status) == [state EXCEPT !.status = status]

Cleared(state, status) == [state EXCEPT !.failures = 0, !.status = status]

-----------------------------------------------------------------------------
(* Initial state: run() has published OFFLINE and zeros everywhere, opened *)
(* the ports and started the polling tasks; no point has been read.        *)

NoCounters == [error |-> ERROR_NONE, success |-> 0, timeouts |-> 0, protocol |-> 0,
               cycles |-> 0]

InitialContent(c) ==
  CASE c[1] \in {"value", "status"} -> 0
    [] c[1] = "mask"               -> {}
    [] c[1] = "line"               -> STATUS_OFFLINE
    [] OTHER                       -> BlockOf(STATUS_OFFLINE, NoCounters)

Init ==
  /\ running = None
  /\ lock = [b \in Buses |-> <<>>]
  /\ poll = [b \in Buses |-> Sleeping]
  /\ writes = [w \in WriteIds |-> NoWrite]
  /\ device \in {f \in [Points -> Values] : \A p \in Points : f[p] \in Readings[p]}
  /\ point = [p \in Points |-> [failures |-> 0, status |-> CHANNEL_COMM_ERROR, skip |-> 0]]
  /\ value = [p \in Points |-> None]
  /\ mask = [d \in Devices |-> {}]
  /\ blocks = [d \in Devices |-> BlockOf(STATUS_OFFLINE, NoCounters)]
  /\ gateway = NoCounters
  /\ busStatus = [b \in Buses |-> STATUS_OFFLINE]
  /\ hr = [c \in Cells |-> InitialContent(c)]
  /\ calm = FALSE

-----------------------------------------------------------------------------
(* The polling task of a line *)

Polled == <<point, value, mask, blocks, gateway, busStatus, hr>>

\* The sleep of _poll_bus_loop is over.  A line without points returns from
\* _poll_bus_once at once and goes back to sleep.
BeginCycle(b) ==
  /\ LoopIsFree /\ poll[b].pc = "sleep" /\ DevicesOn[b] # <<>>
  /\ poll' = [poll EXCEPT ![b] = StartOfDevice(1)]
  /\ KeepsLoop(b)
  /\ UNCHANGED <<lock, writes, device, calm, Polled>>

AtPoint(b) ==
  /\ HasLoop(b) /\ poll[b].pc = "point"
  /\ poll[b].pt \in DOMAIN PointsOf[CurrentDevice(b)]

\* A failed point sits out this cycle.
SkipPoint(b) ==
  /\ AtPoint(b)
  /\ LET p == CurrentPoint(b) IN
       /\ point[p].skip > 0
       /\ point' = [point EXCEPT ![p].skip = @ - 1]
       /\ PublishStatus(p, CHANNEL_FAILED)
  /\ poll' = [poll EXCEPT ![b].pt = @ + 1, ![b].failed = @ + 1]
  /\ KeepsLoop(b)
  /\ UNCHANGED <<lock, writes, device, value, mask, blocks, gateway, busStatus, calm>>

\* First attempt of _exchange_with_retries: queue for the line.
RequestPoint(b) ==
  /\ AtPoint(b) /\ point[CurrentPoint(b)].skip = 0
  /\ poll' = [poll EXCEPT ![b].pc = "exchange", ![b].attempt = 1]
  /\ Enqueue(b, b)
  /\ Suspends
  /\ UNCHANGED <<writes, device, calm, Polled>>

\* Values a late answer may bring in the place of p's own.
LateAnswers(p) ==
  {device[q] : q \in {q \in Points : BusOf[q] = BusOf[p] /\ Parameter[q] = Parameter[p]}}

\* The worker thread exchanges a frame with the device.  (It changes nothing
\* the event loop looks at, so it waits for the loop to be free.)
ThreadRead(b) ==
  /\ LoopIsFree /\ poll[b].pc = "exchange" /\ Holds(b, b)
  /\ LET p == CurrentPoint(b) IN
       \E reply \in [kind : {"value"}, value : {device[p]}]
            \cup (IF calm THEN {} ELSE
                    [kind : Faults \ {"late"}, value : {None}]
                    \cup (IF "late" \in Faults
                          THEN [kind : {"value"}, value : LateAnswers(p)] ELSE {})) :
         poll' = [poll EXCEPT ![b].pc = "reply", ![b].reply = reply]
  /\ UNCHANGED <<running, lock, writes, device, calm, Polled>>

AtReply(b) == LoopIsFree /\ poll[b].pc = "reply"

MayRetry(b) ==
  poll[b].reply.kind \in Raised /\ poll[b].attempt <= RequestRetries[b]

\* The exchange raised and an attempt is left: with a pause first, or at once,
\* behind every task that already waits for the line.
RetryAfterPause(b) ==
  /\ AtReply(b) /\ MayRetry(b) /\ b \in Pausing
  /\ poll' = [poll EXCEPT ![b].pc = "pause", ![b].reply = NoReply]
  /\ Release(b)
  /\ UNCHANGED <<running, writes, device, calm, Polled>>

EndOfPause(b) ==
  /\ LoopIsFree /\ poll[b].pc = "pause"
  /\ poll' = [poll EXCEPT ![b].pc = "exchange", ![b].attempt = @ + 1]
  /\ Enqueue(b, b)
  /\ UNCHANGED <<running, writes, device, calm, Polled>>

RetryAtOnce(b) ==
  /\ AtReply(b) /\ MayRetry(b) /\ b \notin Pausing
  /\ poll' = [poll EXCEPT ![b].pc = "exchange", ![b].attempt = @ + 1, ![b].reply = NoReply]
  /\ lock' = [lock EXCEPT ![b] = Append(Tail(@), b)]
  /\ UNCHANGED <<running, writes, device, calm, Polled>>

\* The reply is final: the task is done with the point, and the line is free.
Settled(task, failed, protocol, error) ==
  [task EXCEPT !.pc = "point", !.pt = @ + 1, !.attempt = 0, !.reply = NoReply,
               !.failed = @ + failed, !.protocol = @ + protocol,
               !.error = IF failed = 0 THEN @ ELSE error]

Settle(b, failed, protocol, error) ==
  /\ poll' = [poll EXCEPT ![b] = Settled(@, failed, protocol, error)]
  /\ Release(b)

\* After a point the task pauses if its line asks for it, else goes straight on.
AfterPoint(b) == IF b \in Pausing THEN Suspends ELSE KeepsLoop(b)

Encodes(p, v) == p \in Published => v \in Encodable

\* A value, decoded and published.
PollValue(b) ==
  /\ AtReply(b) /\ poll[b].reply.kind = "value"
  /\ LET p == CurrentPoint(b)
         v == poll[b].reply.value
     IN /\ Encodes(p, v)
        /\ value' = [value EXCEPT ![p] = v]
        /\ point' = [point EXCEPT ![p] = Cleared(@, CHANNEL_OK)]
        /\ PublishPoint(p, v, CHANNEL_OK)
        /\ Count(CurrentDevice(b), {"success"}, {"success"})
  /\ Settle(b, 0, 0, ERROR_NONE)
  /\ AfterPoint(b)
  /\ UNCHANGED <<writes, device, mask, busStatus, calm>>

\* An empty payload: the channel is switched off in the device.
PollEmpty(b) ==
  /\ AtReply(b) /\ poll[b].reply.kind = "empty"
  /\ LET p == CurrentPoint(b) IN
       /\ point' = [point EXCEPT ![p] = Cleared(@, CHANNEL_DISABLED)]
       /\ PublishStatus(p, CHANNEL_DISABLED)
       /\ value' = [value EXCEPT ![p] = None]
  /\ Settle(b, 0, 0, ERROR_NONE)
  /\ KeepsLoop(b)
  /\ UNCHANGED <<writes, device, mask, blocks, gateway, busStatus, calm>>

\* The exception handlers.  Each adds to the failures of the point, publishes
\* its channel status and counts the failure in its own way.
FailPoint(b, transient, protocol, error, forDevice, forGateway) ==
  LET p == CurrentPoint(b) IN
    /\ point' = [point EXCEPT ![p] = AfterFailure(@, transient)]
    /\ PublishStatus(p, AfterFailure(point[p], transient).status)
    /\ Count(CurrentDevice(b), forDevice, forGateway)
    /\ Settle(b, 1, protocol, error)
    /\ AfterPoint(b)
    /\ UNCHANGED <<writes, device, mask, busStatus, calm>>

PollTimeout(b) ==
  /\ AtReply(b) /\ poll[b].reply.kind = "timeout" /\ ~MayRetry(b)
  /\ FailPoint(b, CHANNEL_COMM_ERROR, 0, ERROR_TIMEOUT, {"timeouts"}, {"timeouts"})
  /\ UNCHANGED value

PollIOError(b) ==
  /\ AtReply(b) /\ poll[b].reply.kind = "io" /\ ~MayRetry(b)
  /\ FailPoint(b, CHANNEL_COMM_ERROR, 0, ERROR_IO, {}, {"timeouts"})
  /\ UNCHANGED value

\* _map_protocol_error
ProtocolError(kind) ==
  CASE kind = "flag" -> ERROR_BAD_FLAG
    [] kind = "hash" -> ERROR_HASH_MISMATCH
    [] OTHER         -> ERROR_DECODE

\* A value its registers cannot hold has already become the point's value
\* when publish raises.
PollProtocolError(b) ==
  /\ AtReply(b) /\ ~MayRetry(b)
  /\ LET p == CurrentPoint(b)
         r == poll[b].reply
     IN /\ \/ r.kind \in {"crc", "flag", "hash", "payload"} /\ UNCHANGED value
           \/ /\ r.kind = "value" /\ ~Encodes(p, r.value)
              /\ value' = [value EXCEPT ![p] = r.value]
        /\ FailPoint(b, CHANNEL_PROTOCOL_ERROR, 1, ProtocolError(r.kind),
                     {"protocol"}, {"protocol"})

\* Faulty: one protocol error makes the device a protocol error.
DeviceStatusOfAnyError(failed, protocol, points) ==
  CASE failed = 0                                         -> STATUS_OK
    [] failed # 0 /\ protocol # 0                         -> STATUS_PROTOCOL_ERROR
    [] failed # 0 /\ protocol = 0 /\ failed = points      -> STATUS_OFFLINE
    [] failed # 0 /\ protocol = 0 /\ failed # points      -> STATUS_DEGRADED

DeviceStatus(failed, protocol, points) ==
  CASE failed = 0                                              -> STATUS_OK
    [] failed # 0 /\ protocol = points                         -> STATUS_PROTOCOL_ERROR
    [] failed # 0 /\ protocol # points /\ failed = points      -> STATUS_OFFLINE
    [] failed # 0 /\ protocol # points /\ failed # points      -> STATUS_DEGRADED

\* Faulty: the line is aggregated before the device's new status is stored.
BusStatusBefore(b, devices) == AggregateStatus({blocks[d].status : d \in BusDevices(b)})

BusStatus(b, devices) == AggregateStatus({devices[d].status : d \in BusDevices(b)})

\* All points of the device are done: its mask, its result, the line's and the
\* gateway's, and on to the next device or to sleep.
EndDevice(b) ==
  /\ HasLoop(b) /\ poll[b].pc = "point"
  /\ poll[b].pt = Len(PointsOf[CurrentDevice(b)]) + 1
  /\ LET d == CurrentDevice(b)
         last == poll[b].dev = Len(DevicesOn[b])
     IN /\ mask' = [mask EXCEPT ![d] = LogicUnitMask(value, d, @)]
        /\ blocks' = [blocks EXCEPT ![d].cycles = IncCounter(@), ![d].error = poll[b].error,
                       ![d].status = DeviceStatus(poll[b].failed, poll[b].protocol,
                                                  Len(PointsOf[d]))]
        /\ busStatus' = [busStatus EXCEPT ![b] = BusStatus(b, blocks')]
        /\ gateway' = [gateway EXCEPT !.cycles = IncCounter(@), !.error = poll[b].error]
        /\ hr' = [c \in Cells |->
             CASE c = MaskCell(d)   -> mask'[d]
               [] c = DeviceCell(d) -> blocks'[d]
               [] c = ServiceCell   -> BlockOf(AggregateStatus({busStatus'[l] : l \in Buses}),
                                               gateway')
               [] c[1] = "line"     -> busStatus'[c[2]]
               [] OTHER             -> hr[c]]
        /\ poll' = [poll EXCEPT ![b] = IF last THEN Sleeping ELSE StartOfDevice(@.dev + 1)]
        /\ IF last THEN Suspends ELSE KeepsLoop(b)
  /\ UNCHANGED <<lock, writes, device, point, value, calm>>

PollStep(b) ==
  \/ BeginCycle(b) \/ SkipPoint(b) \/ RequestPoint(b) \/ ThreadRead(b)
  \/ RetryAfterPause(b) \/ EndOfPause(b) \/ RetryAtOnce(b)
  \/ PollValue(b) \/ PollEmpty(b) \/ PollTimeout(b) \/ PollIOError(b) \/ PollProtocolError(b)
  \/ EndDevice(b)

-----------------------------------------------------------------------------
(* A Modbus write *)

\* pymodbus hands the write of a client to the data block: the old contents are
\* kept for the handler, the registers change at once, a task is created.
ClientWrite(w) ==
  /\ LoopIsFree /\ writes[w].pc = "idle" /\ ~calm
  /\ \E r \in Requests :
       /\ writes' = [writes EXCEPT ![w] = [NoWrite EXCEPT
            !.pc = "created", !.req = r, !.old = [c \in DOMAIN r |-> hr[c]]]]
       /\ Overwrite(r)
  /\ UNCHANGED <<running, lock, poll, device, point, value, mask, blocks, gateway,
                 busStatus, calm>>

\* The request is exactly the registers of writable point p, and a value that
\* can be decoded from them and encoded for the device.
Asks(r, p) == DOMAIN r = {ValueCell(p)} /\ r[ValueCell(p)] \in Sendable

\* The handler starts: no such point, or a payload it cannot build.
RefuseWrite(w) ==
  /\ LoopIsFree /\ writes[w].pc = "created"
  /\ ~ \E p \in Writable : Asks(writes[w].req, p)
  /\ Overwrite(writes[w].old)
  /\ writes' = [writes EXCEPT ![w] = NoWrite]
  /\ UNCHANGED <<running, lock, poll, device, point, value, mask, blocks, gateway,
                 busStatus, calm>>

Untouched == <<running, poll, point, value, mask, blocks, gateway, busStatus, hr, calm>>

QueueWrite(w) ==
  /\ LoopIsFree /\ writes[w].pc = "created"
  /\ \E p \in Writable :
       /\ Asks(writes[w].req, p)
       /\ writes' = [writes EXCEPT ![w].pc = "write", ![w].point = p]
       /\ Enqueue(w, BusOf[p])
  /\ UNCHANGED <<device, Untouched>>

Wanted(w) == writes[w].req[ValueCell(writes[w].point)]

\* exchange_write in its thread.  The device takes the value, or does not; the
\* acknowledgement is good (or opaque: no frame to check), is a frame that will
\* not pass the checks after the readback, or does not come.
ThreadWrite(w) ==
  /\ LoopIsFree /\ writes[w].pc = "write" /\ Holds(w, BusOf[writes[w].point])
  /\ \/ /\ device' = [device EXCEPT ![writes[w].point] = Wanted(w)]
        /\ writes' = [writes EXCEPT ![w].pc = "readback", ![w].attempt = 1]
     \/ /\ ~calm /\ Faults # {}
        /\ \E stored \in {Wanted(w), device[writes[w].point]} :
             device' = [device EXCEPT ![writes[w].point] = stored]
        /\ \/ writes' = [writes EXCEPT ![w].pc = "readback", ![w].attempt = 1]
           \/ /\ Faults \cap {"flag", "hash", "empty"} # {}
              /\ writes' = [writes EXCEPT ![w].pc = "readback", ![w].attempt = 1,
                                          ![w].acked = FALSE]
           \/ /\ Faults \cap {"timeout", "io"} # {}
              /\ writes' = [writes EXCEPT ![w].pc = "failed"]
  /\ UNCHANGED <<lock, Untouched>>

\* What a readback of p may decode: the value in the device or, as neither the
\* address nor the parameter hash of the frame is looked at, an answer meant
\* for another point of the line.
ReadbackAnswers(p) ==
  {device[p]} \cup (IF calm \/ Faults \cap {"late", "hash"} = {} THEN {}
                    ELSE {device[q] : q \in {q \in Points : BusOf[q] = BusOf[p]}})

\* Faulty: the attempts are not counted.
AgainWithoutEnd(w) == UNCHANGED writes

\* Faulty: after the last attempt the device is taken to have obeyed.
VerifiedAnyway(w) ==
  writes' = IF writes[w].attempt < WRITE_VERIFY_ATTEMPTS
            THEN [writes EXCEPT ![w].attempt = @ + 1]
            ELSE [writes EXCEPT ![w].pc = "verified", ![w].got = Wanted(w)]

\* A readback raised, or did not bring the value: again, up to the limit.
AfterMismatch(w) ==
  writes' = IF writes[w].attempt < WRITE_VERIFY_ATTEMPTS
            THEN [writes EXCEPT ![w].attempt = @ + 1]
            ELSE [writes EXCEPT ![w].pc = "failed"]

\* One attempt of _verify_written_value_locked: the pause before the second and
\* the third, the exchange in its thread, the comparison.
ThreadReadback(w) ==
  /\ LoopIsFree /\ writes[w].pc = "readback"
  /\ \/ \E v \in ReadbackAnswers(writes[w].point) :
          \/ /\ ValuesMatch(Wanted(w), v)
             /\ writes' = [writes EXCEPT ![w].pc = "verified", ![w].got = v]
          \/ ~ValuesMatch(Wanted(w), v) /\ AfterMismatch(w)
     \/ ~calm /\ Faults \ {"late", "hash"} # {} /\ AfterMismatch(w)
  /\ UNCHANGED <<lock, device, Untouched>>

\* Faulty: a confirmed setpoint does not reach the logic units.
MaskNotRecomputed(d) == mask[d]

MaskAfterWrite(d) == LogicUnitMask(value', d, mask[d])

\* Verified and acknowledged: the readback is the point's new value.
ConfirmWrite(w) ==
  /\ LoopIsFree /\ writes[w].pc = "verified" /\ writes[w].acked
  /\ LET p == writes[w].point
         d == DeviceOf(p)
     IN /\ value' = [value EXCEPT ![p] = writes[w].got]
        /\ point' = [point EXCEPT ![p] = Cleared(@, CHANNEL_OK)]
        /\ mask' = [mask EXCEPT ![d] = MaskAfterWrite(d)]
        /\ hr' = [c \in Cells |-> CASE c = ValueCell(p)  -> writes[w].got
                                  [] c = StatusCell(p) -> CHANNEL_OK
                                  [] c = MaskCell(d)   -> mask'[d]
                                  [] OTHER             -> hr[c]]
        /\ Release(BusOf[p])
  /\ writes' = [writes EXCEPT ![w] = NoWrite]
  /\ UNCHANGED <<running, poll, device, blocks, gateway, busStatus, calm>>

\* The write raised, was not verified, or was verified with a bad
\* acknowledgement: the registers get their old contents back.
RollBack(w) ==
  /\ LoopIsFree
  /\ \/ writes[w].pc = "failed"
     \/ writes[w].pc = "verified" /\ ~writes[w].acked
  /\ Overwrite(writes[w].old)
  /\ Release(BusOf[writes[w].point])
  /\ writes' = [writes EXCEPT ![w] = NoWrite]
  /\ UNCHANGED <<running, poll, device, point, value, mask, blocks, gateway, busStatus, calm>>

WriteStep(w) ==
  \/ RefuseWrite(w) \/ QueueWrite(w) \/ ThreadWrite(w) \/ ThreadReadback(w)
  \/ ConfirmWrite(w) \/ RollBack(w)

-----------------------------------------------------------------------------
(* The world outside *)

Drift(p) ==
  /\ ~calm /\ p \in Drifting
  /\ \E v \in Readings[p] : v # device[p] /\ device' = [device EXCEPT ![p] = v]
  /\ UNCHANGED <<lock, writes, Untouched>>

Stabilise ==
  /\ ~calm /\ calm' = TRUE
  /\ UNCHANGED <<running, lock, poll, writes, device, Polled>>

Next ==
  \/ \E b \in Buses : PollStep(b)
  \/ \E w \in WriteIds : WriteStep(w) \/ ClientWrite(w)
  \/ \E p \in Points : Drift(p)
  \/ Stabilise

Spec == Init /\ [][Next]_vars

\* asyncio runs its ready tasks in turn and every exchange ends by the serial
\* timeout, so a task that can move again and again does.
Fairness == /\ \A b \in Buses : SF_vars(PollStep(b))
            /\ \A w \in WriteIds : SF_vars(WriteStep(w))

FairSpec == Spec /\ Fairness

-----------------------------------------------------------------------------
(* Types.  The points a record of `poll` or of `writes` leads to exist too. *)

PollRecord == [pc : {"sleep", "point", "exchange", "reply", "pause"},
               dev : Nat, pt : Nat, attempt : Nat,
               reply : [kind : FaultKinds \cup {"value", "none"}, value : Values \cup {None}],
               failed : Nat, protocol : Nat, error : Errors]

PollType(b) ==
  /\ poll[b].attempt <= RequestRetries[b] + (IF poll[b].pc = "pause" THEN 0 ELSE 1)
  /\ poll[b].pc # "sleep" =>
       /\ poll[b].dev \in DOMAIN DevicesOn[b]
       /\ poll[b].pt \in 1 .. Len(PointsOf[CurrentDevice(b)]) + 1
  /\ poll[b].pc \in {"exchange", "reply", "pause"} =>
       poll[b].pt \in DOMAIN PointsOf[CurrentDevice(b)]
  /\ poll[b].pc = "reply" => /\ poll[b].reply.kind # "none"
                             /\ poll[b].reply.kind = "value" => poll[b].reply.value \in Values

\* The kept contents have the domain of the request, which no fixed set says.
WriteRecord(old) ==
  [pc : {"idle", "created", "write", "readback", "verified", "failed"},
   req : Requests \cup {<<>>}, old : {old}, point : Writable \cup {None}, acked : BOOLEAN,
   attempt : 0 .. WRITE_VERIFY_ATTEMPTS, got : Values \cup {None}]

WriteType(task) ==
  /\ task \in WriteRecord(task.old)
  /\ DOMAIN task.old = DOMAIN task.req
  /\ \A c \in DOMAIN task.old : task.old[c] \in ContentsOf(c)
  /\ task.pc \in {"write", "readback", "verified", "failed"} =>
       task.point \in Writable /\ Asks(task.req, task.point)
  /\ task.pc = "verified" => task.got \in Values

LoopType ==
  /\ running \in Buses \cup {None}
  /\ lock \in [Buses -> Seq(Tasks)]
  /\ poll \in [Buses -> PollRecord] /\ \A b \in Buses : PollType(b)

WritesType == writes = [w \in WriteIds |-> writes[w]] /\ \A w \in WriteIds : WriteType(writes[w])

PointRecord == [failures : 0 .. FaultAfterFailures, status : ChannelStatuses,
                skip : 0 .. RecoveryPollIntervalCycles - 1]

Counters == [error : Errors, success : Counts, timeouts : Counts, protocol : Counts,
             cycles : Counts]

StateType ==
  /\ device \in [Points -> Values]
  /\ point \in [Points -> PointRecord]
  /\ value \in [Points -> Values \cup {None}]
  /\ mask \in [Devices -> SUBSET LogicUnit]
  /\ blocks \in [Devices -> Block]
  /\ gateway \in Counters
  /\ busStatus \in [Buses -> DeviceStatuses]
  /\ calm \in BOOLEAN

RegistersType == DOMAIN hr = Cells /\ \A c \in Cells : hr[c] \in ContentsOf(c)

TypeOK == LoopType /\ WritesType /\ StateType /\ RegistersType
=============================================================================
