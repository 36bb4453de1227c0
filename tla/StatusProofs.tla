----------------------------- MODULE StatusProofs -----------------------------
(***************************************************************************)
(* Proofs about what the gateway reports: the statuses of points, devices, *)
(* lines and of the gateway itself, and the counters of successes, errors  *)
(* and cycles, for any number of each; and about the logic units: that     *)
(* HR48 fits the readings of its device whenever the device is not being   *)
(* polled, and that a unit keeps its state inside the dead band.           *)
(***************************************************************************)
EXTENDS GatewayServiceProofs, NumberLemmas

-----------------------------------------------------------------------------
(* The lists of the configuration *)

\* A device is polled on one line only.
LEMMA OneLine ==
  ASSUME NEW b \in Buses, NEW c \in Buses, NEW d \in BusDevices(b), d \in BusDevices(c)
  PROVE  b = c
<1>1. PICK i \in DOMAIN DevicesOn[b] : d = DevicesOn[b][i]  BY DEF BusDevices, Elements
<1>2. PICK j \in DOMAIN DevicesOn[c] : d = DevicesOn[c][j]  BY DEF BusDevices, Elements
<1>3. d \in Devices  BY <1>1, ConfigAssumption
<1>4. 1 \in DOMAIN PointsOf[d]  BY <1>3, ConfigAssumption, ListingAssumption
<1>5. \A x \in Buses : \A m \in DOMAIN DevicesOn[x] :
        \A k \in DOMAIN PointsOf[DevicesOn[x][m]] : BusOf[PointsOf[DevicesOn[x][m]][k]] = x
  BY ConfigAssumption
<1>6. BusOf[PointsOf[d][1]] = b  BY <1>1, <1>4, <1>5
<1>7. BusOf[PointsOf[d][1]] = c  BY <1>2, <1>4, <1>5
<1>8. QED  BY <1>6, <1>7

LEMMA EveryDeviceIsPolled ==
  \A d \in Devices : \E b \in Buses : d \in BusDevices(b)
BY ListingAssumption DEF BusDevices, Elements

LEMMA CurrentIsPolled ==
  ASSUME TypeOK, NEW b \in Buses, poll[b].pc # "sleep"
  PROVE  CurrentDevice(b) \in Devices /\ CurrentDevice(b) \in BusDevices(b)
BY Place DEF CurrentDevice, BusDevices, Elements

-----------------------------------------------------------------------------
(* Which registers and statuses a step changes *)

LEMMA CellsApart ==
  /\ \A p, q : StatusCell(p) = StatusCell(q) => p = q
  /\ \A p, q : MaskCell(p) = MaskCell(q) => p = q
  /\ \A p, q : DeviceCell(p) = DeviceCell(q) => p = q
  /\ \A p, q : LineCell(p) = LineCell(q) => p = q
  /\ \A p, q : /\ StatusCell(p) # ValueCell(q) /\ StatusCell(p) # MaskCell(q)
               /\ StatusCell(p) # DeviceCell(q) /\ StatusCell(p) # LineCell(q)
               /\ MaskCell(p) # ValueCell(q) /\ MaskCell(p) # DeviceCell(q)
               /\ MaskCell(p) # LineCell(q) /\ DeviceCell(p) # ValueCell(q)
               /\ DeviceCell(p) # LineCell(q) /\ LineCell(p) # ValueCell(q)
  /\ \A p : /\ ServiceCell # ValueCell(p) /\ ServiceCell # StatusCell(p)
            /\ ServiceCell # MaskCell(p) /\ ServiceCell # DeviceCell(p)
            /\ ServiceCell # LineCell(p)
  /\ \A p : /\ ValueCell(p)[1] # "line" /\ StatusCell(p)[1] # "line"
            /\ MaskCell(p)[1] # "line" /\ DeviceCell(p)[1] # "line"
            /\ LineCell(p)[1] = "line" /\ LineCell(p)[2] = p
  /\ ServiceCell[1] # "line"
BY DEF ValueCell, StatusCell, MaskCell, DeviceCell, LineCell, ServiceCell

LEMMA CountKeepsStatuses ==
  ASSUME TypeOK, NEW d, NEW forDevice, NEW forGateway, Count(d, forDevice, forGateway),
         NEW e \in Devices
  PROVE  blocks'[e].status = blocks[e].status
<1>1. blocks \in [Devices -> Block]  BY DEF TypeOK, StateType
<1>2. Bump(blocks[e], forDevice).status = blocks[e].status
  BY <1>1, Zenon DEF Bump, Block
<1>3. QED  BY <1>1, <1>2 DEF Count

\* Until it is done with a device, a polling task publishes its point only and
\* reports nothing.
LEMMA PollPublishes ==
  ASSUME TypeOK, NEW b \in Buses, PollStep(b), ~EndDevice(b)
  PROVE  /\ UNCHANGED <<mask, busStatus>>
         /\ \A d \in Devices : blocks'[d].status = blocks[d].status
         /\ \A c \in Cells : \/ hr'[c] = hr[c]
                             \/ c = ValueCell(CurrentPoint(b))
                             \/ c = StatusCell(CurrentPoint(b))
<1>1. CASE BeginCycle(b)  BY <1>1 DEF BeginCycle, Polled
<1>2. CASE SkipPoint(b)  BY <1>2 DEF SkipPoint, PublishStatus
<1>3. CASE RequestPoint(b)  BY <1>3 DEF RequestPoint, Polled
<1>4. CASE ThreadRead(b)  BY <1>4 DEF ThreadRead, Polled
<1>5. CASE RetryAfterPause(b) \/ EndOfPause(b) \/ RetryAtOnce(b)
  BY <1>5 DEF RetryAfterPause, EndOfPause, RetryAtOnce, Polled
<1>6. CASE PollValue(b)  BY <1>6, CountKeepsStatuses DEF PollValue, PublishPoint
<1>7. CASE PollEmpty(b)  BY <1>7 DEF PollEmpty, PublishStatus
<1>8. CASE PollTimeout(b)  BY <1>8, CountKeepsStatuses DEF PollTimeout, FailPoint, PublishStatus
<1>9. CASE PollIOError(b)  BY <1>9, CountKeepsStatuses DEF PollIOError, FailPoint, PublishStatus
<1>10. CASE PollProtocolError(b)
  BY <1>10, CountKeepsStatuses DEF PollProtocolError, FailPoint, PublishStatus
<1>11. QED
  BY <1>1, <1>2, <1>3, <1>4, <1>5, <1>6, <1>7, <1>8, <1>9, <1>10 DEF PollStep

\* What a client writes, and what its write restores, lies in cells its request names.
LEMMA WritePublishes ==
  ASSUME TypeOK, NEW w \in WriteIds, WriteStep(w) \/ ClientWrite(w)
  PROVE  /\ UNCHANGED <<blocks, busStatus>>
         /\ \A c \in Cells :
              \/ hr'[c] = hr[c]
              \/ Touched(c)
              \/ /\ ConfirmWrite(w)
                 /\ c \in {ValueCell(writes[w].point), StatusCell(writes[w].point),
                           MaskCell(DeviceOf(writes[w].point))}
<1>1. DOMAIN writes[w].old = DOMAIN writes[w].req /\ writes[w].req \in Requests \cup {<<>>}
  BY WriteTypeNow DEF WriteType, WriteRecord
<1>2. \A c \in DOMAIN writes[w].old : Touched(c)  BY <1>1 DEF Touched
<1>3. CASE ClientWrite(w)  BY <1>3 DEF ClientWrite, Overwrite, Touched
<1>4. CASE RefuseWrite(w) \/ RollBack(w)  BY <1>2, <1>4 DEF RefuseWrite, RollBack, Overwrite
<1>5. CASE QueueWrite(w) \/ ThreadWrite(w) \/ ThreadReadback(w)
  BY <1>5 DEF QueueWrite, ThreadWrite, ThreadReadback, Untouched
<1>6. CASE ConfirmWrite(w)  BY <1>6 DEF ConfirmWrite
<1>7. QED  BY <1>3, <1>4, <1>5, <1>6 DEF WriteStep

\* What EndDevice does to statuses and registers.
LEMMA EndDeviceReports ==
  ASSUME TypeOK, NEW b \in Buses, EndDevice(b)
  PROVE  LET d == CurrentDevice(b) IN
         /\ d \in Devices /\ d \in BusDevices(b)
         /\ blocks'[d].status = DeviceStatus(poll[b].failed, poll[b].protocol, Len(PointsOf[d]))
         /\ \A e \in Devices \ {d} : blocks'[e] = blocks[e]
         /\ busStatus'[b] = AggregateStatus({blocks'[e].status : e \in BusDevices(b)})
         /\ \A l \in Buses \ {b} : busStatus'[l] = busStatus[l]
         /\ mask' = [mask EXCEPT ![d] = LogicUnitMask(value, d, @)]
         /\ \A l \in Buses : hr'[LineCell(l)] = busStatus'[l]
         /\ hr'[ServiceCell].status = AggregateStatus({busStatus'[l] : l \in Buses})
         /\ hr'[DeviceCell(d)] = blocks'[d] /\ hr'[MaskCell(d)] = mask'[d]
         /\ \A c \in Cells \ {MaskCell(d), DeviceCell(d), ServiceCell} :
              c[1] # "line" => hr'[c] = hr[c]
<1> DEFINE d == CurrentDevice(b)
           service == BlockOf(AggregateStatus({busStatus'[l] : l \in Buses}), gateway')
<1>1. d \in Devices /\ d \in BusDevices(b)  BY CurrentIsPolled DEF EndDevice
<1>2. blocks \in [Devices -> Block] /\ busStatus \in [Buses -> DeviceStatuses]
  BY DEF TypeOK, StateType
<1>3. /\ blocks'[d].status = DeviceStatus(poll[b].failed, poll[b].protocol, Len(PointsOf[d]))
      /\ \A e \in Devices \ {d} : blocks'[e] = blocks[e]
  BY <1>1, <1>2 DEF EndDevice, Block
<1>4. /\ busStatus'[b] = AggregateStatus({blocks'[e].status : e \in BusDevices(b)})
      /\ \A l \in Buses \ {b} : busStatus'[l] = busStatus[l]
  BY <1>2 DEF EndDevice, BusStatus
<1>5. mask' = [mask EXCEPT ![d] = LogicUnitMask(value, d, @)]  BY DEF EndDevice
<1>6. \A c \in Cells :
        hr'[c] = CASE c = MaskCell(d)   -> mask'[d]
                   [] c = DeviceCell(d) -> blocks'[d]
                   [] c = ServiceCell   -> service
                   [] c[1] = "line"     -> busStatus'[c[2]]
                   [] OTHER             -> hr[c]
  BY DEF EndDevice
<1> HIDE DEF service
<1>7. \A l \in Buses : LineCell(l) \in Cells  BY DEF Cells
<1>8. ServiceCell \in Cells /\ DeviceCell(d) \in Cells /\ MaskCell(d) \in Cells
  BY <1>1 DEF Cells
<1>9. ASSUME NEW l \in Buses PROVE hr'[LineCell(l)] = busStatus'[l]
  <2>1. /\ LineCell(l) # MaskCell(d) /\ LineCell(l) # DeviceCell(d) /\ LineCell(l) # ServiceCell
        /\ LineCell(l)[1] = "line" /\ LineCell(l)[2] = l
    BY CellsApart
  <2>2. QED  BY <1>6, <1>7, <2>1, Zenon
<1>10. hr'[DeviceCell(d)] = blocks'[d] /\ hr'[MaskCell(d)] = mask'[d]
  BY <1>6, <1>8, CellsApart
<1>11. hr'[ServiceCell] = service  BY <1>6, <1>8, CellsApart
<1>12. hr'[ServiceCell].status = AggregateStatus({busStatus'[l] : l \in Buses})
  BY <1>11 DEF BlockOf, service
<1>13. \A c \in Cells \ {MaskCell(d), DeviceCell(d), ServiceCell} :
         c[1] # "line" => hr'[c] = hr[c]
  BY <1>6
<1>14. QED  BY <1>1, <1>3, <1>4, <1>5, <1>9, <1>10, <1>12, <1>13, Zenon

-----------------------------------------------------------------------------
(* Lines and the gateway sum up their devices.  The strengthening: the     *)
(* register of a device shows the status the lines are summed up from.     *)

ReportsAgree ==
  /\ \A b \in Buses :
       /\ busStatus[b] = AggregateStatus({blocks[d].status : d \in BusDevices(b)})
       /\ Touched(LineCell(b)) \/ hr[LineCell(b)] = busStatus[b]
  /\ Touched(ServiceCell)
     \/ hr[ServiceCell].status = AggregateStatus({busStatus[b] : b \in Buses})
  /\ \A d \in Devices :
       Touched(DeviceCell(d)) \/ hr[DeviceCell(d)].status = blocks[d].status

LEMMA BusDevicesExist == \A b \in Buses : BusDevices(b) \subseteq Devices
BY ConfigAssumption DEF BusDevices, Elements

LEMMA AggregateOK ==
  ASSUME NEW statuses, AggregateStatus(statuses) = STATUS_OK
  PROVE  statuses = {STATUS_OK}
BY DEF AggregateStatus, STATUS_OK, STATUS_DEGRADED, STATUS_OFFLINE, STATUS_PROTOCOL_ERROR

LEMMA AggregateOfOffline ==
  ASSUME NEW statuses, statuses \subseteq {STATUS_OFFLINE}
  PROVE  AggregateStatus(statuses) = STATUS_OFFLINE
<1>1. statuses = {} \/ statuses = {STATUS_OFFLINE}  OBVIOUS
<1>2. {STATUS_OFFLINE} # {STATUS_OK} /\ {STATUS_OFFLINE} # {STATUS_PROTOCOL_ERROR}
  BY DEF STATUS_OK, STATUS_OFFLINE, STATUS_PROTOCOL_ERROR
<1>3. QED  BY <1>1, <1>2 DEF AggregateStatus

LEMMA ReportsInit ==
  ASSUME Init
  PROVE  ReportsAgree
<1>1. \A b \in Buses : busStatus[b] = STATUS_OFFLINE  BY DEF Init
<1>2. \A d \in Devices : blocks[d].status = STATUS_OFFLINE  BY DEF Init, BlockOf
<1>3. ASSUME NEW b \in Buses
      PROVE  AggregateStatus({blocks[d].status : d \in BusDevices(b)}) = STATUS_OFFLINE
  BY <1>2, BusDevicesExist, AggregateOfOffline
<1>4. AggregateStatus({busStatus[b] : b \in Buses}) = STATUS_OFFLINE
  BY <1>1, AggregateOfOffline
<1>5. /\ \A b \in Buses : LineCell(b) \in Cells
      /\ \A d \in Devices : DeviceCell(d) \in Cells
      /\ ServiceCell \in Cells
  BY DEF Cells
<1>6. \A b \in Buses : hr[LineCell(b)] = STATUS_OFFLINE
  BY <1>5 DEF Init, InitialContent, LineCell
<1>7. \A d \in Devices : hr[DeviceCell(d)].status = STATUS_OFFLINE
  BY <1>5 DEF Init, InitialContent, DeviceCell, BlockOf
<1>8. hr[ServiceCell].status = STATUS_OFFLINE
  BY <1>5 DEF Init, InitialContent, ServiceCell, BlockOf
<1>9. QED  BY <1>1, <1>2, <1>3, <1>4, <1>6, <1>7, <1>8 DEF ReportsAgree

\* A step that is no end of a device leaves all reports alone.
LEMMA ReportsFrame ==
  ASSUME TypeOK, [Next]_vars, \A b \in Buses : ~EndDevice(b)
  PROVE  /\ busStatus' = busStatus
         /\ \A d \in Devices : blocks'[d].status = blocks[d].status
         /\ \A b \in Buses : Touched(LineCell(b)) \/ hr'[LineCell(b)] = hr[LineCell(b)]
         /\ \A d \in Devices : Touched(DeviceCell(d)) \/ hr'[DeviceCell(d)] = hr[DeviceCell(d)]
         /\ Touched(ServiceCell) \/ hr'[ServiceCell] = hr[ServiceCell]
<1> DEFINE Kept(c) == Touched(c) \/ hr'[c] = hr[c]
<1>1. /\ \A b \in Buses : LineCell(b) \in Cells
      /\ \A d \in Devices : DeviceCell(d) \in Cells
      /\ ServiceCell \in Cells
  BY DEF Cells
<1>2. ASSUME NEW b \in Buses, PollStep(b)
      PROVE  /\ busStatus' = busStatus
             /\ \A d \in Devices : blocks'[d].status = blocks[d].status
             /\ \A l \in Buses : Kept(LineCell(l))
             /\ \A d \in Devices : Kept(DeviceCell(d))
             /\ Kept(ServiceCell)
  BY <1>1, <1>2, PollPublishes, CellsApart
<1>3. ASSUME NEW w \in WriteIds, WriteStep(w) \/ ClientWrite(w)
      PROVE  /\ busStatus' = busStatus /\ blocks' = blocks
             /\ \A l \in Buses : Kept(LineCell(l))
             /\ \A d \in Devices : Kept(DeviceCell(d))
             /\ Kept(ServiceCell)
  BY <1>1, <1>3, WritePublishes, CellsApart
<1>4. CASE UNCHANGED <<blocks, busStatus, hr>>  BY <1>4
<1>5. QED  BY <1>2, <1>3, <1>4 DEF Next, Drift, Stabilise, Untouched, Polled, vars

LEMMA ReportsStep ==
  ASSUME TypeOK, ReportsAgree, [Next]_vars
  PROVE  ReportsAgree'
<1>1. CASE \A b \in Buses : ~EndDevice(b)
  <2>1. /\ busStatus' = busStatus
        /\ \A d \in Devices : blocks'[d].status = blocks[d].status
        /\ \A b \in Buses : Touched(LineCell(b)) \/ hr'[LineCell(b)] = hr[LineCell(b)]
        /\ \A d \in Devices : Touched(DeviceCell(d)) \/ hr'[DeviceCell(d)] = hr[DeviceCell(d)]
        /\ Touched(ServiceCell) \/ hr'[ServiceCell] = hr[ServiceCell]
    BY <1>1, ReportsFrame
  <2>2. \A b \in Buses : {blocks'[d].status : d \in BusDevices(b)}
                          = {blocks[d].status : d \in BusDevices(b)}
    BY <2>1, BusDevicesExist
  <2>3. QED  BY <2>1, <2>2 DEF ReportsAgree, BusDevices, Touched
<1>2. ASSUME NEW b \in Buses, EndDevice(b) PROVE ReportsAgree'
  <2> DEFINE d == CurrentDevice(b)
  <2>1. /\ d \in Devices /\ d \in BusDevices(b)
        /\ \A e \in Devices \ {d} : blocks'[e] = blocks[e]
        /\ busStatus'[b] = AggregateStatus({blocks'[e].status : e \in BusDevices(b)})
        /\ \A l \in Buses \ {b} : busStatus'[l] = busStatus[l]
        /\ \A l \in Buses : hr'[LineCell(l)] = busStatus'[l]
        /\ hr'[ServiceCell].status = AggregateStatus({busStatus'[l] : l \in Buses})
        /\ hr'[DeviceCell(d)] = blocks'[d]
        /\ \A c \in Cells \ {MaskCell(d), DeviceCell(d), ServiceCell} :
             c[1] # "line" => hr'[c] = hr[c]
    BY <1>2, EndDeviceReports
  <2>2. ASSUME NEW l \in Buses \ {b}
        PROVE  busStatus'[l] = AggregateStatus({blocks'[e].status : e \in BusDevices(l)})
    <3>1. \A e \in BusDevices(l) : e # d /\ e \in Devices  BY <2>1, OneLine, BusDevicesExist
    <3>2. {blocks'[e].status : e \in BusDevices(l)} = {blocks[e].status : e \in BusDevices(l)}
      BY <2>1, <3>1
    <3>3. QED  BY <2>1, <3>2 DEF ReportsAgree
  <2>3. ASSUME NEW e \in Devices \ {d}
        PROVE  Touched(DeviceCell(e)) \/ hr'[DeviceCell(e)].status = blocks'[e].status
    <3>1. DeviceCell(e) \in Cells  BY DEF Cells
    <3>2. hr'[DeviceCell(e)] = hr[DeviceCell(e)]  BY <2>1, <3>1, CellsApart
    <3>3. QED  BY <2>1, <3>2 DEF ReportsAgree
  <2> HIDE DEF d
  <2>4. QED  BY <2>1, <2>2, <2>3 DEF ReportsAgree, BusDevices, Touched
<1>3. QED  BY <1>1, <1>2

LEMMA ReportsInvariance == Spec => []ReportsAgree
<1>1. Init => ReportsAgree  BY ReportsInit
<1>2. TypeOK /\ ReportsAgree /\ [Next]_vars => ReportsAgree'  BY ReportsStep
<1>3. QED  BY <1>1, <1>2, TypesHold, PTL DEF Spec

\* For any number of lines and devices, line and gateway status registers are the
\* aggregates of what the devices reported last, in every interleaving of the
\* polling tasks, the writes and the clients.
THEOREM AggregatesHold == Spec => []AggregatesAgree
<1>1. ReportsAgree => AggregatesAgree
  <2> SUFFICES ASSUME ReportsAgree, ~Touched(ServiceCell), hr[ServiceCell].status = STATUS_OK,
                      NEW d \in Devices
               PROVE  blocks[d].status = STATUS_OK
    BY DEF ReportsAgree, AggregatesAgree
  <2>1. PICK b \in Buses : d \in BusDevices(b)  BY EveryDeviceIsPolled
  <2>2. {busStatus[l] : l \in Buses} = {STATUS_OK}  BY AggregateOK DEF ReportsAgree
  <2>3. busStatus[b] = STATUS_OK  BY <2>2
  <2>4. {blocks[e].status : e \in BusDevices(b)} = {STATUS_OK}
    BY <2>3, AggregateOK DEF ReportsAgree
  <2>5. QED  BY <2>1, <2>4
<1>2. QED  BY <1>1, ReportsInvariance, PTL

-----------------------------------------------------------------------------
(* What a step of a polling task does to the point it is at                *)

\* The task is done with its point: the point's new state, what it published
\* in the channel status register, and what it adds to the device's counts.
Outcome(b, new, published, failed, protocol) ==
  LET p == CurrentPoint(b) IN
  /\ poll[b].pc # "sleep" /\ poll[b].pt \in DOMAIN PointsOf[CurrentDevice(b)]
  /\ point' = [point EXCEPT ![p] = new]
  /\ \A c \in Cells : c = StatusCell(p) => hr'[c] = published
  /\ poll'[b].pc = "point" /\ poll'[b].dev = poll[b].dev /\ poll'[b].pt = poll[b].pt + 1
  /\ poll'[b].failed = poll[b].failed + failed
  /\ poll'[b].protocol = poll[b].protocol + protocol

Reads(b) == \E status \in Good :
  /\ poll[b].pc = "reply"
  /\ Outcome(b, Cleared(point[CurrentPoint(b)], status), status, 0, 0)

Fails(b) == \E transient \in {CHANNEL_COMM_ERROR, CHANNEL_PROTOCOL_ERROR}, protocol \in {0, 1} :
  LET new == AfterFailure(point[CurrentPoint(b)], transient) IN
  /\ poll[b].pc = "reply" /\ (protocol = 1 => transient = CHANNEL_PROTOCOL_ERROR)
  /\ Outcome(b, new, new.status, 1, protocol)

Skips(b) ==
  LET old == point[CurrentPoint(b)] IN
  /\ poll[b].pc = "point" /\ old.skip > 0
  /\ Outcome(b, [old EXCEPT !.skip = @ - 1], CHANNEL_FAILED, 1, 0)

\* The task goes on with its point.
Waits(b) ==
  /\ UNCHANGED <<point, hr>>
  /\ poll[b].pc # "sleep" /\ poll'[b].pc \in {"exchange", "reply", "pause"}
  /\ poll[b].pc = "point" => point[CurrentPoint(b)].skip = 0
  /\ poll'[b].dev = poll[b].dev /\ poll'[b].pt = poll[b].pt
  /\ poll'[b].failed = poll[b].failed /\ poll'[b].protocol = poll[b].protocol

LEMMA SettleCounts ==
  ASSUME TypeOK, NEW b \in Buses, NEW failed, NEW protocol, NEW error,
         Settle(b, failed, protocol, error)
  PROVE  /\ poll'[b].pc = "point" /\ poll'[b].dev = poll[b].dev
         /\ poll'[b].pt = poll[b].pt + 1
         /\ poll'[b].failed = poll[b].failed + failed
         /\ poll'[b].protocol = poll[b].protocol + protocol
<1>1. poll[b] \in PollRecord /\ poll \in [Buses -> PollRecord]  BY DEF TypeOK, LoopType
<1> DEFINE r == Settled(poll[b], failed, protocol, error)
<1>2. /\ r.pc = "point" /\ r.dev = poll[b].dev /\ r.pt = poll[b].pt + 1
      /\ r.failed = poll[b].failed + failed /\ r.protocol = poll[b].protocol + protocol
  BY <1>1, Zenon DEF Settled, PollRecord
<1>3. poll'[b] = r  BY <1>1 DEF Settle
<1>4. QED  BY <1>2, <1>3, Zenon

LEMMA AtReplyIsAtPoint ==
  ASSUME TypeOK, NEW b \in Buses, poll[b].pc = "reply"
  PROVE  poll[b].pc # "sleep" /\ poll[b].pt \in DOMAIN PointsOf[CurrentDevice(b)]
BY DEF TypeOK, LoopType, PollType

LEMMA PollReads ==
  ASSUME TypeOK, NEW b \in Buses, PollValue(b) \/ PollEmpty(b)
  PROVE  Reads(b)
<1>1. poll[b].pc = "reply"  BY DEF PollValue, PollEmpty, AtReply
<1>2. CHANNEL_OK \in Good /\ CHANNEL_DISABLED \in Good  BY DEF Good
<1>3. CASE PollValue(b)
  <2>1. /\ point' = [point EXCEPT ![CurrentPoint(b)] = Cleared(@, CHANNEL_OK)]
        /\ PublishPoint(CurrentPoint(b), poll[b].reply.value, CHANNEL_OK)
        /\ Settle(b, 0, 0, ERROR_NONE)
    BY <1>3 DEF PollValue
  <2>2. Outcome(b, Cleared(point[CurrentPoint(b)], CHANNEL_OK), CHANNEL_OK, 0, 0)
    BY <1>1, <2>1, SettleCounts, AtReplyIsAtPoint, CellsApart DEF Outcome, PublishPoint
  <2>3. QED  BY <1>1, <1>2, <2>2 DEF Reads
<1>4. CASE PollEmpty(b)
  <2>1. /\ point' = [point EXCEPT ![CurrentPoint(b)] = Cleared(@, CHANNEL_DISABLED)]
        /\ PublishStatus(CurrentPoint(b), CHANNEL_DISABLED)
        /\ Settle(b, 0, 0, ERROR_NONE)
    BY <1>4 DEF PollEmpty
  <2>2. Outcome(b, Cleared(point[CurrentPoint(b)], CHANNEL_DISABLED), CHANNEL_DISABLED, 0, 0)
    BY <1>1, <2>1, SettleCounts, AtReplyIsAtPoint DEF Outcome, PublishStatus
  <2>3. QED  BY <1>1, <1>2, <2>2 DEF Reads
<1>5. QED  BY <1>3, <1>4

LEMMA PollFails ==
  ASSUME TypeOK, NEW b \in Buses, PollTimeout(b) \/ PollIOError(b) \/ PollProtocolError(b)
  PROVE  Fails(b)
<1>1. poll[b].pc = "reply"  BY DEF PollTimeout, PollIOError, PollProtocolError, AtReply
<1>2. ASSUME NEW transient \in {CHANNEL_COMM_ERROR, CHANNEL_PROTOCOL_ERROR},
             NEW protocol \in {0, 1}, protocol = 1 => transient = CHANNEL_PROTOCOL_ERROR,
             NEW error, NEW forDevice, NEW forGateway,
             FailPoint(b, transient, protocol, error, forDevice, forGateway)
      PROVE  Fails(b)
  <2> DEFINE new == AfterFailure(point[CurrentPoint(b)], transient)
  <2>1. /\ point' = [point EXCEPT ![CurrentPoint(b)] = new]
        /\ PublishStatus(CurrentPoint(b), new.status)
        /\ Settle(b, 1, protocol, error)
    BY <1>2 DEF FailPoint
  <2> HIDE DEF new
  <2>2. Outcome(b, new, new.status, 1, protocol)
    BY <1>1, <2>1, SettleCounts, AtReplyIsAtPoint DEF Outcome, PublishStatus
  <2>3. QED  BY <1>1, <1>2, <2>2 DEF Fails, new
<1>3. QED
  BY <1>2 DEF PollTimeout, PollIOError, PollProtocolError

LEMMA PollSkips ==
  ASSUME TypeOK, NEW b \in Buses, SkipPoint(b)
  PROVE  Skips(b)
<1>1. poll[b] \in PollRecord /\ poll \in [Buses -> PollRecord]  BY DEF TypeOK, LoopType
<1> DEFINE r == [poll[b] EXCEPT !.pt = @ + 1, !.failed = @ + 1]
<1>2. /\ r.pc = poll[b].pc /\ r.dev = poll[b].dev /\ r.pt = poll[b].pt + 1
      /\ r.failed = poll[b].failed + 1 /\ r.protocol = poll[b].protocol
  BY <1>1, Zenon DEF PollRecord
<1>3. poll'[b] = r  BY <1>1 DEF SkipPoint
<1> HIDE DEF r
<1>4. /\ poll[b].pc = "point" /\ poll[b].pt \in DOMAIN PointsOf[CurrentDevice(b)]
      /\ point[CurrentPoint(b)].skip > 0
      /\ point' = [point EXCEPT ![CurrentPoint(b)].skip = @ - 1]
      /\ PublishStatus(CurrentPoint(b), CHANNEL_FAILED)
  BY DEF SkipPoint, AtPoint
<1>5. poll[b].protocol = poll[b].protocol + 0  BY <1>1 DEF PollRecord
<1>6. QED  BY <1>2, <1>3, <1>4, <1>5 DEF Skips, Outcome, PublishStatus

LEMMA PollWaits ==
  ASSUME TypeOK, NEW b \in Buses,
         RequestPoint(b) \/ ThreadRead(b) \/ RetryAfterPause(b) \/ EndOfPause(b) \/ RetryAtOnce(b)
  PROVE  Waits(b)
<1>1. poll[b] \in PollRecord /\ poll \in [Buses -> PollRecord]  BY DEF TypeOK, LoopType
<1>2. /\ UNCHANGED <<point, hr>> /\ poll[b].pc # "sleep"
      /\ poll[b].pc = "point" => point[CurrentPoint(b)].skip = 0
  BY DEF RequestPoint, AtPoint, ThreadRead, RetryAfterPause, AtReply, EndOfPause, RetryAtOnce, Polled
<1>3. /\ poll'[b].pc \in {"exchange", "reply", "pause"}
      /\ poll'[b].dev = poll[b].dev /\ poll'[b].pt = poll[b].pt
      /\ poll'[b].failed = poll[b].failed /\ poll'[b].protocol = poll[b].protocol
  <2> DEFINE Same(r) == /\ r.pc \in {"exchange", "reply", "pause"}
                        /\ r.dev = poll[b].dev /\ r.pt = poll[b].pt
                        /\ r.failed = poll[b].failed /\ r.protocol = poll[b].protocol
  <2>1. CASE RequestPoint(b)
    <3>1. Same([poll[b] EXCEPT !.pc = "exchange", !.attempt = 1])  BY <1>1, Zenon DEF PollRecord
    <3>2. QED  BY <1>1, <2>1, <3>1 DEF RequestPoint
  <2>2. CASE ThreadRead(b)
    <3>1. PICK reply : poll' = [poll EXCEPT ![b].pc = "reply", ![b].reply = reply]
      BY <2>2 DEF ThreadRead
    <3>2. Same([poll[b] EXCEPT !.pc = "reply", !.reply = reply])  BY <1>1, Zenon DEF PollRecord
    <3>3. QED  BY <1>1, <3>1, <3>2
  <2>3. CASE RetryAfterPause(b)
    <3>1. Same([poll[b] EXCEPT !.pc = "pause", !.reply = NoReply])  BY <1>1, Zenon DEF PollRecord
    <3>2. QED  BY <1>1, <2>3, <3>1 DEF RetryAfterPause
  <2>4. CASE EndOfPause(b)
    <3>1. Same([poll[b] EXCEPT !.pc = "exchange", !.attempt = @ + 1])
      BY <1>1, Zenon DEF PollRecord
    <3>2. QED  BY <1>1, <2>4, <3>1 DEF EndOfPause
  <2>5. CASE RetryAtOnce(b)
    <3>1. Same([poll[b] EXCEPT !.pc = "exchange", !.attempt = @ + 1, !.reply = NoReply])
      BY <1>1, Zenon DEF PollRecord
    <3>2. QED  BY <1>1, <2>5, <3>1 DEF RetryAtOnce
  <2>6. QED  BY <2>1, <2>2, <2>3, <2>4, <2>5
<1>4. QED  BY <1>2, <1>3 DEF Waits

LEMMA PollCases ==
  ASSUME TypeOK, NEW b \in Buses, PollStep(b)
  PROVE  Reads(b) \/ Fails(b) \/ Skips(b) \/ Waits(b) \/ BeginCycle(b) \/ EndDevice(b)
BY PollReads, PollFails, PollSkips, PollWaits DEF PollStep

\* A polling task changes its point only, and only while it is at it.
LEMMA PollTouches ==
  ASSUME TypeOK, NEW b \in Buses, PollStep(b), NEW p \in Points,
         \/ point'[p] # point[p]
         \/ StatusCell(p) \in Cells /\ hr'[StatusCell(p)] # hr[StatusCell(p)]
  PROVE  /\ Reads(b) \/ Fails(b) \/ Skips(b)
         /\ p = CurrentPoint(b) /\ BusOf[p] = b
         /\ poll[b].pc # "sleep" /\ poll[b].pt \in DOMAIN PointsOf[CurrentDevice(b)]
<1>1. ~Waits(b)  BY DEF Waits
<1>2. ~BeginCycle(b)  BY DEF BeginCycle, Polled
<1>3. ~EndDevice(b)
  <2> SUFFICES ASSUME EndDevice(b) PROVE FALSE  OBVIOUS
  <2>1. point' = point  BY DEF EndDevice
  <2>2. \A c \in Cells \ {MaskCell(CurrentDevice(b)), DeviceCell(CurrentDevice(b)), ServiceCell} :
          c[1] # "line" => hr'[c] = hr[c]
    BY EndDeviceReports
  <2>3. StatusCell(p) \in Cells => hr'[StatusCell(p)] = hr[StatusCell(p)]
    BY <2>2, CellsApart
  <2>4. QED  BY <2>1, <2>3
<1>4. Reads(b) \/ Fails(b) \/ Skips(b)  BY <1>1, <1>2, <1>3, PollCases
<1>5. /\ poll[b].pc # "sleep" /\ poll[b].pt \in DOMAIN PointsOf[CurrentDevice(b)]
      /\ \E new : point' = [point EXCEPT ![CurrentPoint(b)] = new]
  BY <1>4 DEF Reads, Fails, Skips, Outcome
<1>6. p = CurrentPoint(b)
  <2>1. CASE point'[p] # point[p]  BY <1>5, <2>1 DEF TypeOK, StateType
  <2>2. CASE StatusCell(p) \in Cells /\ hr'[StatusCell(p)] # hr[StatusCell(p)]
    BY <1>3, <2>2, PollPublishes, CellsApart
  <2>3. QED  BY <2>1, <2>2
<1>7. QED  BY <1>4, <1>5, <1>6, Place

\* A write changes its point only, which is writable, and only when it is confirmed.
LEMMA WriteTouches ==
  ASSUME TypeOK, NEW w \in WriteIds, WriteStep(w) \/ ClientWrite(w), NEW p \in Points
  PROVE  /\ \/ point'[p] = point[p]
            \/ p \in Writable /\ point'[p] = Cleared(point[p], CHANNEL_OK)
         /\ StatusCell(p) \in Cells /\ p \notin Writable
              => hr'[StatusCell(p)] = hr[StatusCell(p)] \/ Touched(StatusCell(p))
<1>1. CASE ConfirmWrite(w)
  <2>1. writes[w].point \in Writable /\ writes[w].point \in Points
    BY <1>1, WritePoint, WriteTypeNow DEF ConfirmWrite, WriteType
  <2>2. point' = [point EXCEPT ![writes[w].point] = Cleared(@, CHANNEL_OK)]
    BY <1>1 DEF ConfirmWrite
  <2>3. \/ point'[p] = point[p]
        \/ p \in Writable /\ point'[p] = Cleared(point[p], CHANNEL_OK)
    BY <2>1, <2>2 DEF TypeOK, StateType
  <2>4. QED  BY <2>1, <2>3, WritePublishes, CellsApart
<1>2. CASE ~ConfirmWrite(w)
  <2>1. point' = point
    BY <1>2 DEF WriteStep, ClientWrite, RefuseWrite, QueueWrite, ThreadWrite, ThreadReadback,
                RollBack, Untouched
  <2>2. QED  BY <1>2, <2>1, WritePublishes
<1>3. QED  BY <1>1, <1>2

-----------------------------------------------------------------------------
(* HealthIsConsistent.  The strengthening: a point that rests is not       *)
(* polled, so a success never finds cycles of rest left over.              *)

RestsUnpolled ==
  \A b \in Buses :
    poll[b].pc \in {"exchange", "reply", "pause"} => point[CurrentPoint(b)].skip = 0

\* The state of a point, as it is kept and not published.
SoundState(r) ==
  /\ r.status = CHANNEL_FAILED <=> r.failures = FaultAfterFailures
  /\ r.skip > 0 => r.status = CHANNEL_FAILED
  /\ r.status \in Good => r.failures = 0

LEMMA Codes ==
  /\ CHANNEL_FAILED \notin Good /\ CHANNEL_COMM_ERROR \notin Good
  /\ CHANNEL_PROTOCOL_ERROR \notin Good
  /\ CHANNEL_COMM_ERROR # CHANNEL_FAILED /\ CHANNEL_PROTOCOL_ERROR # CHANNEL_FAILED
  /\ CHANNEL_COMM_ERROR # CHANNEL_PROTOCOL_ERROR
  /\ CHANNEL_OK \in Good
  /\ Good \cup {CHANNEL_FAILED, CHANNEL_COMM_ERROR, CHANNEL_PROTOCOL_ERROR} \subseteq ChannelStatuses
BY DEF Good, CHANNEL_OK, CHANNEL_DISABLED, CHANNEL_FAILED, CHANNEL_COMM_ERROR,
       CHANNEL_PROTOCOL_ERROR, ChannelStatuses

\* A success clears the failures and leaves the rest: sound if none is left.
LEMMA ClearedSound ==
  ASSUME NEW r \in PointRecord, NEW status \in Good
  PROVE  /\ Cleared(r, status).status = status /\ Cleared(r, status).failures = 0
         /\ Cleared(r, status).skip = r.skip
         /\ r.skip = 0 => SoundState(Cleared(r, status))
<1>1. /\ Cleared(r, status).status = status /\ Cleared(r, status).failures = 0
      /\ Cleared(r, status).skip = r.skip
  BY Zenon DEF Cleared, PointRecord
<1>2. FaultAfterFailures # 0  BY ConfigAssumption
<1>3. QED  BY <1>1, <1>2, Codes DEF SoundState

LEMMA FailureSound ==
  ASSUME NEW r \in PointRecord, r.skip = 0,
         NEW transient \in {CHANNEL_COMM_ERROR, CHANNEL_PROTOCOL_ERROR}
  PROVE  /\ SoundState(AfterFailure(r, transient))
         /\ AfterFailure(r, transient).status \in {transient, CHANNEL_FAILED}
<1>1. FaultAfterFailures \in Nat \ {0} /\ r.failures \in Nat
  BY ConfigAssumption DEF PointRecord
<1>2. QED  BY <1>1, Codes DEF AfterFailure, SoundState

LEMMA SkipSound ==
  ASSUME NEW r \in PointRecord, r.skip > 0
  PROVE  LET new == [r EXCEPT !.skip = @ - 1] IN
         /\ new.status = r.status /\ new.failures = r.failures
         /\ new.skip > 0 => r.skip > 0
         /\ SoundState(r) => SoundState(new)
<1>1. /\ [r EXCEPT !.skip = @ - 1].status = r.status
      /\ [r EXCEPT !.skip = @ - 1].failures = r.failures
      /\ [r EXCEPT !.skip = @ - 1].skip = r.skip - 1
  BY Zenon DEF PointRecord
<1>2. QED  BY <1>1 DEF SoundState

LEMMA RestsStep ==
  ASSUME TypeOK, RestsUnpolled, [Next]_vars
  PROVE  RestsUnpolled'
<1> SUFFICES ASSUME NEW x \in Buses, poll'[x].pc \in {"exchange", "reply", "pause"}
             PROVE  point'[CurrentPoint(x)'].skip = 0
  BY DEF RestsUnpolled
<1>1. ASSUME poll'[x] = poll[x]
      PROVE  /\ CurrentPoint(x)' = CurrentPoint(x) /\ point[CurrentPoint(x)].skip = 0
             /\ CurrentPoint(x) \in Points /\ BusOf[CurrentPoint(x)] = x
  BY <1>1, Place DEF RestsUnpolled, CurrentPoint, CurrentDevice, TypeOK, LoopType, PollType
<1>2. ASSUME NEW b \in Buses, PollStep(b) PROVE point'[CurrentPoint(x)'].skip = 0
  <2>1. CASE x # b
    <3>1. poll'[x] = poll[x]  BY <1>2, <2>1, PollFrame
    <3>2. point'[CurrentPoint(x)] = point[CurrentPoint(x)]
      BY <1>1, <1>2, <2>1, <3>1, PollTouches
    <3>3. QED  BY <1>1, <3>1, <3>2
  <2>2. CASE x = b
    <3>1. Waits(b)
      <4>1. poll'[b].pc # "point" /\ poll'[b].pc # "sleep"  BY <2>2
      <4>2. ~Reads(b) /\ ~Fails(b) /\ ~Skips(b)  BY <4>1 DEF Reads, Fails, Skips, Outcome
      <4>3. ~BeginCycle(b) /\ ~EndDevice(b)
        BY <4>1 DEF BeginCycle, EndDevice, StartOfDevice, Sleeping, TypeOK, LoopType
      <4>4. QED  BY <1>2, <4>2, <4>3, PollCases
    <3>2. poll[b].pc \in {"point", "exchange", "reply", "pause"}
      BY <3>1 DEF Waits, TypeOK, LoopType, PollRecord
    <3>3. point[CurrentPoint(b)].skip = 0  BY <3>1, <3>2 DEF Waits, RestsUnpolled
    <3>4. CurrentPoint(b)' = CurrentPoint(b)
      BY <3>1 DEF Waits, CurrentPoint, CurrentDevice
    <3>5. QED  BY <2>2, <3>1, <3>3, <3>4 DEF Waits
  <2>3. QED  BY <2>1, <2>2
<1>3. ASSUME NEW w \in WriteIds, WriteStep(w) \/ ClientWrite(w)
      PROVE  point'[CurrentPoint(x)'].skip = 0
  <2>1. poll'[x] = poll[x]  BY <1>3, WriteFrame
  <2>2. point[CurrentPoint(x)] \in PointRecord  BY <1>1, <2>1 DEF TypeOK, StateType
  <2>3. Cleared(point[CurrentPoint(x)], CHANNEL_OK).skip = 0
    BY <1>1, <2>1, <2>2, ClearedSound, Codes
  <2>4. QED  BY <1>1, <1>3, <2>1, <2>3, WriteTouches
<1>4. CASE UNCHANGED <<poll, point>>  BY <1>1, <1>4
<1>5. QED  BY <1>2, <1>3, <1>4 DEF Next, Drift, Stabilise, Untouched, Polled, vars

PointIsHealthy(p) ==
  /\ SoundState(point[p])
  /\ p \in WithStatus /\ ~Touched(StatusCell(p))
       => \/ hr[StatusCell(p)] = point[p].status
          \/ point[p].status = CHANNEL_COMM_ERROR /\ point[p].failures = 0

LEMMA HealthParts ==
  HealthIsConsistent <=> \A p \in Points \ Writable : PointIsHealthy(p)
BY DEF HealthIsConsistent, PointIsHealthy, SoundState

LEMMA HealthInit ==
  ASSUME Init
  PROVE  HealthIsConsistent /\ RestsUnpolled
<1>1. \A b \in Buses : poll[b].pc = "sleep"  BY DEF Init, Sleeping, StartOfDevice
<1>2. FaultAfterFailures # 0  BY ConfigAssumption
<1>3. \A p \in Points : /\ point[p].failures = 0 /\ point[p].skip = 0
                        /\ point[p].status = CHANNEL_COMM_ERROR
  BY DEF Init
<1>4. QED  BY <1>1, <1>2, <1>3, Codes DEF HealthIsConsistent, RestsUnpolled

LEMMA HealthStep ==
  ASSUME TypeOK, RestsUnpolled, HealthIsConsistent, [Next]_vars
  PROVE  HealthIsConsistent'
<1> SUFFICES ASSUME NEW p \in Points \ Writable
             PROVE  PointIsHealthy(p)'
  BY HealthParts DEF HealthIsConsistent, PointIsHealthy, SoundState
<1>1. PointIsHealthy(p) /\ point[p] \in PointRecord
  BY HealthParts DEF TypeOK, StateType
<1>2. ASSUME point'[p] = point[p],
             StatusCell(p) \in Cells => hr'[StatusCell(p)] = hr[StatusCell(p)]
                                        \/ Touched(StatusCell(p))
      PROVE  PointIsHealthy(p)'
  BY <1>1, <1>2 DEF PointIsHealthy, Touched, Cells
<1>3. ASSUME NEW b \in Buses, PollStep(b) PROVE PointIsHealthy(p)'
  <2>1. CASE /\ point'[p] = point[p]
             /\ StatusCell(p) \in Cells => hr'[StatusCell(p)] = hr[StatusCell(p)]
    BY <1>2, <2>1
  <2>2. CASE ~(/\ point'[p] = point[p]
               /\ StatusCell(p) \in Cells => hr'[StatusCell(p)] = hr[StatusCell(p)])
    <3>1. Reads(b) \/ Fails(b) \/ Skips(b)  BY <1>3, <2>2, PollTouches
    <3>2. p = CurrentPoint(b)  BY <1>3, <2>2, PollTouches
    <3>3. poll[b].pc = "reply" => point[p].skip = 0  BY <3>2 DEF RestsUnpolled
    <3>4. ASSUME NEW new, NEW published, NEW failed, NEW protocol,
                 Outcome(b, new, published, failed, protocol),
                 SoundState(new), published = new.status
          PROVE  PointIsHealthy(p)'
      <4>1. point'[p] = new  BY <3>2, <3>4 DEF Outcome, TypeOK, StateType
      <4>2. StatusCell(p) \in Cells => hr'[StatusCell(p)] = new.status
        BY <3>2, <3>4 DEF Outcome
      <4>3. QED  BY <3>4, <4>1, <4>2 DEF PointIsHealthy, SoundState, Cells
    <3>5. CASE Reads(b)
      BY <1>1, <3>2, <3>3, <3>4, <3>5, ClearedSound DEF Reads
    <3>6. CASE Fails(b)
      BY <1>1, <3>2, <3>3, <3>4, <3>6, FailureSound DEF Fails
    <3>7. CASE Skips(b)
      <4>1. point[p].status = CHANNEL_FAILED
        BY <1>1, <3>2, <3>7 DEF Skips, PointIsHealthy, SoundState
      <4>2. /\ SoundState([point[p] EXCEPT !.skip = @ - 1])
            /\ [point[p] EXCEPT !.skip = @ - 1].status = CHANNEL_FAILED
        BY <1>1, <3>2, <3>7, <4>1, SkipSound DEF Skips, PointIsHealthy
      <4>3. QED  BY <3>2, <3>4, <3>7, <4>2 DEF Skips
    <3>8. QED  BY <3>1, <3>5, <3>6, <3>7
  <2>3. QED  BY <2>1, <2>2
<1>4. ASSUME NEW w \in WriteIds, WriteStep(w) \/ ClientWrite(w) PROVE PointIsHealthy(p)'
  BY <1>2, <1>4, WriteTouches
<1>5. CASE UNCHANGED <<point, hr>>  BY <1>2, <1>5
<1>6. QED  BY <1>3, <1>4, <1>5 DEF Next, Drift, Stabilise, Untouched, Polled, vars

LEMMA HealthInvariance == Spec => [](HealthIsConsistent /\ RestsUnpolled)
<1>1. Init => HealthIsConsistent /\ RestsUnpolled  BY HealthInit
<1>2. TypeOK /\ HealthIsConsistent /\ RestsUnpolled /\ [Next]_vars
        => (HealthIsConsistent /\ RestsUnpolled)'
  BY HealthStep, RestsStep
<1>3. QED  BY <1>1, <1>2, TypesHold, PTL DEF Spec

\* For any limit of failures and any rest, on any number of lines: a point that is
\* only read is failed exactly after that many failures in a row, rests only then,
\* and its channel status register says so.
THEOREM HealthHolds == Spec => []HealthIsConsistent
BY HealthInvariance, PTL

-----------------------------------------------------------------------------
(* StatusesAreDeserved.  The strengthening: while a device is polled, the  *)
(* counts of the polling task agree with the points it is done with.       *)

IsGood(p) == point[p].status \in Good

ReadOnly(d) == \A i \in DOMAIN PointsOf[d] : PointsOf[d][i] \notin Writable

\* Of the first n points of device d, `failed` and `protocol` failed.
Counted(d, n, failed, protocol) ==
  LET p(i) == PointsOf[d][i] IN
  /\ failed \in 0 .. n /\ protocol \in 0 .. failed
  /\ failed = 0 => \A i \in 1 .. n : IsGood(p(i))
  /\ ReadOnly(d) =>
       /\ failed = n => \A i \in 1 .. n : ~IsGood(p(i))
       /\ protocol = n
            => \A i \in 1 .. n : point[p(i)].status \in {CHANNEL_PROTOCOL_ERROR, CHANNEL_FAILED}
       /\ failed < n => \E i \in 1 .. n : IsGood(p(i))
       /\ failed > 0 => \E i \in 1 .. n : ~IsGood(p(i))

CountsAgree(b) ==
  poll[b].pc # "sleep" =>
    Counted(CurrentDevice(b), poll[b].pt - 1, poll[b].failed, poll[b].protocol)

\* What the last report says of all points of device d.
Deserved(d) ==
  LET p(i) == PointsOf[d][i]
      all  == DOMAIN PointsOf[d]
  IN /\ blocks[d].status = STATUS_OK => \A i \in all : IsGood(p(i))
     /\ ReadOnly(d) =>
          /\ blocks[d].status \in {STATUS_OFFLINE, STATUS_PROTOCOL_ERROR}
               => \A i \in all : ~IsGood(p(i))
          /\ blocks[d].status = STATUS_PROTOCOL_ERROR
               => \A i \in all : point[p(i)].status \in {CHANNEL_PROTOCOL_ERROR, CHANNEL_FAILED}
          /\ blocks[d].status = STATUS_DEGRADED
               => (\E i \in all : IsGood(p(i))) /\ (\E i \in all : ~IsGood(p(i)))

CountInv == /\ \A b \in Buses : CountsAgree(b)
            /\ \A d \in Devices : Polling(d) \/ Deserved(d)

LEMMA OwnPlace ==
  ASSUME NEW c \in Devices, NEW d \in Devices, NEW i \in DOMAIN PointsOf[c],
         NEW j \in DOMAIN PointsOf[d], PointsOf[c][i] = PointsOf[d][j]
  PROVE  c = d /\ i = j
BY ListingAssumption

LEMMA PointsExist ==
  ASSUME NEW d \in Devices
  PROVE  /\ Len(PointsOf[d]) \in Nat /\ DOMAIN PointsOf[d] = 1 .. Len(PointsOf[d])
         /\ \A i \in DOMAIN PointsOf[d] : PointsOf[d][i] \in Points
BY ConfigAssumption

LEMMA PollCounts ==
  ASSUME TypeOK, NEW b \in Buses
  PROVE  /\ poll[b].pt \in Nat /\ poll[b].failed \in Nat /\ poll[b].protocol \in Nat
         /\ poll[b].pc # "sleep" => poll[b].pt - 1 \in 0 .. Len(PointsOf[CurrentDevice(b)])
<1>1. poll[b] \in PollRecord  BY DEF TypeOK, LoopType
<1>2. poll[b].pt \in Nat /\ poll[b].failed \in Nat /\ poll[b].protocol \in Nat
  BY <1>1, Zenon DEF PollRecord
<1>3. ASSUME poll[b].pc # "sleep"
      PROVE  poll[b].pt - 1 \in 0 .. Len(PointsOf[CurrentDevice(b)])
  <2>1. poll[b].pt \in 1 .. Len(PointsOf[CurrentDevice(b)]) + 1
    BY <1>3 DEF TypeOK, LoopType, PollType
  <2>2. Len(PointsOf[CurrentDevice(b)]) \in Nat  BY <1>3, Place, PointsExist
  <2>3. QED  BY <1>2, <2>1, <2>2
<1>4. QED  BY <1>2, <1>3

\* A point that stays as it is, or is mended by a confirmed write.
Mends(p) == point'[p] = point[p] \/ (p \in Writable /\ point'[p].status \in Good)

LEMMA CountedKept ==
  ASSUME NEW d, NEW n \in 0 .. Len(PointsOf[d]), Len(PointsOf[d]) \in Nat,
         DOMAIN PointsOf[d] = 1 .. Len(PointsOf[d]),
         NEW failed, NEW protocol, Counted(d, n, failed, protocol),
         \A i \in 1 .. n : Mends(PointsOf[d][i])
  PROVE  Counted(d, n, failed, protocol)'
<1>1. \A i \in 1 .. n : i \in DOMAIN PointsOf[d]  OBVIOUS
<1>2. ReadOnly(d) => \A i \in 1 .. n : point'[PointsOf[d][i]] = point[PointsOf[d][i]]
  BY <1>1 DEF ReadOnly, Mends
<1>3. \A i \in 1 .. n : IsGood(PointsOf[d][i]) => IsGood(PointsOf[d][i])'
  BY DEF IsGood, Mends
<1>4. QED  BY <1>2, <1>3 DEF Counted, IsGood, ReadOnly

LEMMA DeservedKept ==
  ASSUME NEW d \in Devices, Deserved(d), blocks'[d].status = blocks[d].status,
         \A i \in DOMAIN PointsOf[d] : Mends(PointsOf[d][i])
  PROVE  Deserved(d)'
<1>1. ReadOnly(d) => \A i \in DOMAIN PointsOf[d] : point'[PointsOf[d][i]] = point[PointsOf[d][i]]
  BY DEF ReadOnly, Mends
<1>2. \A i \in DOMAIN PointsOf[d] : IsGood(PointsOf[d][i]) => IsGood(PointsOf[d][i])'
  BY DEF IsGood, Mends
<1>3. QED  BY <1>1, <1>2 DEF Deserved, IsGood, ReadOnly

\* One more point is done.
LEMMA CountedNext ==
  ASSUME NEW d, NEW n \in Nat, n + 1 \in DOMAIN PointsOf[d],
         DOMAIN PointsOf[d] = 1 .. Len(PointsOf[d]), Len(PointsOf[d]) \in Nat,
         NEW failed, NEW protocol, Counted(d, n, failed, protocol),
         \A i \in 1 .. n : point'[PointsOf[d][i]] = point[PointsOf[d][i]],
         NEW f \in {0, 1}, NEW g \in {0, 1}, g <= f,
         f = 0 => IsGood(PointsOf[d][n + 1])',
         f = 1 /\ ReadOnly(d) => ~IsGood(PointsOf[d][n + 1])',
         g = 1 => point'[PointsOf[d][n + 1]].status \in {CHANNEL_PROTOCOL_ERROR, CHANNEL_FAILED}
  PROVE  Counted(d, n + 1, failed + f, protocol + g)'
<1> DEFINE p(i) == PointsOf[d][i]
<1>1. failed \in 0 .. n /\ protocol \in 0 .. failed  BY DEF Counted
<1>2. failed + f \in 0 .. n + 1 /\ protocol + g \in 0 .. failed + f  BY <1>1
<1>3. \A i \in 1 .. n : IsGood(p(i))' <=> IsGood(p(i))  BY DEF IsGood
<1>4. \A i \in 1 .. n + 1 : i \in 1 .. n \/ i = n + 1  OBVIOUS
<1>5. failed + f = 0 => \A i \in 1 .. n + 1 : IsGood(p(i))'
  <2>1. failed + f = 0 => failed = 0 /\ f = 0  BY <1>1
  <2>2. QED  BY <2>1, <1>3, <1>4 DEF Counted
<1>6. ASSUME ReadOnly(d), failed + f = n + 1 PROVE \A i \in 1 .. n + 1 : ~IsGood(p(i))'
  <2>1. failed = n /\ f = 1  BY <1>1, <1>6
  <2>2. QED  BY <2>1, <1>3, <1>4, <1>6 DEF Counted
<1>7. ASSUME ReadOnly(d), protocol + g = n + 1
      PROVE  \A i \in 1 .. n + 1 :
               point'[p(i)].status \in {CHANNEL_PROTOCOL_ERROR, CHANNEL_FAILED}
  <2>1. protocol = n /\ g = 1  BY <1>1, <1>7
  <2>2. \A i \in 1 .. n : point[p(i)].status \in {CHANNEL_PROTOCOL_ERROR, CHANNEL_FAILED}
    BY <2>1, <1>7 DEF Counted
  <2>3. QED  BY <2>1, <2>2, <1>4
<1>8. ASSUME ReadOnly(d), failed + f < n + 1 PROVE \E i \in 1 .. n + 1 : IsGood(p(i))'
  <2>1. CASE f = 0  BY <2>1
  <2>2. CASE f = 1
    <3>1. failed < n  BY <1>1, <1>8, <2>2
    <3>2. PICK i \in 1 .. n : IsGood(p(i))  BY <1>8, <3>1 DEF Counted
    <3>3. i \in 1 .. n + 1 /\ IsGood(p(i))'  BY <1>3, <3>2
    <3>4. QED  BY <3>3
  <2>3. QED  BY <2>1, <2>2
<1>9. ASSUME ReadOnly(d), failed + f > 0 PROVE \E i \in 1 .. n + 1 : ~IsGood(p(i))'
  <2>1. CASE f = 1  BY <1>9, <2>1
  <2>2. CASE f = 0
    <3>1. failed > 0  BY <1>1, <1>9, <2>2
    <3>2. PICK i \in 1 .. n : ~IsGood(p(i))  BY <1>9, <3>1 DEF Counted
    <3>3. i \in 1 .. n + 1 /\ ~IsGood(p(i))'  BY <1>3, <3>2
    <3>4. QED  BY <3>3
  <2>3. QED  BY <2>1, <2>2
<1>10. QED  BY <1>2, <1>5, <1>6, <1>7, <1>8, <1>9 DEF Counted, IsGood, ReadOnly

LEMMA CountedStart ==
  ASSUME NEW d
  PROVE  Counted(d, 0, 0, 0)
<1>1. ~ 0 < 0  OBVIOUS
<1>2. 0 \in 0 .. 0 /\ 1 .. 0 = {}  OBVIOUS
<1>3. QED  BY <1>1, <1>2 DEF Counted

\* The status that comes of the counts of all points is deserved.
LEMMA EndDeserved ==
  ASSUME NEW d \in Devices, NEW failed, NEW protocol,
         Counted(d, Len(PointsOf[d]), failed, protocol), UNCHANGED point,
         blocks'[d].status = DeviceStatus(failed, protocol, Len(PointsOf[d]))
  PROVE  Deserved(d)'
<1> DEFINE n == Len(PointsOf[d])
<1>1. n \in Nat /\ DOMAIN PointsOf[d] = 1 .. n  BY PointsExist
<1>2. failed \in 0 .. n /\ protocol \in 0 .. failed  BY DEF Counted
<1>3. \A i \in DOMAIN PointsOf[d] : IsGood(PointsOf[d][i])' <=> IsGood(PointsOf[d][i])
  BY DEF IsGood
<1> HIDE DEF n
<1>4. /\ blocks'[d].status = STATUS_OK => failed = 0
      /\ blocks'[d].status = STATUS_PROTOCOL_ERROR => failed # 0 /\ protocol = n
      /\ blocks'[d].status = STATUS_OFFLINE => failed = n
      /\ blocks'[d].status = STATUS_DEGRADED => failed # 0 /\ failed # n
  BY DEF DeviceStatus, STATUS_OK, STATUS_PROTOCOL_ERROR, STATUS_OFFLINE, STATUS_DEGRADED, n
<1>5. /\ blocks'[d].status = STATUS_PROTOCOL_ERROR => failed = n
      /\ blocks'[d].status = STATUS_DEGRADED => failed > 0 /\ failed < n
  BY <1>1, <1>2, <1>4
<1>6. blocks'[d].status = STATUS_OK => \A i \in 1 .. n : IsGood(PointsOf[d][i])
  BY <1>4 DEF Counted, n
<1>7. ASSUME ReadOnly(d)
      PROVE  /\ blocks'[d].status \in {STATUS_OFFLINE, STATUS_PROTOCOL_ERROR}
                   => \A i \in 1 .. n : ~IsGood(PointsOf[d][i])
             /\ blocks'[d].status = STATUS_PROTOCOL_ERROR
                   => \A i \in 1 .. n : point[PointsOf[d][i]].status
                                          \in {CHANNEL_PROTOCOL_ERROR, CHANNEL_FAILED}
             /\ blocks'[d].status = STATUS_DEGRADED
                   => /\ \E i \in 1 .. n : IsGood(PointsOf[d][i])
                      /\ \E i \in 1 .. n : ~IsGood(PointsOf[d][i])
  BY <1>4, <1>5, <1>7 DEF Counted, n
<1>8. QED  BY <1>1, <1>3, <1>6, <1>7 DEF Deserved, IsGood, ReadOnly

\* Where polling tasks are: two of them are never at the same device.
LEMMA ApartOnLines ==
  ASSUME TypeOK, NEW b \in Buses, NEW x \in Buses, x # b,
         poll[b].pc # "sleep", poll[x].pc # "sleep"
  PROVE  CurrentDevice(b) # CurrentDevice(x)
BY CurrentIsPolled, OneLine

\* A step of the polling task of b touches no point of a device it is not at.
LEMMA PollLeavesAlone ==
  ASSUME TypeOK, NEW b \in Buses, PollStep(b), NEW d \in Devices,
         poll[b].pc = "sleep" \/ d # CurrentDevice(b), NEW i \in DOMAIN PointsOf[d]
  PROVE  point'[PointsOf[d][i]] = point[PointsOf[d][i]]
<1> SUFFICES ASSUME point'[PointsOf[d][i]] # point[PointsOf[d][i]] PROVE FALSE
  OBVIOUS
<1>1. PointsOf[d][i] \in Points  BY PointsExist
<1>2. /\ PointsOf[d][i] = CurrentPoint(b) /\ poll[b].pc # "sleep"
      /\ poll[b].pt \in DOMAIN PointsOf[CurrentDevice(b)]
  BY <1>1, PollTouches
<1>3. CurrentDevice(b) \in Devices  BY <1>2, Place
<1>4. d = CurrentDevice(b)  BY <1>2, <1>3, OwnPlace DEF CurrentPoint
<1>5. QED  BY <1>2, <1>4

\* The new state of a point fits what is counted of it.
Fits(p, new, failed, protocol) ==
  /\ failed \in {0, 1} /\ protocol \in {0, 1} /\ protocol <= failed
  /\ failed = 0 => new.status \in Good
  /\ failed = 1 /\ p \notin Writable => new.status \notin Good
  /\ protocol = 1 => new.status \in {CHANNEL_PROTOCOL_ERROR, CHANNEL_FAILED}

LEMMA OutcomeFits ==
  ASSUME TypeOK, RestsUnpolled, HealthIsConsistent, NEW b \in Buses,
         Reads(b) \/ Fails(b) \/ Skips(b)
  PROVE  \E new, published, failed, protocol :
           /\ Outcome(b, new, published, failed, protocol)
           /\ Fits(CurrentPoint(b), new, failed, protocol)
<1> DEFINE p == CurrentPoint(b)
           state == point[p]
<1>1. state \in PointRecord /\ p \in Points
  BY Place DEF Reads, Fails, Skips, Outcome, TypeOK, StateType
<1>2. CASE Reads(b)
  <2>1. PICK status \in Good : Outcome(b, Cleared(state, status), status, 0, 0)
    BY <1>2 DEF Reads
  <2>2. Cleared(state, status).status \in Good  BY <1>1, ClearedSound
  <2>3. Fits(p, Cleared(state, status), 0, 0)  BY <2>2 DEF Fits
  <2>4. QED  BY <2>1, <2>3
<1>3. CASE Fails(b)
  <2>1. PICK transient \in {CHANNEL_COMM_ERROR, CHANNEL_PROTOCOL_ERROR}, protocol \in {0, 1} :
          /\ protocol = 1 => transient = CHANNEL_PROTOCOL_ERROR
          /\ Outcome(b, AfterFailure(state, transient), AfterFailure(state, transient).status,
                     1, protocol)
    BY <1>3 DEF Fails
  <2>2. state.skip = 0  BY <1>3 DEF Fails, RestsUnpolled
  <2>3. AfterFailure(state, transient).status \in {transient, CHANNEL_FAILED}
    BY <1>1, <2>2, FailureSound
  <2>4. Fits(p, AfterFailure(state, transient), 1, protocol)
    BY <2>1, <2>3, Codes DEF Fits
  <2>5. QED  BY <2>1, <2>4
<1>4. CASE Skips(b)
  <2> DEFINE new == [state EXCEPT !.skip = @ - 1]
  <2>1. Outcome(b, new, CHANNEL_FAILED, 1, 0) /\ state.skip > 0  BY <1>4 DEF Skips
  <2>2. new.status = state.status  BY <1>1, <2>1, SkipSound
  <2>3. p \notin Writable => state.status = CHANNEL_FAILED
    BY <1>1, <2>1 DEF HealthIsConsistent
  <2> HIDE DEF new
  <2>4. Fits(p, new, 1, 0)  BY <2>2, <2>3, Codes DEF Fits
  <2>5. QED  BY <2>1, <2>4
<1>5. QED  BY <1>2, <1>3, <1>4

\* A step that ends a point counts it.
LEMMA OutcomeCounts ==
  ASSUME TypeOK, NEW b \in Buses, CountsAgree(b), NEW new, NEW published, NEW f, NEW g,
         Outcome(b, new, published, f, g), Fits(CurrentPoint(b), new, f, g)
  PROVE  CountsAgree(b)'
<1>1. PICK d, n, p, failed, protocol :
        /\ d = CurrentDevice(b) /\ n = poll[b].pt - 1 /\ p = CurrentPoint(b)
        /\ failed = poll[b].failed /\ protocol = poll[b].protocol
  OBVIOUS
<1>2. /\ poll[b].pc # "sleep" /\ poll[b].pt \in DOMAIN PointsOf[d]
      /\ point' = [point EXCEPT ![p] = new] /\ CurrentDevice(b)' = d
      /\ poll'[b].pt = poll[b].pt + 1
      /\ poll'[b].failed = failed + f /\ poll'[b].protocol = protocol + g
  BY <1>1 DEF Outcome, CurrentDevice
<1>3. d \in Devices /\ p \in Points /\ p = PointsOf[d][poll[b].pt]
  BY <1>1, <1>2, Place DEF CurrentPoint
<1>4. poll[b].pt \in Nat /\ n + 1 = poll[b].pt /\ n \in Nat
  BY <1>1, <1>2, <1>3, PollCounts, PointsExist
<1>5. point'[p] = new  BY <1>2, <1>3 DEF TypeOK, StateType
<1>6. ASSUME NEW i \in 1 .. n PROVE point'[PointsOf[d][i]] = point[PointsOf[d][i]]
  <2>1. i \in DOMAIN PointsOf[d] /\ i # poll[b].pt  BY <1>2, <1>3, <1>4, PointsExist
  <2>2. PointsOf[d][i] # p /\ PointsOf[d][i] \in Points
    BY <1>2, <1>3, <2>1, OwnPlace, PointsExist
  <2>3. QED  BY <1>2, <2>2 DEF TypeOK, StateType
<1>7. Counted(d, n, failed, protocol)  BY <1>1, <1>2 DEF CountsAgree
<1>8. PointsOf[d][n + 1] = p /\ n + 1 \in DOMAIN PointsOf[d]  BY <1>2, <1>3, <1>4
<1>9. /\ f \in {0, 1} /\ g \in {0, 1} /\ g <= f
      /\ f = 0 => IsGood(PointsOf[d][n + 1])'
      /\ f = 1 /\ ReadOnly(d) => ~IsGood(PointsOf[d][n + 1])'
      /\ g = 1 => point'[PointsOf[d][n + 1]].status \in {CHANNEL_PROTOCOL_ERROR, CHANNEL_FAILED}
  BY <1>1, <1>5, <1>8 DEF Fits, IsGood, ReadOnly
<1>10. /\ DOMAIN PointsOf[d] = 1 .. Len(PointsOf[d]) /\ Len(PointsOf[d]) \in Nat
  BY <1>3, PointsExist
<1>11. Counted(d, n + 1, failed + f, protocol + g)'
  BY <1>4, <1>6, <1>7, <1>8, <1>9, <1>10, CountedNext
<1>12. Counted(CurrentDevice(b), poll[b].pt - 1, poll[b].failed, poll[b].protocol)'
  <2>1. poll'[b].pt - 1 = n + 1  BY <1>2, <1>4
  <2>2. QED  BY <1>2, <1>11, <2>1 DEF Counted, ReadOnly, IsGood
<1>13. QED  BY <1>12 DEF CountsAgree

\* A polling task that stays at its point keeps its counts.
LEMMA CountsStay ==
  ASSUME TypeOK, NEW x \in Buses, CountsAgree(x),
         poll'[x].pc # "sleep" => poll[x].pc # "sleep",
         poll'[x].dev = poll[x].dev, poll'[x].pt = poll[x].pt,
         poll'[x].failed = poll[x].failed, poll'[x].protocol = poll[x].protocol,
         poll[x].pc # "sleep" =>
           \A i \in DOMAIN PointsOf[CurrentDevice(x)] : Mends(PointsOf[CurrentDevice(x)][i])
  PROVE  CountsAgree(x)'
<1> SUFFICES ASSUME poll'[x].pc # "sleep"
             PROVE  Counted(CurrentDevice(x), poll[x].pt - 1, poll[x].failed, poll[x].protocol)'
  BY DEF CountsAgree
<1>1. PICK d, n, failed, protocol :
        /\ d = CurrentDevice(x) /\ n = poll[x].pt - 1
        /\ failed = poll[x].failed /\ protocol = poll[x].protocol
  OBVIOUS
<1>2. Counted(d, n, failed, protocol) /\ d \in Devices
  BY <1>1, Place DEF CountsAgree
<1>3. n \in 0 .. Len(PointsOf[d])  BY <1>1, PollCounts
<1>4. Len(PointsOf[d]) \in Nat /\ DOMAIN PointsOf[d] = 1 .. Len(PointsOf[d])
  BY <1>2, PointsExist
<1>5. \A i \in 1 .. n : Mends(PointsOf[d][i])
  <2>1. \A i \in 1 .. n : i \in DOMAIN PointsOf[d]  BY <1>3, <1>4
  <2>2. QED  BY <1>1, <2>1
<1>6. Counted(d, n, failed, protocol)'  BY <1>2, <1>3, <1>4, <1>5, CountedKept
<1>7. /\ CurrentDevice(x)' = d /\ poll'[x].pt - 1 = n
      /\ poll'[x].failed = failed /\ poll'[x].protocol = protocol
  BY <1>1 DEF CurrentDevice
<1>8. QED  BY <1>6, <1>7 DEF Counted, ReadOnly, IsGood

\* At the start of a device nothing is counted yet.
LEMMA CountsStart ==
  ASSUME NEW b \in Buses, NEW i, poll'[b] \in {StartOfDevice(i), Sleeping}
  PROVE  CountsAgree(b)'
<1>1. CASE poll'[b] = Sleeping
  BY <1>1 DEF CountsAgree, Sleeping, StartOfDevice
<1>2. CASE poll'[b] = StartOfDevice(i)
  <2>1. /\ poll'[b].pt - 1 = 0 /\ poll'[b].failed = 0 /\ poll'[b].protocol = 0
    BY <1>2 DEF StartOfDevice
  <2>2. PICK d : d = CurrentDevice(b)'  OBVIOUS
  <2>3. Counted(d, 0, 0, 0)'
    BY CountedStart DEF Counted, ReadOnly, IsGood
  <2>4. Counted(CurrentDevice(b), poll[b].pt - 1, poll[b].failed, poll[b].protocol)'
    BY <2>1, <2>2, <2>3 DEF Counted, ReadOnly, IsGood
  <2>5. QED  BY <2>4 DEF CountsAgree
<1>3. QED  BY <1>1, <1>2

LEMMA PollCountsStep ==
  ASSUME TypeOK, RestsUnpolled, HealthIsConsistent, CountInv, NEW b \in Buses, PollStep(b),
         NEW x \in Buses
  PROVE  CountsAgree(x)'
<1>1. CountsAgree(x)  BY DEF CountInv
<1>2. CASE x # b
  <2>1. poll'[x] = poll[x]  BY <1>2, PollFrame
  <2>2. ASSUME poll[x].pc # "sleep", NEW i \in DOMAIN PointsOf[CurrentDevice(x)]
        PROVE  Mends(PointsOf[CurrentDevice(x)][i])
    <3>1. CurrentDevice(x) \in Devices  BY <2>2, Place
    <3>2. poll[b].pc = "sleep" \/ CurrentDevice(x) # CurrentDevice(b)
      BY <1>2, <2>2, ApartOnLines
    <3>3. QED  BY <2>2, <3>1, <3>2, PollLeavesAlone DEF Mends
  <2>3. QED  BY <1>1, <2>1, <2>2, CountsStay
<1>3. CASE x = b
  <2>1. CASE Waits(b)
    <3>1. \A p : Mends(p)  BY <2>1 DEF Waits, Mends
    <3>2. QED  BY <1>1, <1>3, <2>1, <3>1, CountsStay DEF Waits
  <2>2. CASE Reads(b) \/ Fails(b) \/ Skips(b)
    BY <1>1, <1>3, <2>2, OutcomeFits, OutcomeCounts
  <2>3. CASE BeginCycle(b)
    <3>1. poll'[b] = StartOfDevice(1)  BY <2>3 DEF BeginCycle, TypeOK, LoopType
    <3>2. QED  BY <1>3, <3>1, CountsStart
  <2>4. CASE EndDevice(b)
    <3>1. \E i : poll'[b] \in {StartOfDevice(i), Sleeping}
      BY <2>4 DEF EndDevice, TypeOK, LoopType
    <3>2. QED  BY <1>3, <3>1, CountsStart
  <2>5. QED  BY <2>1, <2>2, <2>3, <2>4, PollCases
<1>4. QED  BY <1>2, <1>3

LEMMA PollDeservedStep ==
  ASSUME TypeOK, CountInv, NEW b \in Buses, PollStep(b), NEW d \in Devices
  PROVE  (Polling(d) \/ Deserved(d))'
<1>1. CASE EndDevice(b) /\ d = CurrentDevice(b)
  <2>1. PICK failed, protocol :
          /\ failed = poll[b].failed /\ protocol = poll[b].protocol
    OBVIOUS
  <2>2. poll[b].pc # "sleep" /\ poll[b].pt - 1 = Len(PointsOf[d]) /\ UNCHANGED point
    BY <1>1, PointsExist DEF EndDevice
  <2>3. Counted(d, Len(PointsOf[d]), failed, protocol)
    BY <1>1, <2>1, <2>2 DEF CountInv, CountsAgree
  <2>4. blocks'[d].status = DeviceStatus(failed, protocol, Len(PointsOf[d]))
    BY <1>1, <2>1, EndDeviceReports
  <2>5. QED  BY <2>2, <2>3, <2>4, EndDeserved
<1>2. CASE ~(EndDevice(b) /\ d = CurrentDevice(b))
  <2>1. CASE poll[b].pc # "sleep" /\ d = CurrentDevice(b)
    <3>1. ~EndDevice(b) /\ ~BeginCycle(b)  BY <1>2, <2>1 DEF BeginCycle
    <3>2. poll'[b].pc # "sleep" /\ poll'[b].dev = poll[b].dev
      BY <3>1, PollCases DEF Reads, Fails, Skips, Waits, Outcome
    <3>3. CurrentDevice(b)' = d  BY <2>1, <3>2 DEF CurrentDevice
    <3>4. QED  BY <3>2, <3>3 DEF Polling
  <2>2. CASE ~(poll[b].pc # "sleep" /\ d = CurrentDevice(b))
    <3>1. \A i \in DOMAIN PointsOf[d] : Mends(PointsOf[d][i])
      BY <2>2, PollLeavesAlone DEF Mends
    <3>2. blocks'[d].status = blocks[d].status
      <4>1. CASE ~EndDevice(b)  BY <4>1, PollPublishes
      <4>2. CASE EndDevice(b)
        <5>1. d # CurrentDevice(b)  BY <1>2, <4>2
        <5>2. QED  BY <4>2, <5>1, EndDeviceReports
      <4>3. QED  BY <4>1, <4>2
    <3>3. CASE Deserved(d)  BY <3>1, <3>2, <3>3, DeservedKept
    <3>4. CASE Polling(d)
      <4>1. PICK x \in Buses : poll[x].pc # "sleep" /\ CurrentDevice(x) = d
        BY <3>4 DEF Polling
      <4>2. x # b  BY <2>2, <4>1
      <4>3. poll'[x] = poll[x]  BY <4>2, PollFrame
      <4>4. QED  BY <4>1, <4>3 DEF Polling, CurrentDevice
    <3>5. QED  BY <3>3, <3>4 DEF CountInv
  <2>3. QED  BY <2>1, <2>2
<1>3. QED  BY <1>1, <1>2

\* A step of anything but a polling task.
LEMMA OtherCounts ==
  ASSUME TypeOK, CountInv, UNCHANGED poll, \A d \in Devices : blocks'[d].status = blocks[d].status,
         \A p \in Points : Mends(p)
  PROVE  CountInv'
<1>1. \A d \in Devices : \A i \in DOMAIN PointsOf[d] : Mends(PointsOf[d][i])
  BY PointsExist
<1>2. ASSUME NEW x \in Buses PROVE CountsAgree(x)'
  BY <1>1, Place, CountsStay DEF CountInv
<1>3. ASSUME NEW d \in Devices PROVE (Polling(d) \/ Deserved(d))'
  <2>1. Polling(d)' <=> Polling(d)  BY DEF Polling, CurrentDevice
  <2>2. Deserved(d) => Deserved(d)'  BY <1>1, DeservedKept
  <2>3. QED  BY <2>1, <2>2 DEF CountInv
<1>4. QED  BY <1>2, <1>3 DEF CountInv

LEMMA CountStep ==
  ASSUME TypeOK, RestsUnpolled, HealthIsConsistent, CountInv, [Next]_vars
  PROVE  CountInv'
<1>1. ASSUME NEW b \in Buses, PollStep(b) PROVE CountInv'
  BY <1>1, PollCountsStep, PollDeservedStep DEF CountInv
<1>2. ASSUME NEW w \in WriteIds, WriteStep(w) \/ ClientWrite(w) PROVE CountInv'
  <2>1. UNCHANGED poll /\ UNCHANGED blocks  BY <1>2, WriteFrame, WritePublishes
  <2>2. ASSUME NEW p \in Points PROVE Mends(p)
    <3>1. Cleared(point[p], CHANNEL_OK).status \in Good
      BY ClearedSound, Codes DEF TypeOK, StateType
    <3>2. QED  BY <1>2, <3>1, WriteTouches DEF Mends
  <2>3. QED  BY <2>1, <2>2, OtherCounts
<1>3. CASE UNCHANGED <<poll, point, blocks>>  BY <1>3, OtherCounts DEF Mends
<1>4. QED  BY <1>1, <1>2, <1>3 DEF Next, Drift, Stabilise, Untouched, Polled, vars

LEMMA CountInit ==
  ASSUME Init
  PROVE  CountInv
<1>1. \A b \in Buses : poll[b].pc = "sleep"  BY DEF Init, Sleeping, StartOfDevice
<1>2. \A d \in Devices : blocks[d].status = STATUS_OFFLINE  BY DEF Init, BlockOf
<1>3. \A p \in Points : ~IsGood(p)  BY Codes DEF Init, IsGood
<1>4. ASSUME NEW d \in Devices PROVE Deserved(d)
  BY <1>2, <1>3, PointsExist
  DEF Deserved, STATUS_OK, STATUS_OFFLINE, STATUS_DEGRADED, STATUS_PROTOCOL_ERROR
<1>5. QED  BY <1>1, <1>4 DEF CountInv, CountsAgree

LEMMA CountInvariance == Spec => []CountInv
<1>1. Init => CountInv  BY CountInit
<1>2. TypeOK /\ RestsUnpolled /\ HealthIsConsistent /\ CountInv /\ [Next]_vars => CountInv'
  BY CountStep
<1>3. QED  BY <1>1, <1>2, TypesHold, HealthInvariance, PTL DEF Spec

\* For any number of lines, devices and points, whatever comes of their polls and
\* of the writes in between: the status a device reported last is the one its
\* points deserve, until it is polled again.
THEOREM StatusesHold == Spec => []StatusesAreDeserved
<1>1. CountInv => StatusesAreDeserved
  <2> SUFFICES ASSUME CountInv, NEW d \in Devices, ~Polling(d)
               PROVE  LET points == Elements(PointsOf[d])
                          status == blocks[d].status
                          good   == {p \in points : point[p].status \in Good}
                      IN /\ status = STATUS_OK => good = points
                         /\ points \cap Writable = {} =>
                              /\ status \in {STATUS_OFFLINE, STATUS_PROTOCOL_ERROR} => good = {}
                              /\ status = STATUS_PROTOCOL_ERROR
                                   => \A p \in points :
                                        point[p].status \in {CHANNEL_PROTOCOL_ERROR, CHANNEL_FAILED}
                              /\ status = STATUS_DEGRADED => good # {} /\ good # points
    BY DEF StatusesAreDeserved
  <2> DEFINE points == Elements(PointsOf[d])
  <2>1. Deserved(d)  BY DEF CountInv
  <2>2. \A p : p \in points <=> \E i \in DOMAIN PointsOf[d] : p = PointsOf[d][i]
    BY DEF Elements
  <2>3. points \cap Writable = {} => ReadOnly(d)  BY <2>2 DEF ReadOnly
  <2> HIDE DEF points
  <2>4. QED  BY <2>1, <2>2, <2>3 DEF Deserved, IsGood, points
<1>2. QED  BY <1>1, CountInvariance, PTL

-----------------------------------------------------------------------------
(* The counters: what the gateway counted is what its devices counted *)

\* The sum of counter k over the devices, which Total folds one device at a time.
Sum(k) == Partials(blocks, k, Devices)[Devices]

Fields == {"success", "timeouts", "protocol", "cycles"}

LEMMA TotalIsSum ==
  ASSUME NEW k
  PROVE  Total(k) = Sum(k) % COUNTER_MODULUS
BY DEF Total, MapThenSumSet, MapThenFoldSet, Sum, Partials, Recurs, Pick

\* Counter k of the gateway and of one device move together, or not at all.
MovesTogether(k) ==
  \/ /\ gateway'[k] = gateway[k]
     /\ \A d \in Devices : blocks'[d][k] = blocks[d][k]
  \/ /\ gateway'[k] = IncCounter(gateway[k])
     /\ \E d \in Devices : /\ blocks'[d][k] = IncCounter(blocks[d][k])
                           /\ \A e \in Devices \ {d} : blocks'[e][k] = blocks[e][k]

Tallies(k) == gateway[k] = Sum(k) % COUNTER_MODULUS

LEMMA CountersAreCounts ==
  ASSUME TypeOK, NEW k \in Fields
  PROVE  gateway[k] \in Counts /\ \A d \in Devices : blocks[d][k] \in Counts
<1>1. blocks \in [Devices -> Block] /\ gateway \in Counters  BY DEF TypeOK, StateType
<1>2. QED  BY <1>1 DEF Block, Counters, Fields

LEMMA TallyStep ==
  ASSUME TypeOK, NEW k \in Fields, Tallies(k), MovesTogether(k)
  PROVE  Tallies(k)'
<1>1. /\ gateway[k] \in Int /\ \A d \in Devices : blocks[d][k] \in Counts /\ blocks[d][k] \in Int
      /\ COUNTER_MODULUS \in Nat \ {0} /\ IsFiniteSet(Devices)
  BY CountersAreCounts, ModelAssumption, ListingAssumption DEF Counts
<1>2. Sum(k) \in Int
  <2>1. IsFiniteSet(Devices) /\ \A d \in Devices : blocks[d][k] \in Int  BY <1>1
  <2>2. Partials(blocks, k, Devices) \in [SUBSET Devices -> Int]  BY <2>1, PartialsExist
  <2>3. QED  BY <2>2 DEF Sum
<1>3. CASE /\ gateway'[k] = gateway[k]
           /\ \A d \in Devices : blocks'[d][k] = blocks[d][k]
  <2>1. CASE Devices = {}
    <3>1. Sum(k) = 0
      <4>1. \A d \in Devices : blocks[d][k] = 0  BY <2>1
      <4>2. QED  BY <1>1, <4>1, SumOfZeros DEF Sum
    <3>2. Sum(k)' = 0
      <4>1. \A d \in Devices : blocks'[d][k] = 0  BY <2>1
      <4>2. QED  BY <1>1, <4>1, SumOfZeros DEF Sum
    <3>3. QED  BY <1>3, <3>1, <3>2 DEF Tallies
  <2>2. CASE Devices # {}
    <3>1. PICK d \in Devices : TRUE  BY <2>2
    <3>2. blocks'[d][k] = blocks[d][k] + 0  BY <1>1, <1>3
    <3>3. Sum(k)' = Sum(k) + 0  BY <1>1, <1>3, <3>2, OneTermMoves DEF Sum
    <3>4. QED  BY <1>2, <1>3, <3>3 DEF Tallies
  <2>3. QED  BY <2>1, <2>2
<1>4. ASSUME gateway'[k] = IncCounter(gateway[k]), NEW d \in Devices,
             blocks'[d][k] = IncCounter(blocks[d][k]),
             \A e \in Devices \ {d} : blocks'[e][k] = blocks[e][k]
      PROVE  Tallies(k)'
  <2> DEFINE x == blocks[d][k]
             delta == IncCounter(x) - x
  <2>1. IncCounter(x) \in Int /\ x \in Int /\ x \in 0 .. COUNTER_MODULUS - 1
    BY <1>1, CounterType DEF Counts
  <2>2. delta \in Int /\ blocks'[d][k] = x + delta  BY <1>4, <2>1
  <2>3. \A e \in Devices : blocks'[e][k] \in Int  BY <1>1, <1>4, <2>1
  <2> HIDE DEF delta
  <2>4. Sum(k)' = Sum(k) + delta  BY <1>1, <1>4, <2>2, <2>3, OneTermMoves DEF Sum
  <2>5. Sum(k)' = Sum(k) + ((x + 1) % COUNTER_MODULUS) - x
    BY <1>2, <2>1, <2>4 DEF delta, IncCounter
  <2>6. Sum(k)' \in Int  BY <1>2, <2>2, <2>4
  <2> HIDE DEF x
  <2>7. Sum(k)' % COUNTER_MODULUS = ((Sum(k) % COUNTER_MODULUS) + 1) % COUNTER_MODULUS
    BY <1>1, <1>2, <2>1, <2>5, <2>6, WrapsTogether
  <2>8. QED  BY <1>4, <2>7 DEF Tallies, IncCounter
<1>5. QED  BY <1>3, <1>4 DEF MovesTogether

LEMMA BumpFields ==
  ASSUME NEW c \in Block \cup Counters, NEW which, NEW k \in Fields
  PROVE  Bump(c, which)[k] = IF k \in which \ {"cycles"} THEN IncCounter(c[k]) ELSE c[k]
<1>1. /\ Bump(c, which).success = IF "success" \in which THEN IncCounter(c.success) ELSE c.success
      /\ Bump(c, which).timeouts = IF "timeouts" \in which THEN IncCounter(c.timeouts) ELSE c.timeouts
      /\ Bump(c, which).protocol = IF "protocol" \in which THEN IncCounter(c.protocol) ELSE c.protocol
      /\ Bump(c, which).cycles = c.cycles
  BY Zenon DEF Bump, Block, Counters
<1>2. QED  BY <1>1 DEF Fields

\* Every action that counts gives the same increment to a device and to the gateway.
LEMMA CountMoves ==
  ASSUME TypeOK, NEW d \in Devices, NEW which, NEW others, Count(d, which, others),
         NEW k \in Fields, k \in which <=> k \in others
  PROVE  MovesTogether(k)
<1>1. blocks \in [Devices -> Block] /\ gateway \in Counters  BY DEF TypeOK, StateType
<1>2. /\ blocks' = [blocks EXCEPT ![d] = Bump(blocks[d], which)]
      /\ gateway' = Bump(gateway, others)
  BY DEF Count
<1>3. \A e \in Devices \ {d} : blocks'[e][k] = blocks[e][k]  BY <1>1, <1>2
<1>4. blocks'[d][k] = Bump(blocks[d], which)[k] /\ gateway'[k] = Bump(gateway, others)[k]
  BY <1>1, <1>2
<1>5. QED  BY <1>1, <1>3, <1>4, BumpFields DEF MovesTogether

LEMMA EndDeviceMoves ==
  ASSUME TypeOK, NEW b \in Buses, EndDevice(b), NEW k \in Fields
  PROVE  MovesTogether(k)
<1> DEFINE d == CurrentDevice(b)
<1>1. blocks \in [Devices -> Block] /\ gateway \in Counters /\ d \in Devices
  BY CurrentIsPolled DEF TypeOK, StateType, EndDevice
<1>2. PICK status, error :
        /\ blocks' = [blocks EXCEPT ![d] = [blocks[d] EXCEPT !.cycles = IncCounter(@), !.error = error,
                                                             !.status = status]]
        /\ gateway' = [gateway EXCEPT !.cycles = IncCounter(@), !.error = error]
  BY DEF EndDevice
<1> DEFINE new == [blocks[d] EXCEPT !.cycles = IncCounter(@), !.error = error, !.status = status]
<1>3. /\ new.success = blocks[d].success /\ new.timeouts = blocks[d].timeouts
      /\ new.protocol = blocks[d].protocol /\ new.cycles = IncCounter(blocks[d].cycles)
  BY <1>1, Zenon DEF Block
<1>4. blocks'[d] = new  BY <1>1, <1>2
<1>5. /\ gateway'.success = gateway.success /\ gateway'.timeouts = gateway.timeouts
      /\ gateway'.protocol = gateway.protocol /\ gateway'.cycles = IncCounter(gateway.cycles)
  BY <1>1, <1>2, Zenon DEF Counters
<1>6. \A e \in Devices \ {d} : blocks'[e][k] = blocks[e][k]  BY <1>1, <1>2
<1> HIDE DEF new, d
<1>7. QED  BY <1>1, <1>3, <1>4, <1>5, <1>6 DEF Fields, MovesTogether

\* An I/O error is one of the faults that happen.
RaisedAsFault == \A b \in Buses : poll[b].reply.kind = "io" => "io" \in Faults

LEMMA PollMovesTogether ==
  ASSUME TypeOK, RaisedAsFault, NEW b \in Buses, PollStep(b),
         NEW k \in Fields, k = "timeouts" => "io" \notin Faults
  PROVE  MovesTogether(k)
<1>1. CASE PollValue(b)
  <2>1. CurrentDevice(b) \in Devices  BY <1>1, CurrentIsPolled DEF PollValue, AtReply
  <2>2. QED  BY <1>1, <2>1, CountMoves DEF PollValue
<1>2. CASE PollTimeout(b)
  <2>1. CurrentDevice(b) \in Devices  BY <1>2, CurrentIsPolled DEF PollTimeout, AtReply
  <2>2. QED  BY <1>2, <2>1, CountMoves DEF PollTimeout, FailPoint
<1>3. CASE PollIOError(b)
  <2>1. CurrentDevice(b) \in Devices  BY <1>3, CurrentIsPolled DEF PollIOError, AtReply
  <2>2. k # "timeouts"  BY <1>3 DEF PollIOError, RaisedAsFault
  <2>3. QED  BY <1>3, <2>1, <2>2, CountMoves DEF PollIOError, FailPoint
<1>4. CASE PollProtocolError(b)
  <2>1. CurrentDevice(b) \in Devices  BY <1>4, CurrentIsPolled DEF PollProtocolError, AtReply
  <2>2. QED  BY <1>4, <2>1, CountMoves DEF PollProtocolError, FailPoint
<1>5. CASE EndDevice(b)  BY <1>5, EndDeviceMoves
<1>6. CASE UNCHANGED <<blocks, gateway>>  BY <1>6 DEF MovesTogether
<1>7. QED
  BY <1>1, <1>2, <1>3, <1>4, <1>5, <1>6
  DEF PollStep, BeginCycle, SkipPoint, RequestPoint, ThreadRead, RetryAfterPause, EndOfPause,
      RetryAtOnce, PollEmpty, Polled

LEMMA RaisedStep ==
  ASSUME TypeOK, RaisedAsFault, [Next]_vars
  PROVE  RaisedAsFault'
<1>1. ASSUME NEW b \in Buses, PollStep(b) PROVE RaisedAsFault'
  <2>1. \A x \in Buses \ {b} : poll'[x] = poll[x]  BY <1>1, PollFrame
  <2>2. poll'[b].reply.kind = "io" => "io" \in Faults
    <3>1. poll[b] \in PollRecord /\ poll \in [Buses -> PollRecord]  BY DEF TypeOK, LoopType
    <3>2. CASE ThreadRead(b)
      <4>1. PICK reply : /\ poll' = [poll EXCEPT ![b].pc = "reply", ![b].reply = reply]
                         /\ reply.kind = "value" \/ reply.kind \in Faults
        BY <3>2 DEF ThreadRead
      <4>2. [poll[b] EXCEPT !.pc = "reply", !.reply = reply].reply = reply
        BY <3>1, Zenon DEF PollRecord
      <4>3. poll'[b].reply = reply  BY <3>1, <4>1, <4>2
      <4>4. QED  BY <4>1, <4>3
    <3>3. CASE ~ThreadRead(b)
      <4>1. poll'[b].reply = poll[b].reply \/ poll'[b].reply = NoReply
        <5> DEFINE Same == poll'[b].reply = poll[b].reply \/ poll'[b].reply = NoReply
        <5>1. \A i : StartOfDevice(i).reply = NoReply /\ Sleeping.reply = NoReply
          BY Zenon DEF StartOfDevice, Sleeping
        <5>2. ASSUME NEW failed, NEW protocol, NEW error, Settle(b, failed, protocol, error)
              PROVE  Same
          <6>1. Settled(poll[b], failed, protocol, error).reply = NoReply
            BY <3>1, Zenon DEF Settled, PollRecord
          <6>2. QED  BY <3>1, <5>2, <6>1 DEF Settle
        <5>3. CASE BeginCycle(b)  BY <3>1, <5>1, <5>3 DEF BeginCycle
        <5>4. CASE SkipPoint(b)  BY <3>1, <5>4, SMT DEF SkipPoint, PollRecord
        <5>5. CASE RequestPoint(b)  BY <3>1, <5>5, SMT DEF RequestPoint, PollRecord
        <5>6. CASE RetryAfterPause(b)  BY <3>1, <5>6, SMT DEF RetryAfterPause, PollRecord
        <5>7. CASE EndOfPause(b)  BY <3>1, <5>7, SMT DEF EndOfPause, PollRecord
        <5>8. CASE RetryAtOnce(b)  BY <3>1, <5>8, SMT DEF RetryAtOnce, PollRecord
        <5>9. CASE EndDevice(b)
          <6>1. \/ \E i : poll' = [poll EXCEPT ![b] = StartOfDevice(i)]
                \/ poll' = [poll EXCEPT ![b] = Sleeping]
            BY <5>9 DEF EndDevice
          <6>2. QED  BY <3>1, <5>1, <6>1
        <5>10. CASE PollValue(b) \/ PollEmpty(b)  BY <5>2, <5>10 DEF PollValue, PollEmpty
        <5>11. CASE PollTimeout(b) \/ PollIOError(b) \/ PollProtocolError(b)
          BY <5>2, <5>11 DEF PollTimeout, PollIOError, PollProtocolError, FailPoint
        <5>12. QED
          BY <1>1, <3>3, <5>3, <5>4, <5>5, <5>6, <5>7, <5>8, <5>9, <5>10, <5>11 DEF PollStep
      <4>2. QED  BY <4>1 DEF NoReply, RaisedAsFault
    <3>4. QED  BY <3>2, <3>3
  <2>3. QED  BY <2>1, <2>2 DEF RaisedAsFault
<1>2. CASE UNCHANGED poll  BY <1>2 DEF RaisedAsFault
<1>3. QED
  BY <1>1, <1>2, WriteFrame DEF Next, Drift, Stabilise, Untouched, vars

\* What stands for each counter; the timeouts of the gateway count I/O errors too.
CounterInv == RaisedAsFault /\ \A k \in Fields : (k = "timeouts" => "io" \notin Faults) => Tallies(k)

LEMMA CounterStep ==
  ASSUME TypeOK, CounterInv, [Next]_vars
  PROVE  CounterInv'
<1>1. RaisedAsFault'  BY RaisedStep DEF CounterInv
<1>2. ASSUME NEW k \in Fields, k = "timeouts" => "io" \notin Faults
      PROVE  Tallies(k)'
  <2>1. MovesTogether(k)
    <3>1. ASSUME NEW b \in Buses, PollStep(b) PROVE MovesTogether(k)
      BY <1>2, <3>1, PollMovesTogether DEF CounterInv
    <3>2. CASE UNCHANGED <<blocks, gateway>>  BY <3>2 DEF MovesTogether
    <3>3. QED
      BY <3>1, <3>2
      DEF Next, WriteStep, ClientWrite, RefuseWrite, QueueWrite, ThreadWrite, ThreadReadback,
          ConfirmWrite, RollBack, Drift, Stabilise, Untouched, Polled, vars
  <2>2. QED  BY <1>2, <2>1, TallyStep DEF CounterInv
<1>3. QED  BY <1>1, <1>2 DEF CounterInv

LEMMA CounterInit ==
  ASSUME Init
  PROVE  CounterInv
<1>1. RaisedAsFault  BY DEF Init, RaisedAsFault, Sleeping, StartOfDevice, NoReply
<1>2. ASSUME NEW k \in Fields PROVE Tallies(k)
  <2>1. gateway[k] = 0  BY DEF Init, NoCounters, Fields
  <2>2. \A d \in Devices : blocks[d][k] = 0  BY DEF Init, BlockOf, NoCounters, Fields
  <2>3. Sum(k) = 0  BY <2>2, ListingAssumption, SumOfZeros DEF Sum
  <2>4. 0 % COUNTER_MODULUS = 0
    <3>1. 0 = 0 * COUNTER_MODULUS + 0 /\ 0 \in 0 .. COUNTER_MODULUS - 1  BY ModelAssumption
    <3>2. QED  BY <3>1, ModelAssumption, RemainderIs
  <2>5. QED  BY <2>1, <2>3, <2>4 DEF Tallies
<1>3. QED  BY <1>1, <1>2 DEF CounterInv

\* For any number of lines and devices and any modulus: no interleaving of the
\* polling tasks loses an increment, so the gateway's counters are the sums of the
\* devices' counters, each wrapped at the same modulus.
THEOREM CountersHold == Spec => []CountersAgree
<1>1. Init => CounterInv  BY CounterInit
<1>2. TypeOK /\ CounterInv /\ [Next]_vars => CounterInv'  BY CounterStep
<1>3. CounterInv => CountersAgree
  BY TotalIsSum DEF CounterInv, CountersAgree, Tallies, Fields
<1>4. QED  BY <1>1, <1>2, <1>3, TypesHold, PTL DEF Spec

-----------------------------------------------------------------------------
(* Which point a logic unit reads: the last one configured for its channel *)

LEMMA PointAtIsListed ==
  ASSUME NEW d \in Devices, NEW parameter, NEW channel, PointAt(d, parameter, channel) # None
  PROVE  \E i \in DOMAIN PointsOf[d] : PointAt(d, parameter, channel) = PointsOf[d][i]
<1> DEFINE here == {i \in DOMAIN PointsOf[d] : /\ Parameter[PointsOf[d][i]] = parameter
                                               /\ Channel[PointsOf[d][i]] = channel}
<1>1. here # {}  BY DEF PointAt
<1>2. here \in SUBSET (1 .. Len(PointsOf[d])) /\ Len(PointsOf[d]) \in Nat  BY PointsExist
<1>3. \E i \in here : \A j \in here : j <= i  BY <1>1, <1>2, GreatestUpTo
<1>4. (CHOOSE i \in here : \A j \in here : j <= i) \in here  BY <1>3
<1>5. QED  BY <1>1, <1>4 DEF PointAt

\* The mask of a device depends on the readings of its points only.
LEMMA SameReadings ==
  ASSUME NEW d \in Devices, NEW old, NEW new,
         \A i \in DOMAIN PointsOf[d] : new[PointsOf[d][i]] = old[PointsOf[d][i]],
         NEW previous
  PROVE  LogicUnitMask(new, d, previous) = LogicUnitMask(old, d, previous)
<1>1. ASSUME NEW parameter, NEW channel
      PROVE  ReadingAt(new, d, parameter, channel) = ReadingAt(old, d, parameter, channel)
  <2> DEFINE p == PointAt(d, parameter, channel)
  <2>1. p # None => new[p] = old[p]  BY PointAtIsListed
  <2> HIDE DEF p
  <2>2. (IF p = None THEN None ELSE new[p]) = (IF p = None THEN None ELSE old[p])  BY <2>1
  <2>3. QED  BY <2>2 DEF ReadingAt, p
<1>2. QED  BY <1>1 DEF LogicUnitMask

-----------------------------------------------------------------------------
(* One logic unit *)

\* The logic unit of channel n, which is on if n is in the mask m.
Unit(readings, d, n, m) ==
  EvaluateLogicUnit(ReadingAt(readings, d, "rEAd", n), ReadingAt(readings, d, "C.SP", n),
                    ReadingAt(readings, d, "HYSt", n), ReadingAt(readings, d, "AL.t", n), n \in m)

LEMMA MaskUnits ==
  ASSUME NEW readings, NEW d, NEW m
  PROVE  /\ LogicUnitMask(readings, d, m) = {n \in LogicUnit : Unit(readings, d, n, m)}
         /\ LogicUnitMask(readings, d, m) \subseteq LogicUnit
BY DEF LogicUnitMask, Unit

\* Evaluated again with the same readings, a unit stays what it has become.
LEMMA UnitTwice ==
  ASSUME NEW readings, NEW d, NEW n, NEW m, NEW once, n \in once <=> Unit(readings, d, n, m)
  PROVE  Unit(readings, d, n, once) <=> n \in once
BY Zenon DEF Unit, EvaluateLogicUnit

LEMMA MaskTwice ==
  ASSUME NEW readings, NEW d, NEW m
  PROVE  LET once == LogicUnitMask(readings, d, m) IN LogicUnitMask(readings, d, once) = once
<1>1. PICK once : once = LogicUnitMask(readings, d, m)  OBVIOUS
<1>2. ASSUME NEW n \in LogicUnit PROVE Unit(readings, d, n, once) <=> n \in once
  BY <1>1, MaskUnits, UnitTwice
<1>3. LogicUnitMask(readings, d, once) = once  BY <1>1, <1>2, MaskUnits
<1>4. QED  BY <1>1, <1>3

\* A heater or a cooler unit changes only with its reading outside the dead band.
LEMMA HeldInDeadBand ==
  ASSUME NEW reading \in Int, NEW setpoint \in Int, NEW hysteresis \in Int \cup {None},
         NEW alType \in {1, 2}, NEW previous \in BOOLEAN,
         ~ (EvaluateLogicUnit(reading, setpoint, hysteresis, alType, previous) <=> previous)
  PROVE  reading < Low(setpoint, hysteresis) \/ reading > High(setpoint, hysteresis)
<1>1. Low(setpoint, hysteresis) \in Int /\ High(setpoint, hysteresis) \in Int
  BY DEF Low, High, Magnitude
<1>2. None \notin {reading, setpoint, alType}  BY NoneAssumption
<1> DEFINE low == Low(setpoint, hysteresis)
           high == High(setpoint, hysteresis)
<1> HIDE DEF low, high
<1>3. EvaluateLogicUnit(reading, setpoint, hysteresis, alType, previous) <=>
        \/ alType = 1 /\ (reading < low \/ (previous /\ reading <= high))
        \/ alType = 2 /\ (reading > high \/ (previous /\ reading >= low))
        \/ alType = 3 /\ low < reading /\ reading < high
        \/ alType = 4 /\ (reading < low \/ reading > high)
  BY <1>2, Zenon DEF EvaluateLogicUnit, low, high
<1>4. CASE alType = 1
  <2>1. EvaluateLogicUnit(reading, setpoint, hysteresis, alType, previous)
          <=> reading < low \/ (previous /\ reading <= high)
    BY <1>3, <1>4
  <2>2. reading < low \/ ~ (reading <= high)  BY <2>1
  <2>3. QED  BY <1>1, <2>2 DEF low, high
<1>5. CASE alType = 2
  <2>1. EvaluateLogicUnit(reading, setpoint, hysteresis, alType, previous)
          <=> reading > high \/ (previous /\ reading >= low)
    BY <1>3, <1>5
  <2>2. reading > high \/ ~ (reading >= low)  BY <2>1
  <2>3. QED  BY <1>1, <2>2 DEF low, high
<1>6. QED  BY <1>4, <1>5

-----------------------------------------------------------------------------
(* Who changes the readings and the masks *)

LEMMA HomeOf ==
  ASSUME NEW p \in Points
  PROVE  /\ DeviceOf(p) \in Devices
         /\ \A d \in Devices : (\E i \in DOMAIN PointsOf[d] : PointsOf[d][i] = p) => d = DeviceOf(p)
<1>1. \E d \in Devices : p \in Elements(PointsOf[d])  BY ListingAssumption DEF Elements
<1>2. DeviceOf(p) \in Devices /\ p \in Elements(PointsOf[DeviceOf(p)])  BY <1>1 DEF DeviceOf
<1>3. QED  BY <1>2, OwnPlace DEF Elements

\* A polling task changes the reading of the point whose answer it has, only.
LEMMA PollReadings ==
  ASSUME TypeOK, NEW b \in Buses, PollStep(b), NEW p \in Points, value'[p] # value[p]
  PROVE  /\ poll[b].pc = "reply" /\ p = CurrentPoint(b)
         /\ ~EndDevice(b)
<1>1. value \in [Points -> Values \cup {None}]  BY DEF TypeOK, StateType
<1>2. PollValue(b) \/ PollEmpty(b) \/ PollProtocolError(b)
  BY DEF PollStep, BeginCycle, SkipPoint, RequestPoint, ThreadRead, RetryAfterPause, EndOfPause,
         RetryAtOnce, PollTimeout, PollIOError, EndDevice, Polled
<1>3. poll[b].pc = "reply"  BY <1>2 DEF PollValue, PollEmpty, PollProtocolError, AtReply
<1>4. \E v : value' = [value EXCEPT ![CurrentPoint(b)] = v]
  <2>1. CASE PollValue(b)  BY <2>1 DEF PollValue
  <2>2. CASE PollEmpty(b)  BY <2>2 DEF PollEmpty
  <2>3. CASE PollProtocolError(b)
    <3>1. \/ UNCHANGED value
          \/ value' = [value EXCEPT ![CurrentPoint(b)] = poll[b].reply.value]
      BY <2>3 DEF PollProtocolError
    <3>2. QED  BY <3>1
  <2>4. QED  BY <1>2, <2>1, <2>2, <2>3
<1>5. p = CurrentPoint(b)  BY <1>1, <1>4
<1>6. ~EndDevice(b)  BY <1>3 DEF EndDevice
<1>7. QED  BY <1>3, <1>5, <1>6

\* The polling task of b, then, leaves alone the readings of every device it is not at.
LEMMA PollKeepsMask ==
  ASSUME TypeOK, NEW b \in Buses, PollStep(b), NEW d \in Devices,
         poll[b].pc = "sleep" \/ d # CurrentDevice(b), NEW m
  PROVE  LogicUnitMask(value', d, m) = LogicUnitMask(value, d, m)
<1>1. ASSUME NEW i \in DOMAIN PointsOf[d]
      PROVE  value'[PointsOf[d][i]] = value[PointsOf[d][i]]
  <2> SUFFICES ASSUME value'[PointsOf[d][i]] # value[PointsOf[d][i]] PROVE FALSE  OBVIOUS
  <2>1. PointsOf[d][i] \in Points  BY PointsExist
  <2>2. poll[b].pc = "reply" /\ PointsOf[d][i] = CurrentPoint(b)  BY <2>1, PollReadings
  <2>3. poll[b].pt \in DOMAIN PointsOf[CurrentDevice(b)]  BY <2>2, AtReplyIsAtPoint
  <2>4. CurrentDevice(b) \in Devices  BY <2>2, Place
  <2>5. d = CurrentDevice(b)  BY <2>2, <2>3, <2>4, OwnPlace DEF CurrentPoint
  <2>6. QED  BY <2>2, <2>5
<1>2. QED  BY <1>1, SameReadings

\* What a confirmed write does to readings and masks; no other step of a write
\* or of a client changes any.
LEMMA WriteReadings ==
  ASSUME TypeOK, NEW w \in WriteIds, WriteStep(w) \/ ClientWrite(w)
  PROVE  \/ UNCHANGED <<value, mask>>
         \/ \E e \in Devices :
              /\ \A d \in Devices \ {e} : \A m : LogicUnitMask(value', d, m) = LogicUnitMask(value, d, m)
              /\ mask' = [mask EXCEPT ![e] = LogicUnitMask(value', e, mask[e])]
              /\ hr'[MaskCell(e)] = mask'[e]
              /\ \A d \in Devices \ {e} : hr'[MaskCell(d)] = hr[MaskCell(d)]
<1>1. CASE ConfirmWrite(w)
  <2> DEFINE p == writes[w].point
             e == DeviceOf(p)
  <2>1. p \in Points  BY <1>1, WritePoint DEF ConfirmWrite
  <2>2. value' = [value EXCEPT ![p] = writes[w].got]  BY <1>1 DEF ConfirmWrite
  <2>3. \A q \in Points \ {p} : value'[q] = value[q]  BY <2>2 DEF TypeOK, StateType
  <2>4. ASSUME NEW d \in Devices \ {e}, NEW m
        PROVE  LogicUnitMask(value', d, m) = LogicUnitMask(value, d, m)
    <3>1. \A i \in DOMAIN PointsOf[d] : PointsOf[d][i] \in Points \ {p}
      BY <2>1, HomeOf, PointsExist
    <3>2. QED  BY <2>3, <3>1, SameReadings
  <2>5. mask' = [mask EXCEPT ![e] = LogicUnitMask(value', e, mask[e])]
    BY <1>1 DEF ConfirmWrite, MaskAfterWrite
  <2>6. e \in Devices  BY <2>1, HomeOf
  <2> DEFINE got == writes[w].got
  <2>7. hr' = [c \in Cells |-> CASE c = ValueCell(p)  -> got
                                 [] c = StatusCell(p) -> CHANNEL_OK
                                 [] c = MaskCell(e)   -> mask'[e]
                                 [] OTHER             -> hr[c]]
    BY <1>1 DEF ConfirmWrite
  <2> HIDE DEF p, e, got
  <2>8. \A d \in Devices : MaskCell(d) \in Cells  BY DEF Cells
  <2>9. \A d : MaskCell(d) # ValueCell(p) /\ MaskCell(d) # StatusCell(p)  BY CellsApart
  <2>10. hr'[MaskCell(e)] = mask'[e]  BY <2>6, <2>7, <2>8, <2>9
  <2>11. \A d \in Devices \ {e} : hr'[MaskCell(d)] = hr[MaskCell(d)]
    BY <2>7, <2>8, <2>9, CellsApart
  <2>12. QED  BY <2>4, <2>5, <2>6, <2>10, <2>11
<1>2. CASE ~ConfirmWrite(w)
  BY <1>2 DEF WriteStep, ClientWrite, RefuseWrite, QueueWrite, ThreadWrite, ThreadReadback,
              RollBack, Untouched
<1>3. QED  BY <1>1, <1>2

-----------------------------------------------------------------------------
(* MaskFitsReadings.  The strengthening: the register shows the mask even  *)
(* while the device is polled.                                             *)

Fitting(d) == mask[d] = LogicUnitMask(value, d, mask[d])

MaskInv ==
  \A d \in Devices :
    /\ Touched(MaskCell(d)) \/ hr[MaskCell(d)] = mask[d]
    /\ Polling(d) \/ Fitting(d)

LEMMA MaskInit ==
  ASSUME Init
  PROVE  MaskInv
<1> SUFFICES ASSUME NEW d \in Devices
             PROVE  hr[MaskCell(d)] = mask[d] /\ Fitting(d)
  BY DEF MaskInv
<1>1. MaskCell(d) \in Cells  BY DEF Cells
<1>2. hr[MaskCell(d)] = {} /\ mask[d] = {}
  BY <1>1 DEF Init, InitialContent, MaskCell
<1>3. ASSUME NEW parameter, NEW channel PROVE ReadingAt(value, d, parameter, channel) = None
  <2> DEFINE p == PointAt(d, parameter, channel)
  <2>1. p # None => p \in Points  BY PointAtIsListed, PointsExist
  <2>2. \A q \in Points : value[q] = None  BY DEF Init
  <2> HIDE DEF p
  <2>3. (IF p = None THEN None ELSE value[p]) = None  BY <2>1, <2>2
  <2>4. QED  BY <2>3 DEF ReadingAt, p
<1>4. LogicUnitMask(value, d, {}) = {}  BY <1>3 DEF LogicUnitMask, EvaluateLogicUnit
<1>5. QED  BY <1>2, <1>4 DEF Fitting

LEMMA PollMaskStep ==
  ASSUME TypeOK, MaskInv, NEW b \in Buses, PollStep(b), NEW d \in Devices
  PROVE  /\ Touched(MaskCell(d)) \/ hr'[MaskCell(d)] = mask'[d]
         /\ (Polling(d) \/ Fitting(d))'
<1>1. MaskCell(d) \in Cells /\ mask \in [Devices -> SUBSET LogicUnit]
  BY DEF Cells, TypeOK, StateType
<1>2. CASE EndDevice(b) /\ d = CurrentDevice(b)
  <2>1. /\ mask' = [mask EXCEPT ![d] = LogicUnitMask(value, d, @)] /\ hr'[MaskCell(d)] = mask'[d]
    BY <1>2, EndDeviceReports
  <2>2. UNCHANGED value  BY <1>2 DEF EndDevice
  <2>3. mask'[d] = LogicUnitMask(value, d, mask[d])  BY <1>1, <2>1
  <2>4. mask'[d] = LogicUnitMask(value', d, mask'[d])  BY <2>2, <2>3, MaskTwice
  <2>5. QED  BY <2>1, <2>4 DEF Fitting
<1>3. CASE ~(EndDevice(b) /\ d = CurrentDevice(b))
  <2>1. mask'[d] = mask[d] /\ hr'[MaskCell(d)] = hr[MaskCell(d)]
    <3>1. CASE ~EndDevice(b)  BY <1>1, <3>1, PollPublishes, CellsApart
    <3>2. CASE EndDevice(b)
      <4>1. PICK e : e = CurrentDevice(b)  OBVIOUS
      <4>2. /\ mask' = [mask EXCEPT ![e] = LogicUnitMask(value, e, @)]
            /\ \A c \in Cells \ {MaskCell(e), DeviceCell(e), ServiceCell} :
                 c[1] # "line" => hr'[c] = hr[c]
        BY <3>2, <4>1, EndDeviceReports
      <4>3. d # e  BY <1>3, <3>2, <4>1
      <4>4. QED  BY <1>1, <4>2, <4>3, CellsApart
    <3>3. QED  BY <3>1, <3>2
  <2>2. CASE poll[b].pc # "sleep" /\ d = CurrentDevice(b)
    <3>1. ~EndDevice(b) /\ ~BeginCycle(b)  BY <1>3, <2>2 DEF BeginCycle
    <3>2. poll'[b].pc # "sleep" /\ poll'[b].dev = poll[b].dev
      BY <3>1, PollCases DEF Reads, Fails, Skips, Waits, Outcome
    <3>3. Polling(d)'  BY <2>2, <3>2 DEF CurrentDevice, Polling
    <3>4. QED  BY <2>1, <3>3 DEF MaskInv
  <2>3. CASE ~(poll[b].pc # "sleep" /\ d = CurrentDevice(b))
    <3>1. CASE Fitting(d)
      <4>1. LogicUnitMask(value', d, mask[d]) = mask[d]  BY <2>3, <3>1, PollKeepsMask DEF Fitting
      <4>2. Fitting(d)'  BY <2>1, <4>1 DEF Fitting
      <4>3. QED  BY <2>1, <4>2 DEF MaskInv
    <3>2. CASE Polling(d)
      <4>1. PICK x \in Buses : poll[x].pc # "sleep" /\ CurrentDevice(x) = d  BY <3>2 DEF Polling
      <4>2. x # b  BY <2>3, <4>1
      <4>3. poll'[x] = poll[x]  BY <4>2, PollFrame
      <4>4. Polling(d)'  BY <4>1, <4>3 DEF Polling, CurrentDevice
      <4>5. QED  BY <2>1, <4>4 DEF MaskInv
    <3>3. QED  BY <3>1, <3>2 DEF MaskInv
  <2>4. QED  BY <2>2, <2>3
<1>4. QED  BY <1>2, <1>3

LEMMA WriteMaskStep ==
  ASSUME TypeOK, MaskInv, NEW w \in WriteIds, WriteStep(w) \/ ClientWrite(w), NEW d \in Devices
  PROVE  /\ Touched(MaskCell(d)) \/ hr'[MaskCell(d)] = mask'[d]
         /\ (Polling(d) \/ Fitting(d))'
<1>1. MaskCell(d) \in Cells /\ mask \in [Devices -> SUBSET LogicUnit]
  BY DEF Cells, TypeOK, StateType
<1>2. Polling(d)' <=> Polling(d)
  <2>1. UNCHANGED poll  BY WriteFrame
  <2>2. QED  BY <2>1 DEF Polling, CurrentDevice
<1>3. CASE UNCHANGED <<value, mask>>
  <2>1. \/ hr'[MaskCell(d)] = hr[MaskCell(d)] \/ Touched(MaskCell(d))
        \/ ConfirmWrite(w)
    BY <1>1, WritePublishes, CellsApart
  <2>2. ConfirmWrite(w) => hr'[MaskCell(d)] \in {hr[MaskCell(d)], mask'[d]}
    <3> SUFFICES ASSUME ConfirmWrite(w) PROVE hr'[MaskCell(d)] \in {hr[MaskCell(d)], mask'[d]}
      OBVIOUS
    <3>1. PICK p, e, got : p = writes[w].point /\ e = DeviceOf(writes[w].point) /\ got = writes[w].got
      OBVIOUS
    <3>2. hr' = [c \in Cells |-> CASE c = ValueCell(p)  -> got
                                   [] c = StatusCell(p) -> CHANNEL_OK
                                   [] c = MaskCell(e)   -> mask'[e]
                                   [] OTHER             -> hr[c]]
      BY <3>1 DEF ConfirmWrite
    <3>3. MaskCell(d) # ValueCell(p) /\ MaskCell(d) # StatusCell(p)  BY CellsApart
    <3>4. QED  BY <1>1, <3>2, <3>3, CellsApart
  <2>3. QED  BY <1>2, <1>3, <2>1, <2>2 DEF MaskInv, Fitting
<1>4. ASSUME NEW e \in Devices,
             \A c \in Devices \ {e} : \A m : LogicUnitMask(value', c, m) = LogicUnitMask(value, c, m),
             mask' = [mask EXCEPT ![e] = LogicUnitMask(value', e, mask[e])],
             hr'[MaskCell(e)] = mask'[e],
             \A c \in Devices \ {e} : hr'[MaskCell(c)] = hr[MaskCell(c)]
      PROVE  /\ Touched(MaskCell(d)) \/ hr'[MaskCell(d)] = mask'[d]
             /\ (Polling(d) \/ Fitting(d))'
  <2>1. CASE d = e
    <3>1. mask'[d] = LogicUnitMask(value', d, mask[d])  BY <1>1, <1>4, <2>1
    <3>2. mask'[d] = LogicUnitMask(value', d, mask'[d])  BY <3>1, MaskTwice
    <3>3. QED  BY <1>4, <2>1, <3>2 DEF Fitting
  <2>2. CASE d # e
    <3>1. mask'[d] = mask[d]  BY <1>1, <1>4, <2>2
    <3>2. hr'[MaskCell(d)] = hr[MaskCell(d)]  BY <1>4, <2>2
    <3>3. Fitting(d) => Fitting(d)'  BY <1>4, <2>2, <3>1 DEF Fitting
    <3>4. QED  BY <1>2, <3>1, <3>2, <3>3 DEF MaskInv
  <2>3. QED  BY <2>1, <2>2
<1>5. QED  BY <1>3, <1>4, WriteReadings

LEMMA MaskStep ==
  ASSUME TypeOK, MaskInv, [Next]_vars
  PROVE  MaskInv'
<1>1. ASSUME NEW b \in Buses, PollStep(b) PROVE MaskInv'
  BY <1>1, PollMaskStep DEF MaskInv, Touched
<1>2. ASSUME NEW w \in WriteIds, WriteStep(w) \/ ClientWrite(w) PROVE MaskInv'
  BY <1>2, WriteMaskStep DEF MaskInv, Touched
<1>3. CASE UNCHANGED <<poll, value, mask, hr>>
  BY <1>3 DEF MaskInv, Touched, Polling, CurrentDevice, Fitting
<1>4. QED  BY <1>1, <1>2, <1>3 DEF Next, Drift, Stabilise, Untouched, Polled, vars

\* For any devices, points and readings: the mask of a device fits the readings
\* whenever the device is not being polled, confirmed writes in between included,
\* and HR48 shows it.
THEOREM MasksFit == Spec => []MaskFitsReadings
<1>1. Init => MaskInv  BY MaskInit
<1>2. TypeOK /\ MaskInv /\ [Next]_vars => MaskInv'  BY MaskStep
<1>3. MaskInv => MaskFitsReadings  BY DEF MaskInv, MaskFitsReadings, Fitting
<1>4. QED  BY <1>1, <1>2, <1>3, TypesHold, PTL DEF Spec

-----------------------------------------------------------------------------
(* NoChatter *)

\* Where a mask changes, it is evaluated from its old state and the readings
\* after the step.
LEMMA MaskIsEvaluated ==
  ASSUME TypeOK, [Next]_vars, NEW d \in Devices, mask'[d] # mask[d]
  PROVE  mask'[d] = LogicUnitMask(value', d, mask[d])
<1>1. mask \in [Devices -> SUBSET LogicUnit]  BY DEF TypeOK, StateType
<1>2. ASSUME NEW b \in Buses, PollStep(b) PROVE mask'[d] = LogicUnitMask(value', d, mask[d])
  <2>1. EndDevice(b)  BY <1>2, PollPublishes
  <2>2. PICK e : e = CurrentDevice(b)  OBVIOUS
  <2>3. mask' = [mask EXCEPT ![e] = LogicUnitMask(value, e, @)] /\ UNCHANGED value
    BY <2>1, <2>2 DEF EndDevice
  <2>4. QED  BY <1>1, <2>3
<1>3. ASSUME NEW w \in WriteIds, WriteStep(w) \/ ClientWrite(w)
      PROVE  mask'[d] = LogicUnitMask(value', d, mask[d])
  <2>1. PICK e \in Devices : mask' = [mask EXCEPT ![e] = LogicUnitMask(value', e, mask[e])]
    BY <1>3, WriteReadings
  <2>2. QED  BY <1>1, <2>1
<1>4. QED  BY <1>2, <1>3 DEF Next, Drift, Stabilise, Untouched, Polled, vars

LEMMA ReadingTypes ==
  ASSUME TypeOK', NEW d \in Devices, NEW parameter, NEW channel
  PROVE  ReadingAt(value', d, parameter, channel) \in Int \cup {None}
<1> DEFINE p == PointAt(d, parameter, channel)
<1>1. p # None => p \in Points  BY PointAtIsListed, PointsExist
<1>2. Values \subseteq Int  BY ConfigAssumption DEF Values
<1>3. p \in Points => value'[p] \in Int \cup {None}  BY <1>2 DEF TypeOK, StateType
<1> HIDE DEF p
<1>4. (IF p = None THEN None ELSE value'[p]) \in Int \cup {None}  BY <1>1, <1>3
<1>5. QED  BY <1>4 DEF ReadingAt, p

\* The step NoChatter allows.
Steady ==
  \A d \in Devices : \A n \in LogicUnit :
    LET reading == ReadingAt(value', d, "rEAd", n)
        setpoint == ReadingAt(value', d, "C.SP", n)
        hysteresis == ReadingAt(value', d, "HYSt", n)
    IN /\ (n \in mask[d]) # (n \in mask'[d])
       /\ None \notin {reading, setpoint}
       /\ ReadingAt(value', d, "AL.t", n) \in {1, 2}
       => \/ reading < Low(setpoint, hysteresis)
          \/ reading > High(setpoint, hysteresis)

LEMMA StepIsSteady ==
  ASSUME TypeOK, TypeOK', [Next]_vars
  PROVE  Steady
<1> SUFFICES ASSUME NEW d \in Devices, NEW n \in LogicUnit,
                    (n \in mask[d]) # (n \in mask'[d]),
                    None \notin {ReadingAt(value', d, "rEAd", n), ReadingAt(value', d, "C.SP", n)},
                    ReadingAt(value', d, "AL.t", n) \in {1, 2}
             PROVE  LET reading == ReadingAt(value', d, "rEAd", n)
                        setpoint == ReadingAt(value', d, "C.SP", n)
                        hysteresis == ReadingAt(value', d, "HYSt", n)
                    IN reading < Low(setpoint, hysteresis) \/ reading > High(setpoint, hysteresis)
  BY DEF Steady
<1>1. PICK reading, setpoint, hysteresis, alType :
        /\ reading = ReadingAt(value', d, "rEAd", n) /\ setpoint = ReadingAt(value', d, "C.SP", n)
        /\ hysteresis = ReadingAt(value', d, "HYSt", n) /\ alType = ReadingAt(value', d, "AL.t", n)
  OBVIOUS
<1>2. /\ reading \in Int /\ setpoint \in Int /\ hysteresis \in Int \cup {None}
      /\ alType \in {1, 2}
  BY <1>1, ReadingTypes
<1>3. mask'[d] = LogicUnitMask(value', d, mask[d])  BY MaskIsEvaluated
<1>4. n \in mask'[d] <=> EvaluateLogicUnit(reading, setpoint, hysteresis, alType, n \in mask[d])
  BY <1>1, <1>3 DEF LogicUnitMask
<1>5. PICK previous \in BOOLEAN : previous <=> n \in mask[d]  OBVIOUS
<1>6. ~ (EvaluateLogicUnit(reading, setpoint, hysteresis, alType, previous) <=> previous)
  BY <1>4, <1>5
<1>7. reading < Low(setpoint, hysteresis) \/ reading > High(setpoint, hysteresis)
  BY <1>2, <1>6, HeldInDeadBand
<1>8. QED  BY <1>1, <1>7

\* For any readings, setpoints and hystereses: a heater or cooler unit changes
\* only with its reading outside the dead band, whether a polling cycle or a
\* confirmed write makes it change.
THEOREM NeverChatters == Spec => NoChatter
<1>1. TypeOK /\ TypeOK' /\ [Next]_vars => [Steady]_vars  BY StepIsSteady
<1>2. Spec => [][Steady]_vars  BY <1>1, TypesHold, PTL DEF Spec
<1>3. QED  BY <1>2 DEF NoChatter, Steady
=============================================================================
