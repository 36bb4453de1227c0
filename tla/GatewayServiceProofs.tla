------------------------ MODULE GatewayServiceProofs ------------------------
(***************************************************************************)
(* Proofs about GatewayService: types, and that the bus locks keep every   *)
(* reading current, for any number of lines, devices, points and writes.   *)
(***************************************************************************)
EXTENDS GatewayProperties, TLAPS, SequenceTheorems

-----------------------------------------------------------------------------
(* The operators of the code stay within their types *)

LEMMA CounterType ==
  ASSUME NEW n \in Counts
  PROVE  IncCounter(n) \in Counts
BY ModelAssumption DEF Counts, IncCounter

LEMMA AggregateType ==
  ASSUME NEW statuses
  PROVE  AggregateStatus(statuses) \in DeviceStatuses
BY DEF AggregateStatus, DeviceStatuses, STATUS_OK, STATUS_DEGRADED, STATUS_OFFLINE,
       STATUS_PROTOCOL_ERROR

LEMMA DeviceStatusType ==
  ASSUME NEW failed \in Nat, NEW protocol \in Nat, NEW points \in Nat
  PROVE  DeviceStatus(failed, protocol, points) \in DeviceStatuses
BY DEF DeviceStatus, DeviceStatuses, STATUS_OK, STATUS_DEGRADED, STATUS_OFFLINE,
       STATUS_PROTOCOL_ERROR

LEMMA AfterFailureType ==
  ASSUME NEW state \in PointRecord, NEW transient \in ChannelStatuses
  PROVE  AfterFailure(state, transient) \in PointRecord
BY ConfigAssumption
DEF PointRecord, AfterFailure, ChannelStatuses, CHANNEL_FAILED, CHANNEL_DISABLED

LEMMA ClearedType ==
  ASSUME NEW state \in PointRecord, NEW status \in ChannelStatuses
  PROVE  Cleared(state, status) \in PointRecord
<1>1. 0 \in 0 .. FaultAfterFailures  BY ConfigAssumption
<1>2. QED  BY <1>1 DEF PointRecord, Cleared

LEMMA BlockType ==
  ASSUME NEW status \in DeviceStatuses,
         NEW counters \in Counters
  PROVE  BlockOf(status, counters) \in Block
BY DEF BlockOf, Block, Counters

-----------------------------------------------------------------------------
(* Cells *)

LEMMA CellContents ==
  /\ \A p : ContentsOf(ValueCell(p)) = Values \cup {0, Junk}
  /\ \A p : ContentsOf(StatusCell(p)) = ChannelStatuses \cup {Junk}
  /\ \A d : ContentsOf(MaskCell(d)) = (SUBSET LogicUnit) \cup {Junk}
  /\ \A d : ContentsOf(DeviceCell(d)) = Block \cup {Junk}
  /\ \A b : ContentsOf(LineCell(b)) = DeviceStatuses \cup {Junk}
  /\ ContentsOf(ServiceCell) = Block \cup {Junk}
BY DEF ContentsOf, ValueCell, StatusCell, MaskCell, DeviceCell, LineCell, ServiceCell

LEMMA CellKinds ==
  ASSUME NEW c \in Cells
  PROVE  \/ \E p \in Published : c = ValueCell(p)
         \/ \E p \in WithStatus : c = StatusCell(p)
         \/ \E d \in Devices : c = MaskCell(d)
         \/ \E d \in Devices : c = DeviceCell(d)
         \/ \E b \in Buses : c = LineCell(b)
         \/ c = ServiceCell
BY DEF Cells

LEMMA LineCells ==
  ASSUME NEW c \in Cells, c[1] = "line"
  PROVE  c[2] \in Buses /\ ContentsOf(c) = DeviceStatuses \cup {Junk}
BY CellKinds DEF ValueCell, StatusCell, MaskCell, DeviceCell, LineCell, ServiceCell, ContentsOf

LEMMA PublishPointType ==
  ASSUME RegistersType, NEW p, NEW content \in Values, NEW status \in ChannelStatuses,
         PublishPoint(p, content, status)
  PROVE  RegistersType'
BY CellContents DEF RegistersType, PublishPoint, ContentsOf, ValueCell, StatusCell

LEMMA PublishStatusType ==
  ASSUME RegistersType, NEW p, NEW status \in ChannelStatuses, PublishStatus(p, status)
  PROVE  RegistersType'
BY CellContents DEF RegistersType, PublishStatus, ContentsOf, StatusCell

LEMMA OverwriteType ==
  ASSUME RegistersType, NEW contents, \A c \in DOMAIN contents : contents[c] \in ContentsOf(c),
         Overwrite(contents)
  PROVE  RegistersType'
BY DEF RegistersType, Overwrite

\* Where the polling task of a line is: a device and a point of that line.
LEMMA Place ==
  ASSUME TypeOK, NEW b \in Buses, poll[b].pc # "sleep"
  PROVE  /\ CurrentDevice(b) \in Devices
         /\ poll[b].dev \in DOMAIN DevicesOn[b]
         /\ poll[b].pt \in DOMAIN PointsOf[CurrentDevice(b)]
              => CurrentPoint(b) \in Points /\ BusOf[CurrentPoint(b)] = b
<1>1. poll[b].dev \in DOMAIN DevicesOn[b]  BY DEF TypeOK, LoopType, PollType
<1>2. CurrentDevice(b) \in Devices  BY <1>1, ConfigAssumption DEF CurrentDevice
<1>3. ASSUME poll[b].pt \in DOMAIN PointsOf[CurrentDevice(b)]
      PROVE  CurrentPoint(b) \in Points /\ BusOf[CurrentPoint(b)] = b
  BY <1>1, <1>2, <1>3, ConfigAssumption DEF CurrentDevice, CurrentPoint
<1>4. QED  BY <1>1, <1>2, <1>3

\* The polling task of b moves to the legal local state r.
PollRecordOK(b, r) ==
  /\ r \in PollRecord
  /\ r.attempt <= RequestRetries[b] + (IF r.pc = "pause" THEN 0 ELSE 1)
  /\ r.pc # "sleep" => /\ r.dev \in DOMAIN DevicesOn[b]
                       /\ r.pt \in 1 .. Len(PointsOf[DevicesOn[b][r.dev]]) + 1
  /\ r.pc \in {"exchange", "reply", "pause"} => r.pt \in DOMAIN PointsOf[DevicesOn[b][r.dev]]
  /\ r.pc = "reply" => r.reply.kind # "none" /\ (r.reply.kind = "value" => r.reply.value \in Values)

\* A local state at the same point as a legal one, with its own pc, reply, attempt.
LEMMA SamePoint ==
  ASSUME NEW b \in Buses, NEW old, PollRecordOK(b, old),
         old.pc \in {"exchange", "reply", "pause"},
         NEW r \in PollRecord, r.dev = old.dev, r.pt = old.pt,
         r.attempt <= RequestRetries[b] + (IF r.pc = "pause" THEN 0 ELSE 1),
         r.pc = "reply" => /\ r.reply.kind # "none"
                           /\ r.reply.kind = "value" => r.reply.value \in Values
  PROVE  PollRecordOK(b, r)
BY Zenon DEF PollRecordOK

LEMMA PollMoves ==
  ASSUME TypeOK, NEW b \in Buses, NEW r, PollRecordOK(b, r), poll' = [poll EXCEPT ![b] = r]
  PROVE  poll' \in [Buses -> PollRecord] /\ \A x \in Buses : PollType(x)'
<1>1. poll \in [Buses -> PollRecord] /\ \A x \in Buses : PollType(x)
  BY DEF TypeOK, LoopType
<1>2. poll' \in [Buses -> PollRecord]  BY <1>1 DEF PollRecordOK
<1>3. ASSUME NEW x \in Buses PROVE PollType(x)'
  <2>1. CASE x = b
    <3>1. poll'[x] = r  BY <1>1, <2>1
    <3>2. QED  BY <2>1, <3>1 DEF PollRecordOK, PollType, CurrentDevice
  <2>2. CASE x # b
    <3>1. poll'[x] = poll[x]  BY <1>1, <2>2
    <3>2. QED  BY <1>1, <3>1 DEF PollType, CurrentDevice
  <2>3. QED  BY <2>1, <2>2
<1>4. QED  BY <1>2, <1>3

LEMMA PollRecordNow ==
  ASSUME TypeOK, NEW b \in Buses
  PROVE  PollRecordOK(b, poll[b])
BY DEF TypeOK, LoopType, PollType, PollRecordOK, CurrentDevice

LEMMA StartType ==
  ASSUME NEW b \in Buses, NEW i \in DOMAIN DevicesOn[b]
  PROVE  PollRecordOK(b, StartOfDevice(i)) /\ PollRecordOK(b, Sleeping)
<1>1. DevicesOn[b][i] \in Devices /\ i \in Nat  BY ConfigAssumption
<1>2. Len(PointsOf[DevicesOn[b][i]]) \in Nat  BY <1>1, ConfigAssumption
<1>3. RequestRetries[b] \in Nat  BY ConfigAssumption
<1>4. StartOfDevice(i) \in PollRecord /\ Sleeping \in PollRecord
  BY <1>1 DEF StartOfDevice, Sleeping, PollRecord, NoReply, Errors, ERROR_NONE, ERROR_IO, FaultKinds
<1>5. QED  BY <1>1, <1>2, <1>3, <1>4 DEF StartOfDevice, Sleeping, PollRecordOK

LEMMA EnqueueType ==
  ASSUME lock \in [Buses -> Seq(Tasks)], NEW b \in Buses, NEW t \in Tasks, Enqueue(t, b)
  PROVE  lock' \in [Buses -> Seq(Tasks)]
BY DEF Enqueue

LEMMA ReleaseType ==
  ASSUME lock \in [Buses -> Seq(Tasks)], NEW b \in Buses, NEW t, Holds(t, b), Release(b)
  PROVE  lock' \in [Buses -> Seq(Tasks)]
BY DEF Release, Holds

-----------------------------------------------------------------------------
(* Every action keeps the types.  The line has to be held where it is      *)
(* released, so the types are kept together with LinesAreHeld.             *)

LEMMA BeginCycleType ==
  ASSUME TypeOK, NEW b \in Buses, BeginCycle(b)
  PROVE  TypeOK'
<1>1. 1 \in DOMAIN DevicesOn[b]  BY ConfigAssumption DEF BeginCycle
<1>2. PollRecordOK(b, StartOfDevice(1))  BY <1>1, StartType
<1>3. poll' \in [Buses -> PollRecord] /\ \A x \in Buses : PollType(x)'
  BY <1>2, PollMoves DEF BeginCycle
<1>4. QED
  BY <1>3 DEF BeginCycle, TypeOK, LoopType, WritesType, WriteType, StateType, RegistersType, Polled, KeepsLoop

LEMMA SkipPointType ==
  ASSUME TypeOK, NEW b \in Buses, SkipPoint(b)
  PROVE  TypeOK'
<1> DEFINE d == CurrentDevice(b)
           p == CurrentPoint(b)
           r == [poll[b] EXCEPT !.pt = @ + 1, !.failed = @ + 1]
<1>1. d \in Devices /\ p \in Points  BY Place DEF SkipPoint, AtPoint
<1>2. PollRecordOK(b, r)
  <2>1. PollRecordOK(b, poll[b])  BY PollRecordNow
  <2>2. r \in PollRecord
    <3>1. poll[b].pt + 1 \in Nat /\ poll[b].failed + 1 \in Nat
      BY <2>1 DEF PollRecordOK, PollRecord
    <3>2. QED  BY <2>1, <3>1, Zenon DEF PollRecordOK, PollRecord
  <2>3. /\ r.pc = "point" /\ r.dev = poll[b].dev /\ r.pt = poll[b].pt + 1
        /\ r.attempt = poll[b].attempt
    <3>1. /\ r.pc = poll[b].pc /\ r.dev = poll[b].dev /\ r.pt = poll[b].pt + 1
          /\ r.attempt = poll[b].attempt
      BY <2>1, Zenon DEF PollRecordOK, PollRecord
    <3>2. poll[b].pc = "point"  BY DEF SkipPoint, AtPoint
    <3>3. QED  BY <3>1, <3>2
  <2>4. /\ poll[b].pt \in 1 .. Len(PointsOf[DevicesOn[b][poll[b].dev]])
        /\ Len(PointsOf[DevicesOn[b][poll[b].dev]]) \in Nat
    <3>1. poll[b].pt \in DOMAIN PointsOf[d]  BY DEF SkipPoint, AtPoint
    <3>2. d = DevicesOn[b][poll[b].dev]  BY DEF CurrentDevice
    <3> HIDE DEF d
    <3>3. PointsOf[d] \in Seq(Points)  BY <1>1, ConfigAssumption
    <3>4. QED  BY <3>1, <3>2, <3>3
  <2>5. QED  BY <2>1, <2>2, <2>3, <2>4 DEF PollRecordOK, SkipPoint, AtPoint
<1>3. poll' \in [Buses -> PollRecord] /\ \A x \in Buses : PollType(x)'
  <2>1. poll' = [poll EXCEPT ![b] = r]  BY DEF SkipPoint, TypeOK, LoopType
  <2>2. QED  BY <1>2, <2>1, PollMoves
<1>4. StateType'
  <2>1. point[p] \in PointRecord  BY <1>1 DEF TypeOK, StateType
  <2>2. point[p].skip - 1 \in 0 .. RecoveryPollIntervalCycles - 1
    BY <2>1, ConfigAssumption DEF SkipPoint, PointRecord
  <2>3. [point[p] EXCEPT !.skip = @ - 1] \in PointRecord
    BY <2>1, <2>2, Zenon DEF PointRecord
  <2>4. QED  BY <1>1, <2>3 DEF SkipPoint, TypeOK, StateType
<1>5. RegistersType'
  BY PublishStatusType DEF SkipPoint, TypeOK, ChannelStatuses, CHANNEL_FAILED, CHANNEL_DISABLED
<1>6. QED
  BY <1>3, <1>4, <1>5 DEF SkipPoint, TypeOK, LoopType, WritesType, WriteType, KeepsLoop

LEMMA RequestPointType ==
  ASSUME TypeOK, NEW b \in Buses, RequestPoint(b)
  PROVE  TypeOK'
<1> DEFINE r == [poll[b] EXCEPT !.pc = "exchange", !.attempt = 1]
<1>1. PollRecordOK(b, poll[b])  BY PollRecordNow
<1>2. PollRecordOK(b, r)
  <2>1. r \in PollRecord  BY <1>1, Zenon DEF PollRecordOK, PollRecord
  <2>2. r.pc = "exchange" /\ r.dev = poll[b].dev /\ r.pt = poll[b].pt /\ r.attempt = 1
    BY <1>1, Zenon DEF PollRecordOK, PollRecord
  <2>3. RequestRetries[b] \in Nat  BY ConfigAssumption
  <2>4. QED
    BY <1>1, <2>1, <2>2, <2>3 DEF PollRecordOK, RequestPoint, AtPoint, CurrentDevice
<1>3. poll' \in [Buses -> PollRecord] /\ \A x \in Buses : PollType(x)'
  <2>1. poll' = [poll EXCEPT ![b] = r]  BY DEF RequestPoint, TypeOK, LoopType
  <2>2. QED  BY <1>2, <2>1, PollMoves
<1>4. lock' \in [Buses -> Seq(Tasks)]
  BY EnqueueType DEF RequestPoint, TypeOK, LoopType, Tasks
<1>5. QED
  BY <1>3, <1>4 DEF RequestPoint, TypeOK, LoopType, WritesType, WriteType, StateType,
                    RegistersType, Polled, Suspends

LEMMA ThreadReadType ==
  ASSUME TypeOK, NEW b \in Buses, ThreadRead(b)
  PROVE  TypeOK'
<1>1. PollRecordOK(b, poll[b]) /\ poll[b].pc = "exchange"  BY PollRecordNow DEF ThreadRead
<1>2. CurrentPoint(b) \in Points
  BY <1>1, Place DEF PollRecordOK, CurrentDevice
<1>3. PICK reply \in [kind : {"value"}, value : Values] \cup [kind : Faults, value : {None}] :
        poll' = [poll EXCEPT ![b].pc = "reply", ![b].reply = reply]
  <2>1. device[CurrentPoint(b)] \in Values /\ LateAnswers(CurrentPoint(b)) \subseteq Values
    BY <1>2 DEF TypeOK, StateType, LateAnswers
  <2>2. QED  BY <2>1 DEF ThreadRead
<1> DEFINE r == [poll[b] EXCEPT !.pc = "reply", !.reply = reply]
<1>4. PollRecordOK(b, r)
  <2>1. /\ reply \in [kind : FaultKinds \cup {"value", "none"}, value : Values \cup {None}]
        /\ reply.kind # "none" /\ (reply.kind = "value" => reply.value \in Values)
    BY <1>3, ModelAssumption DEF FaultKinds
  <2>2. r \in PollRecord  BY <1>1, <2>1, Zenon DEF PollRecordOK, PollRecord
  <2>3. /\ r.pc = "reply" /\ r.dev = poll[b].dev /\ r.pt = poll[b].pt
        /\ r.attempt = poll[b].attempt /\ r.reply = reply
    BY <1>1, Zenon DEF PollRecordOK, PollRecord
  <2> HIDE DEF r
  <2>4. r.attempt <= RequestRetries[b] + (IF r.pc = "pause" THEN 0 ELSE 1)
    BY <1>1, <2>3 DEF PollRecordOK
  <2>5. QED  BY <1>1, <2>1, <2>2, <2>3, <2>4, SamePoint
<1>5. poll' \in [Buses -> PollRecord] /\ \A x \in Buses : PollType(x)'
  <2>1. poll' = [poll EXCEPT ![b] = r]  BY <1>3 DEF TypeOK, LoopType
  <2>2. QED  BY <1>4, <2>1, PollMoves
<1>6. QED
  BY <1>5 DEF ThreadRead, TypeOK, LoopType, WritesType, WriteType, StateType, RegistersType, Polled

LEMMA RetryAfterPauseType ==
  ASSUME TypeOK, LinesAreHeld, NEW b \in Buses, RetryAfterPause(b)
  PROVE  TypeOK'
<1> DEFINE r == [poll[b] EXCEPT !.pc = "pause", !.reply = NoReply]
<1>1. PollRecordOK(b, poll[b]) /\ poll[b].pc = "reply"
  BY PollRecordNow DEF RetryAfterPause, AtReply
<1>2. PollRecordOK(b, r)
  <2>1. NoReply \in [kind : FaultKinds \cup {"value", "none"}, value : Values \cup {None}]
    BY DEF NoReply
  <2>2. r \in PollRecord  BY <1>1, <2>1, Zenon DEF PollRecordOK, PollRecord
  <2>3. /\ r.pc = "pause" /\ r.dev = poll[b].dev /\ r.pt = poll[b].pt
        /\ r.attempt = poll[b].attempt
    BY <1>1, Zenon DEF PollRecordOK, PollRecord
  <2>4. r.attempt <= RequestRetries[b]  BY <2>3 DEF RetryAfterPause, MayRetry
  <2> HIDE DEF r
  <2>5. RequestRetries[b] \in Nat  BY ConfigAssumption
  <2>6. r.attempt <= RequestRetries[b] + (IF r.pc = "pause" THEN 0 ELSE 1)
    BY <2>3, <2>4, <2>5
  <2>7. QED  BY <1>1, <2>2, <2>3, <2>6, SamePoint
<1>3. poll' \in [Buses -> PollRecord] /\ \A x \in Buses : PollType(x)'
  <2>1. poll' = [poll EXCEPT ![b] = r]  BY DEF RetryAfterPause, TypeOK, LoopType
  <2>2. QED  BY <1>2, <2>1, PollMoves
<1>4. lock' \in [Buses -> Seq(Tasks)]
  BY <1>1, ReleaseType DEF RetryAfterPause, LinesAreHeld, TypeOK, LoopType
<1>5. QED
  BY <1>3, <1>4 DEF RetryAfterPause, TypeOK, LoopType, WritesType, WriteType, StateType,
                    RegistersType, Polled

LEMMA EndOfPauseType ==
  ASSUME TypeOK, NEW b \in Buses, EndOfPause(b)
  PROVE  TypeOK'
<1> DEFINE r == [poll[b] EXCEPT !.pc = "exchange", !.attempt = @ + 1]
<1>1. PollRecordOK(b, poll[b]) /\ poll[b].pc = "pause"  BY PollRecordNow DEF EndOfPause
<1>2. PollRecordOK(b, r)
  <2>1. poll[b].attempt + 1 \in Nat /\ poll[b].attempt + 1 <= RequestRetries[b] + 1
    <3>1. poll[b].attempt <= RequestRetries[b] + 0  BY <1>1, Zenon DEF PollRecordOK
    <3>2. poll[b].attempt \in Nat  BY <1>1, Zenon DEF PollRecordOK, PollRecord
    <3>3. RequestRetries[b] \in Nat  BY ConfigAssumption
    <3>4. QED  BY <3>1, <3>2, <3>3
  <2>2. r \in PollRecord  BY <1>1, <2>1, Zenon DEF PollRecordOK, PollRecord
  <2>3. /\ r.pc = "exchange" /\ r.dev = poll[b].dev /\ r.pt = poll[b].pt
        /\ r.attempt = poll[b].attempt + 1
    BY <1>1, Zenon DEF PollRecordOK, PollRecord
  <2> HIDE DEF r
  <2>4. r.attempt <= RequestRetries[b] + (IF r.pc = "pause" THEN 0 ELSE 1)
    BY <2>1, <2>3
  <2>5. QED  BY <1>1, <2>2, <2>3, <2>4, SamePoint
<1>3. poll' \in [Buses -> PollRecord] /\ \A x \in Buses : PollType(x)'
  <2>1. poll' = [poll EXCEPT ![b] = r]  BY DEF EndOfPause, TypeOK, LoopType
  <2>2. QED  BY <1>2, <2>1, PollMoves
<1>4. lock' \in [Buses -> Seq(Tasks)]
  BY EnqueueType DEF EndOfPause, TypeOK, LoopType, Tasks
<1>5. QED
  BY <1>3, <1>4 DEF EndOfPause, TypeOK, LoopType, WritesType, WriteType, StateType,
                    RegistersType, Polled

LEMMA RetryAtOnceType ==
  ASSUME TypeOK, LinesAreHeld, NEW b \in Buses, RetryAtOnce(b)
  PROVE  TypeOK'
<1> DEFINE r == [poll[b] EXCEPT !.pc = "exchange", !.attempt = @ + 1, !.reply = NoReply]
<1>1. PollRecordOK(b, poll[b]) /\ poll[b].pc = "reply"
  BY PollRecordNow DEF RetryAtOnce, AtReply
<1>2. PollRecordOK(b, r)
  <2>1. poll[b].attempt + 1 \in Nat /\ poll[b].attempt + 1 <= RequestRetries[b] + 1
    <3>1. poll[b].attempt <= RequestRetries[b]  BY DEF RetryAtOnce, MayRetry
    <3>2. poll[b].attempt \in Nat  BY <1>1, Zenon DEF PollRecordOK, PollRecord
    <3>3. RequestRetries[b] \in Nat  BY ConfigAssumption
    <3>4. QED  BY <3>1, <3>2, <3>3
  <2>2. NoReply \in [kind : FaultKinds \cup {"value", "none"}, value : Values \cup {None}]
    BY DEF NoReply
  <2>3. r \in PollRecord  BY <1>1, <2>1, <2>2, Zenon DEF PollRecordOK, PollRecord
  <2>4. /\ r.pc = "exchange" /\ r.dev = poll[b].dev /\ r.pt = poll[b].pt
        /\ r.attempt = poll[b].attempt + 1
    BY <1>1, Zenon DEF PollRecordOK, PollRecord
  <2> HIDE DEF r
  <2>5. r.attempt <= RequestRetries[b] + (IF r.pc = "pause" THEN 0 ELSE 1)
    BY <2>1, <2>4
  <2>6. QED  BY <1>1, <2>3, <2>4, <2>5, SamePoint
<1>3. poll' \in [Buses -> PollRecord] /\ \A x \in Buses : PollType(x)'
  <2>1. poll' = [poll EXCEPT ![b] = r]  BY DEF RetryAtOnce, TypeOK, LoopType
  <2>2. QED  BY <1>2, <2>1, PollMoves
<1>4. lock' \in [Buses -> Seq(Tasks)]
  <2>1. lock \in [Buses -> Seq(Tasks)] /\ lock[b] # <<>> /\ b \in Tasks
    BY <1>1 DEF LinesAreHeld, Holds, TypeOK, LoopType, Tasks
  <2>2. QED  BY <2>1 DEF RetryAtOnce
<1>5. QED
  BY <1>3, <1>4 DEF RetryAtOnce, TypeOK, LoopType, WritesType, WriteType, StateType,
                    RegistersType, Polled

LEMMA SettleType ==
  ASSUME TypeOK, LinesAreHeld, NEW b \in Buses, AtReply(b),
         NEW failed \in {0, 1}, NEW protocol \in {0, 1}, NEW error \in Errors,
         Settle(b, failed, protocol, error)
  PROVE  /\ poll' \in [Buses -> PollRecord] /\ \A x \in Buses : PollType(x)'
         /\ lock' \in [Buses -> Seq(Tasks)]
<1> DEFINE q == poll[b]
           r == Settled(q, failed, protocol, error)
<1>1. PollRecordOK(b, q) /\ q.pc = "reply"  BY PollRecordNow DEF AtReply
<1>2. PollRecordOK(b, r)
  <2>1. NoReply \in [kind : FaultKinds \cup {"value", "none"}, value : Values \cup {None}]
    BY DEF NoReply
  <2>2. /\ q.pt + 1 \in Nat /\ q.failed + failed \in Nat /\ q.protocol + protocol \in Nat
        /\ (IF failed = 0 THEN q.error ELSE error) \in Errors /\ 0 \in Nat
    BY <1>1 DEF PollRecordOK, PollRecord
  <2>3. r \in PollRecord  BY <1>1, <2>1, <2>2, Zenon DEF PollRecordOK, PollRecord, Settled
  <2>4. r.pc = "point" /\ r.dev = q.dev /\ r.pt = q.pt + 1 /\ r.attempt = 0
    BY <1>1, Zenon DEF PollRecordOK, PollRecord, Settled
  <2>5. CurrentDevice(b) \in Devices  BY <1>1, Place
  <2>6. Len(PointsOf[DevicesOn[b][q.dev]]) \in Nat /\ RequestRetries[b] \in Nat
    BY <2>5, ConfigAssumption DEF CurrentDevice
  <2>7. q.pt \in 1 .. Len(PointsOf[DevicesOn[b][q.dev]])
    BY <1>1, <2>5, ConfigAssumption DEF PollRecordOK, CurrentDevice
  <2>8. q.pt + 1 \in 1 .. Len(PointsOf[DevicesOn[b][q.dev]]) + 1 /\ 0 <= RequestRetries[b] + 1
    <3>1. \A k \in Nat : \A n \in 1 .. k : n + 1 \in 1 .. k + 1  OBVIOUS
    <3>2. \A k \in Nat : 0 <= k + 1  OBVIOUS
    <3>3. QED  BY <2>6, <2>7, <3>1, <3>2, Zenon
  <2> HIDE DEF r
  <2>9. QED  BY <1>1, <2>3, <2>4, <2>8 DEF PollRecordOK
<1>3. poll' = [poll EXCEPT ![b] = r]  BY DEF Settle
<1>4. lock' \in [Buses -> Seq(Tasks)]
  BY <1>1, ReleaseType DEF Settle, LinesAreHeld, TypeOK, LoopType
<1>5. QED  BY <1>2, <1>3, <1>4, PollMoves

LEMMA BumpType ==
  ASSUME NEW which
  PROVE  /\ \A c \in Block : Bump(c, which) \in Block
         /\ \A c \in Counters : Bump(c, which) \in Counters
<1>1. ASSUME NEW n \in Counts, NEW f
      PROVE  (IF f \in which THEN IncCounter(n) ELSE n) \in Counts
  BY CounterType
<1>2. ASSUME NEW c \in Block PROVE Bump(c, which) \in Block
  BY <1>1 DEF Bump, Block
<1>3. ASSUME NEW c \in Counters PROVE Bump(c, which) \in Counters
  BY <1>1 DEF Bump, Counters
<1>4. QED  BY <1>2, <1>3

LEMMA CountType ==
  ASSUME TypeOK, NEW d \in Devices, NEW forDevice, NEW forGateway, Count(d, forDevice, forGateway)
  PROVE  blocks' \in [Devices -> Block] /\ gateway' \in Counters
BY BumpType DEF Count, TypeOK, StateType

LEMMA PollValueType ==
  ASSUME TypeOK, LinesAreHeld, NEW b \in Buses, PollValue(b)
  PROVE  TypeOK'
<1> DEFINE p == CurrentPoint(b)
           v == poll[b].reply.value
<1>1. PollRecordOK(b, poll[b]) /\ poll[b].pc = "reply" /\ v \in Values
  BY PollRecordNow DEF PollValue, AtReply, PollRecordOK
<1>2. p \in Points /\ CurrentDevice(b) \in Devices
  BY <1>1, Place DEF PollRecordOK, CurrentDevice
<1>3. CHANNEL_OK \in ChannelStatuses
  BY DEF CHANNEL_OK, ChannelStatuses, CHANNEL_DISABLED, CHANNEL_FAILED
<1>4. /\ poll' \in [Buses -> PollRecord] /\ \A x \in Buses : PollType(x)'
      /\ lock' \in [Buses -> Seq(Tasks)]
  BY SettleType DEF PollValue, Errors, ERROR_NONE, ERROR_IO
<1>5. RegistersType'  BY <1>1, <1>3, PublishPointType DEF PollValue, TypeOK
<1>6. blocks' \in [Devices -> Block] /\ gateway' \in Counters
  BY <1>2, CountType DEF PollValue
<1>7. point' \in [Points -> PointRecord] /\ value' \in [Points -> Values \cup {None}]
  BY <1>1, <1>2, <1>3, ClearedType DEF PollValue, TypeOK, StateType
<1>8. StateType'  BY <1>6, <1>7 DEF PollValue, TypeOK, StateType
<1>9. running' \in Buses \cup {None}  BY DEF PollValue, AfterPoint, Suspends, KeepsLoop
<1>10. WritesType'  BY DEF PollValue, TypeOK, WritesType, WriteType
<1>11. QED  BY <1>4, <1>5, <1>8, <1>9, <1>10 DEF TypeOK, LoopType

LEMMA PollEmptyType ==
  ASSUME TypeOK, LinesAreHeld, NEW b \in Buses, PollEmpty(b)
  PROVE  TypeOK'
<1>1. PollRecordOK(b, poll[b]) /\ poll[b].pc = "reply"
  BY PollRecordNow DEF PollEmpty, AtReply, PollRecordOK
<1>2. CurrentPoint(b) \in Points  BY <1>1, Place DEF PollRecordOK, CurrentDevice
<1>3. CHANNEL_DISABLED \in ChannelStatuses
  BY DEF ChannelStatuses, CHANNEL_DISABLED, CHANNEL_FAILED
<1>4. /\ poll' \in [Buses -> PollRecord] /\ \A x \in Buses : PollType(x)'
      /\ lock' \in [Buses -> Seq(Tasks)]
  BY SettleType DEF PollEmpty, Errors, ERROR_NONE, ERROR_IO
<1>5. RegistersType'  BY <1>3, PublishStatusType DEF PollEmpty, TypeOK
<1>6. StateType'  BY <1>2, <1>3, ClearedType DEF PollEmpty, TypeOK, StateType
<1>7. running' \in Buses \cup {None}  BY DEF PollEmpty, KeepsLoop
<1>8. WritesType'  BY DEF PollEmpty, TypeOK, WritesType, WriteType
<1>9. QED  BY <1>4, <1>5, <1>6, <1>7, <1>8 DEF TypeOK, LoopType

LEMMA FailPointType ==
  ASSUME TypeOK, LinesAreHeld, NEW b \in Buses, AtReply(b),
         NEW transient \in ChannelStatuses, NEW protocol \in {0, 1}, NEW error \in Errors,
         NEW forDevice, NEW forGateway,
         FailPoint(b, transient, protocol, error, forDevice, forGateway),
         value' \in [Points -> Values \cup {None}]
  PROVE  TypeOK'
<1> DEFINE p == CurrentPoint(b)
<1>1. PollRecordOK(b, poll[b]) /\ poll[b].pc = "reply"
  BY PollRecordNow DEF AtReply, PollRecordOK
<1>2. p \in Points /\ CurrentDevice(b) \in Devices
  BY <1>1, Place DEF PollRecordOK, CurrentDevice
<1>3. /\ poll' \in [Buses -> PollRecord] /\ \A x \in Buses : PollType(x)'
      /\ lock' \in [Buses -> Seq(Tasks)]
  BY SettleType DEF FailPoint
<1>4. AfterFailure(point[p], transient) \in PointRecord
  BY <1>2, AfterFailureType DEF TypeOK, StateType
<1>5. RegistersType'
  <2>1. AfterFailure(point[p], transient).status \in ChannelStatuses
    BY <1>4 DEF PointRecord
  <2>2. QED  BY <2>1, PublishStatusType DEF FailPoint, TypeOK
<1>6. blocks' \in [Devices -> Block] /\ gateway' \in Counters
  BY <1>2, CountType DEF FailPoint
<1>7. point' \in [Points -> PointRecord]
  BY <1>2, <1>4 DEF FailPoint, TypeOK, StateType
<1>8. StateType'  BY <1>6, <1>7 DEF FailPoint, TypeOK, StateType
<1>9. running' \in Buses \cup {None}  BY DEF FailPoint, AfterPoint, Suspends, KeepsLoop
<1>10. WritesType'  BY DEF FailPoint, TypeOK, WritesType, WriteType
<1>11. QED  BY <1>3, <1>5, <1>8, <1>9, <1>10 DEF TypeOK, LoopType

LEMMA ErrorCodes ==
  /\ {CHANNEL_COMM_ERROR, CHANNEL_PROTOCOL_ERROR} \subseteq ChannelStatuses
  /\ {ERROR_TIMEOUT, ERROR_IO} \subseteq Errors
  /\ \A kind : ProtocolError(kind) \in Errors
BY DEF CHANNEL_COMM_ERROR, CHANNEL_PROTOCOL_ERROR, ChannelStatuses, CHANNEL_DISABLED,
       CHANNEL_FAILED, Errors, ERROR_NONE, ERROR_TIMEOUT, ERROR_BAD_FLAG,
       ERROR_HASH_MISMATCH, ERROR_DECODE, ERROR_IO, ProtocolError

LEMMA PollTimeoutType ==
  ASSUME TypeOK, LinesAreHeld, NEW b \in Buses, PollTimeout(b)
  PROVE  TypeOK'
BY FailPointType, ErrorCodes DEF PollTimeout, TypeOK, StateType

LEMMA PollIOErrorType ==
  ASSUME TypeOK, LinesAreHeld, NEW b \in Buses, PollIOError(b)
  PROVE  TypeOK'
BY FailPointType, ErrorCodes DEF PollIOError, TypeOK, StateType

LEMMA PollProtocolErrorType ==
  ASSUME TypeOK, LinesAreHeld, NEW b \in Buses, PollProtocolError(b)
  PROVE  TypeOK'
<1>1. PollRecordOK(b, poll[b])  BY PollRecordNow
<1>2. value' \in [Points -> Values \cup {None}]
  BY <1>1 DEF PollProtocolError, AtReply, PollRecordOK, TypeOK, StateType
<1>3. QED  BY <1>2, FailPointType, ErrorCodes DEF PollProtocolError

LEMMA MaskType ==
  ASSUME NEW readings, NEW d, NEW previous
  PROVE  LogicUnitMask(readings, d, previous) \subseteq LogicUnit
BY DEF LogicUnitMask

LEMMA EndDeviceType ==
  ASSUME TypeOK, NEW b \in Buses, EndDevice(b)
  PROVE  TypeOK'
<1> DEFINE d == CurrentDevice(b)
           last == poll[b].dev = Len(DevicesOn[b])
           r == IF last THEN Sleeping ELSE StartOfDevice(poll[b].dev + 1)
<1>1. PollRecordOK(b, poll[b]) /\ poll[b].pc = "point"  BY PollRecordNow DEF EndDevice
<1>2. d \in Devices /\ poll[b].dev \in DOMAIN DevicesOn[b]  BY <1>1, Place
<1>3. PollRecordOK(b, r)
  <2>1. CASE last  BY <1>2, <2>1, StartType
  <2>2. CASE ~last
    <3>1. DevicesOn[b] \in Seq(Devices)  BY ConfigAssumption
    <3>2. poll[b].dev + 1 \in DOMAIN DevicesOn[b]
      <4>1. \A k \in Nat : \A n \in 1 .. k : n # k => n + 1 \in 1 .. k  OBVIOUS
      <4>2. Len(DevicesOn[b]) \in Nat /\ DOMAIN DevicesOn[b] = 1 .. Len(DevicesOn[b])
        BY <3>1
      <4>3. QED  BY <1>2, <2>2, <4>1, <4>2, Zenon
    <3>3. QED  BY <2>2, <3>2, StartType
  <2>3. QED  BY <2>1, <2>2
<1>4. poll' \in [Buses -> PollRecord] /\ \A x \in Buses : PollType(x)'
  <2>1. poll' = [poll EXCEPT ![b] = r]  BY DEF EndDevice
  <2>2. QED  BY <1>3, <2>1, PollMoves
<1>5. mask' \in [Devices -> SUBSET LogicUnit]
  BY <1>2, MaskType DEF EndDevice, TypeOK, StateType
<1>6. poll[b].error \in Errors  BY <1>1 DEF PollRecordOK, PollRecord
<1>7. blocks' \in [Devices -> Block]
  <2> DEFINE status == DeviceStatus(poll[b].failed, poll[b].protocol, Len(PointsOf[d]))
             block == [blocks[d] EXCEPT !.cycles = IncCounter(@), !.error = poll[b].error,
                                        !.status = status]
  <2>1. blocks[d] \in Block  BY <1>2 DEF TypeOK, StateType
  <2>2. status \in DeviceStatuses
    <3>1. Len(PointsOf[d]) \in Nat  BY <1>2, ConfigAssumption
    <3>2. poll[b].failed \in Nat /\ poll[b].protocol \in Nat
      BY <1>1 DEF PollRecordOK, PollRecord
    <3>3. QED  BY <3>1, <3>2, DeviceStatusType
  <2>3. IncCounter(blocks[d].cycles) \in Counts  BY <2>1, CounterType DEF Block
  <2> HIDE DEF status
  <2>4. block \in Block  BY <1>6, <2>1, <2>2, <2>3, Zenon DEF Block
  <2>5. blocks' = [blocks EXCEPT ![d] = block]  BY DEF EndDevice, TypeOK, StateType, status
  <2>6. QED  BY <1>2, <2>4, <2>5 DEF TypeOK, StateType
<1>8. gateway' \in Counters
  <2>1. gateway \in Counters  BY DEF TypeOK, StateType
  <2>2. IncCounter(gateway.cycles) \in Counts  BY <2>1, CounterType DEF Counters
  <2>3. [gateway EXCEPT !.cycles = IncCounter(@), !.error = poll[b].error] \in Counters
    BY <1>6, <2>1, <2>2, Zenon DEF Counters
  <2>4. QED  BY <2>3 DEF EndDevice
<1>9. busStatus' \in [Buses -> DeviceStatuses]
  BY AggregateType DEF EndDevice, BusStatus, TypeOK, StateType
<1>10. RegistersType'
  <2> SUFFICES ASSUME NEW c \in Cells
               PROVE  hr'[c] \in ContentsOf(c)
    BY DEF EndDevice, RegistersType
  <2>1. hr[c] \in ContentsOf(c)  BY DEF TypeOK, RegistersType
  <2>2. mask'[d] \in SUBSET LogicUnit /\ blocks'[d] \in Block  BY <1>2, <1>5, <1>7
  <2>3. BlockOf(AggregateStatus({busStatus'[l] : l \in Buses}), gateway') \in Block
    BY <1>8, AggregateType, BlockType
  <2>4. c[1] = "line" => busStatus'[c[2]] \in ContentsOf(c)  BY <1>9, LineCells
  <2>5. hr'[c] = CASE c = MaskCell(d)   -> mask'[d]
                   [] c = DeviceCell(d) -> blocks'[d]
                   [] c = ServiceCell   -> BlockOf(AggregateStatus({busStatus'[l] : l \in Buses}),
                                                   gateway')
                   [] c[1] = "line"     -> busStatus'[c[2]]
                   [] OTHER             -> hr[c]
    BY DEF EndDevice
  <2>6. QED  BY <2>1, <2>2, <2>3, <2>4, <2>5, CellContents
<1>11. StateType'  BY <1>5, <1>7, <1>8, <1>9 DEF EndDevice, TypeOK, StateType
<1>12. running' \in Buses \cup {None}  BY DEF EndDevice, Suspends, KeepsLoop
<1>13. QED
  BY <1>4, <1>10, <1>11, <1>12 DEF EndDevice, TypeOK, LoopType, WritesType

LEMMA WriteMoves ==
  ASSUME TypeOK, NEW w \in WriteIds, NEW r, WriteType(r), writes' = [writes EXCEPT ![w] = r]
  PROVE  WritesType'
<1>1. writes = [x \in WriteIds |-> writes[x]] /\ \A x \in WriteIds : WriteType(writes[x])
  BY DEF TypeOK, WritesType
<1>2. writes' = [x \in WriteIds |-> writes'[x]]  BY <1>1
<1>3. ASSUME NEW x \in WriteIds PROVE WriteType(writes'[x])
  <2>1. writes'[x] = IF x = w THEN r ELSE writes[x]  BY <1>1
  <2>2. QED  BY <1>1, <2>1
<1>4. QED  BY <1>2, <1>3 DEF WritesType

LEMMA WriteTypeNow ==
  ASSUME TypeOK, NEW w \in WriteIds
  PROVE  WriteType(writes[w])
BY DEF TypeOK, WritesType

LEMMA NoWriteType == WriteType(NoWrite)
<1>1. NoWrite.old = <<>> /\ NoWrite.req = <<>> /\ NoWrite.pc = "idle"  BY DEF NoWrite
<1>2. NoWrite \in WriteRecord(<<>>)
  <2>1. 0 \in 0 .. WRITE_VERIFY_ATTEMPTS  BY ModelAssumption
  <2>2. QED  BY <2>1 DEF NoWrite, WriteRecord
<1>3. QED  BY <1>1, <1>2 DEF WriteType

LEMMA ClientWriteType ==
  ASSUME TypeOK, NEW w \in WriteIds, ClientWrite(w)
  PROVE  TypeOK'
<1>1. PICK q \in Requests :
        /\ writes' = [writes EXCEPT ![w] = [NoWrite EXCEPT
             !.pc = "created", !.req = q, !.old = [c \in DOMAIN q |-> hr[c]]]]
        /\ Overwrite(q)
  BY DEF ClientWrite
<1>2. \A c \in DOMAIN q : c \in Cells /\ q[c] \in ContentsOf(c)  BY ModelAssumption
<1>3. RegistersType'  BY <1>1, <1>2, OverwriteType DEF TypeOK
<1> DEFINE old == [c \in DOMAIN q |-> hr[c]]
           r == [NoWrite EXCEPT !.pc = "created", !.req = q, !.old = old]
<1>4. WriteType(r)
  <2>1. r.pc = "created" /\ r.req = q /\ r.old = old  BY DEF NoWrite
  <2>2. r \in WriteRecord(old)
    <3>1. 0 \in 0 .. WRITE_VERIFY_ATTEMPTS  BY ModelAssumption
    <3> HIDE DEF old
    <3>2. QED  BY <3>1 DEF NoWrite, WriteRecord
  <2>3. \A c \in DOMAIN old : old[c] \in ContentsOf(c)
    BY <1>2 DEF TypeOK, RegistersType
  <2>4. DOMAIN old = DOMAIN q  OBVIOUS
  <2> HIDE DEF old, r
  <2>5. QED  BY <2>1, <2>2, <2>3, <2>4 DEF WriteType
<1>5. WritesType'  BY <1>1, <1>4, WriteMoves
<1>6. QED  BY <1>3, <1>5 DEF ClientWrite, TypeOK, LoopType, PollType, CurrentDevice, StateType

LEMMA RefuseWriteType ==
  ASSUME TypeOK, NEW w \in WriteIds, RefuseWrite(w)
  PROVE  TypeOK'
<1>1. RegistersType'
  BY WriteTypeNow, OverwriteType DEF RefuseWrite, TypeOK, WriteType
<1>2. WritesType'  BY NoWriteType, WriteMoves DEF RefuseWrite
<1>3. QED  BY <1>1, <1>2 DEF RefuseWrite, TypeOK, LoopType, PollType, CurrentDevice, StateType

LEMMA QueueWriteType ==
  ASSUME TypeOK, NEW w \in WriteIds, QueueWrite(w)
  PROVE  TypeOK'
<1>1. PICK p \in Writable : /\ Asks(writes[w].req, p)
                            /\ writes' = [writes EXCEPT ![w].pc = "write", ![w].point = p]
                            /\ Enqueue(w, BusOf[p])
  BY DEF QueueWrite
<1> DEFINE r == [writes[w] EXCEPT !.pc = "write", !.point = p]
<1>2. WriteType(writes[w])  BY WriteTypeNow
<1>3. r \in WriteRecord(writes[w].old)  BY <1>2, Zenon DEF WriteType, WriteRecord
<1>4. /\ r.pc = "write" /\ r.point = p /\ r.old = writes[w].old /\ r.req = writes[w].req
  BY <1>2 DEF WriteType, WriteRecord
<1>5. WritesType'
  <2>1. writes' = [writes EXCEPT ![w] = r]  BY <1>1 DEF TypeOK, WritesType
  <2> HIDE DEF r
  <2>2. WriteType(r)  BY <1>1, <1>2, <1>3, <1>4 DEF WriteType
  <2>3. QED  BY <2>1, <2>2, WriteMoves
<1>6. lock' \in [Buses -> Seq(Tasks)]
  BY <1>1, ConfigAssumption, EnqueueType DEF TypeOK, LoopType, Tasks
<1>7. QED
  BY <1>5, <1>6 DEF QueueWrite, TypeOK, LoopType, PollType, CurrentDevice, StateType,
                    RegistersType, Untouched

\* What a task that has a point knows.
LEMMA WritePoint ==
  ASSUME TypeOK, NEW w \in WriteIds,
         writes[w].pc \in {"write", "readback", "verified", "failed"}
  PROVE  /\ writes[w].point \in Writable /\ writes[w].point \in Points
         /\ BusOf[writes[w].point] \in Buses
         /\ Wanted(w) \in Values
         /\ DOMAIN writes[w].req = {ValueCell(writes[w].point)}
BY WriteTypeNow, ConfigAssumption, ModelAssumption DEF WriteType, Asks, Wanted

LEMMA ThreadWriteType ==
  ASSUME TypeOK, NEW w \in WriteIds, ThreadWrite(w)
  PROVE  TypeOK'
<1>1. WriteType(writes[w]) /\ writes[w].pc = "write"  BY WriteTypeNow DEF ThreadWrite
<1>2. writes[w].point \in Points /\ Wanted(w) \in Values  BY <1>1, WritePoint
<1>3. device' \in [Points -> Values]  BY <1>2 DEF ThreadWrite, TypeOK, StateType
<1> DEFINE read   == [writes[w] EXCEPT !.pc = "readback", !.attempt = 1]
           nacked == [writes[w] EXCEPT !.pc = "readback", !.attempt = 1, !.acked = FALSE]
           failed == [writes[w] EXCEPT !.pc = "failed"]
<1>4. WriteType(read) /\ WriteType(nacked) /\ WriteType(failed)
  <2>1. 1 \in 0 .. WRITE_VERIFY_ATTEMPTS  BY ModelAssumption
  <2>2. /\ read \in WriteRecord(writes[w].old) /\ nacked \in WriteRecord(writes[w].old)
        /\ failed \in WriteRecord(writes[w].old)
    BY <1>1, <2>1, Zenon DEF WriteType, WriteRecord
  <2>3. /\ read.pc = "readback" /\ read.point = writes[w].point
        /\ read.old = writes[w].old /\ read.req = writes[w].req
    BY <1>1 DEF WriteType, WriteRecord
  <2>4. /\ nacked.pc = "readback" /\ nacked.point = writes[w].point
        /\ nacked.old = writes[w].old /\ nacked.req = writes[w].req
    BY <1>1 DEF WriteType, WriteRecord
  <2>5. /\ failed.pc = "failed" /\ failed.point = writes[w].point
        /\ failed.old = writes[w].old /\ failed.req = writes[w].req
    BY <1>1 DEF WriteType, WriteRecord
  <2> HIDE DEF read, nacked, failed
  <2>6. QED  BY <1>1, <2>2, <2>3, <2>4, <2>5 DEF WriteType
<1>5. WritesType'
  <2>1. \E r \in {read, nacked, failed} : writes' = [writes EXCEPT ![w] = r]
    BY DEF ThreadWrite, TypeOK, WritesType
  <2>2. QED  BY <1>4, <2>1, WriteMoves
<1>6. QED
  BY <1>3, <1>5 DEF ThreadWrite, TypeOK, LoopType, PollType, CurrentDevice, StateType,
                    RegistersType, Untouched

\* A mismatch either counts one attempt more or ends the write.
LEMMA MismatchMoves ==
  ASSUME NEW w \in WriteIds
  PROVE  AfterMismatch(w) =>
           \/ /\ writes[w].attempt < WRITE_VERIFY_ATTEMPTS
              /\ writes' = [writes EXCEPT ![w].attempt = @ + 1]
           \/ writes' = [writes EXCEPT ![w].pc = "failed"]
<1>1. CASE writes[w].attempt < WRITE_VERIFY_ATTEMPTS  BY <1>1, Zenon DEF AfterMismatch
<1>2. CASE ~(writes[w].attempt < WRITE_VERIFY_ATTEMPTS)  BY <1>2, Zenon DEF AfterMismatch
<1>3. QED  BY <1>1, <1>2, Zenon

LEMMA ThreadReadbackType ==
  ASSUME TypeOK, NEW w \in WriteIds, ThreadReadback(w)
  PROVE  TypeOK'
<1>1. WriteType(writes[w]) /\ writes[w].pc = "readback"  BY WriteTypeNow DEF ThreadReadback
<1>2. ReadbackAnswers(writes[w].point) \subseteq Values
  BY <1>1, WritePoint DEF ReadbackAnswers, TypeOK, StateType
<1> DEFINE again       == [writes[w] EXCEPT !.attempt = @ + 1]
           failed      == [writes[w] EXCEPT !.pc = "failed"]
           verified(v) == [writes[w] EXCEPT !.pc = "verified", !.got = v]
<1>3. WriteType(failed)
  <2>1. failed \in WriteRecord(writes[w].old)  BY <1>1, Zenon DEF WriteType, WriteRecord
  <2>2. /\ failed.pc = "failed" /\ failed.point = writes[w].point
        /\ failed.old = writes[w].old /\ failed.req = writes[w].req
    BY <1>1 DEF WriteType, WriteRecord
  <2> HIDE DEF failed
  <2>3. QED  BY <1>1, <2>1, <2>2 DEF WriteType
<1>4. ASSUME NEW v \in Values PROVE WriteType(verified(v))
  <2>1. verified(v) \in WriteRecord(writes[w].old)  BY <1>1, Zenon DEF WriteType, WriteRecord
  <2>2. /\ verified(v).pc = "verified" /\ verified(v).point = writes[w].point
        /\ verified(v).old = writes[w].old /\ verified(v).req = writes[w].req
        /\ verified(v).got = v
    BY <1>1 DEF WriteType, WriteRecord
  <2> HIDE DEF verified
  <2>3. QED  BY <1>1, <2>1, <2>2 DEF WriteType
<1>5. ASSUME writes[w].attempt < WRITE_VERIFY_ATTEMPTS PROVE WriteType(again)
  <2>1. writes[w].attempt + 1 \in 0 .. WRITE_VERIFY_ATTEMPTS
    BY <1>1, <1>5, ModelAssumption DEF WriteType, WriteRecord
  <2>2. again \in WriteRecord(writes[w].old)
    BY <1>1, <2>1, Zenon DEF WriteType, WriteRecord
  <2>3. /\ again.pc = "readback" /\ again.point = writes[w].point
        /\ again.old = writes[w].old /\ again.req = writes[w].req
    BY <1>1, Zenon DEF WriteType, WriteRecord
  <2> HIDE DEF again
  <2>4. QED  BY <1>1, <2>2, <2>3 DEF WriteType
<1>6. WritesType'
  <2>1. \/ writes' = [writes EXCEPT ![w] = failed]
        \/ writes[w].attempt < WRITE_VERIFY_ATTEMPTS /\ writes' = [writes EXCEPT ![w] = again]
        \/ \E v \in Values : writes' = [writes EXCEPT ![w] = verified(v)]
    <3>1. \/ writes' = [writes EXCEPT ![w].pc = "failed"]
          \/ /\ writes[w].attempt < WRITE_VERIFY_ATTEMPTS
             /\ writes' = [writes EXCEPT ![w].attempt = @ + 1]
          \/ \E v \in Values : writes' = [writes EXCEPT ![w].pc = "verified", ![w].got = v]
      BY <1>2, MismatchMoves, Zenon DEF ThreadReadback
    <3>2. QED  BY <3>1, Zenon
  <2>2. QED  BY <1>3, <1>4, <1>5, <2>1, WriteMoves
<1>7. QED
  BY <1>6 DEF ThreadReadback, TypeOK, LoopType, PollType, CurrentDevice, StateType,
              RegistersType, Untouched

LEMMA ConfirmWriteType ==
  ASSUME TypeOK, LinesAreHeld, NEW w \in WriteIds, ConfirmWrite(w)
  PROVE  TypeOK'
<1> DEFINE p == writes[w].point
           d == DeviceOf(p)
<1>1. WriteType(writes[w]) /\ writes[w].pc = "verified"  BY WriteTypeNow DEF ConfirmWrite
<1>2. p \in Points /\ BusOf[p] \in Buses  BY <1>1, WritePoint
<1>3. writes[w].got \in Values  BY <1>1 DEF WriteType
<1>4. CHANNEL_OK \in ChannelStatuses
  BY DEF CHANNEL_OK, ChannelStatuses, CHANNEL_DISABLED, CHANNEL_FAILED
<1>5. WritesType'  BY NoWriteType, WriteMoves DEF ConfirmWrite
<1>6. lock' \in [Buses -> Seq(Tasks)]
  BY <1>1, <1>2, ReleaseType DEF ConfirmWrite, LinesAreHeld, TypeOK, LoopType
<1>7. mask' \in [Devices -> SUBSET LogicUnit]
  BY MaskType DEF ConfirmWrite, MaskAfterWrite, TypeOK, StateType
<1>8. StateType'
  <2>1. value' \in [Points -> Values \cup {None}]
    BY <1>3 DEF ConfirmWrite, TypeOK, StateType
  <2>2. point' \in [Points -> PointRecord]
    BY <1>2, <1>4, ClearedType DEF ConfirmWrite, TypeOK, StateType
  <2>3. QED  BY <1>7, <2>1, <2>2 DEF ConfirmWrite, TypeOK, StateType
<1>9. RegistersType'
  <2> SUFFICES ASSUME NEW c \in Cells
               PROVE  hr'[c] \in ContentsOf(c)
    BY DEF ConfirmWrite, RegistersType
  <2>1. hr[c] \in ContentsOf(c)  BY DEF TypeOK, RegistersType
  <2>2. c = MaskCell(d) => mask'[d] \in SUBSET LogicUnit
    <3>1. c = MaskCell(d) => d \in Devices
      BY CellKinds DEF ValueCell, StatusCell, MaskCell, DeviceCell, LineCell, ServiceCell
    <3>2. QED  BY <1>7, <3>1
  <2>3. hr'[c] = CASE c = ValueCell(p)  -> writes[w].got
                   [] c = StatusCell(p) -> CHANNEL_OK
                   [] c = MaskCell(d)   -> mask'[d]
                   [] OTHER             -> hr[c]
    BY DEF ConfirmWrite
  <2>4. QED  BY <1>3, <1>4, <2>1, <2>2, <2>3, CellContents
<1>10. QED
  BY <1>5, <1>6, <1>8, <1>9 DEF ConfirmWrite, TypeOK, LoopType, PollType, CurrentDevice

LEMMA RollBackType ==
  ASSUME TypeOK, LinesAreHeld, NEW w \in WriteIds, RollBack(w)
  PROVE  TypeOK'
<1>1. WriteType(writes[w]) /\ writes[w].pc \in {"verified", "failed"}
  BY WriteTypeNow DEF RollBack
<1>2. BusOf[writes[w].point] \in Buses  BY <1>1, WritePoint
<1>3. WritesType'  BY NoWriteType, WriteMoves DEF RollBack
<1>4. RegistersType'  BY <1>1, OverwriteType DEF RollBack, TypeOK, WriteType
<1>5. lock' \in [Buses -> Seq(Tasks)]
  BY <1>1, <1>2, ReleaseType DEF RollBack, LinesAreHeld, TypeOK, LoopType
<1>6. QED
  BY <1>3, <1>4, <1>5 DEF RollBack, TypeOK, LoopType, PollType, CurrentDevice, StateType

LEMMA DriftType ==
  ASSUME TypeOK, NEW p \in Points, Drift(p)
  PROVE  TypeOK'
<1>1. PICK v \in Readings[p] : device' = [device EXCEPT ![p] = v]  BY DEF Drift
<1>2. v \in Values  BY <1>1 DEF Values
<1>3. device' \in [Points -> Values]  BY <1>1, <1>2 DEF TypeOK, StateType
<1>4. QED
  BY <1>3 DEF Drift, TypeOK, LoopType, PollType, CurrentDevice, WritesType, StateType,
              RegistersType, Untouched

LEMMA StabiliseType ==
  ASSUME TypeOK, Stabilise
  PROVE  TypeOK'
BY DEF Stabilise, TypeOK, LoopType, PollType, CurrentDevice, WritesType, StateType,
       RegistersType, Polled

LEMMA StutterType ==
  ASSUME TypeOK, UNCHANGED vars
  PROVE  TypeOK'
BY DEF vars, TypeOK, LoopType, PollType, CurrentDevice, WritesType, StateType, RegistersType

LEMMA TypeStep ==
  ASSUME TypeOK, LinesAreHeld, [Next]_vars
  PROVE  TypeOK'
<1>1. ASSUME NEW b \in Buses, PollStep(b) PROVE TypeOK'
  BY <1>1, BeginCycleType, SkipPointType, RequestPointType, ThreadReadType,
     RetryAfterPauseType, EndOfPauseType, RetryAtOnceType, PollValueType, PollEmptyType,
     PollTimeoutType, PollIOErrorType, PollProtocolErrorType, EndDeviceType DEF PollStep
<1>2. ASSUME NEW w \in WriteIds, WriteStep(w) \/ ClientWrite(w) PROVE TypeOK'
  BY <1>2, ClientWriteType, RefuseWriteType, QueueWriteType, ThreadWriteType,
     ThreadReadbackType, ConfirmWriteType, RollBackType DEF WriteStep
<1>3. ASSUME NEW p \in Points, Drift(p) PROVE TypeOK'  BY <1>3, DriftType
<1>4. QED  BY <1>1, <1>2, <1>3, StabiliseType, StutterType DEF Next

LEMMA NoCountersType == NoCounters \in Counters
BY ModelAssumption DEF NoCounters, Counters, Counts, Errors, ERROR_NONE, ERROR_IO

LEMMA InitType ==
  ASSUME Init
  PROVE  TypeOK
<1>1. LoopType
  <2>1. Sleeping \in PollRecord /\ Sleeping.pc = "sleep" /\ Sleeping.attempt = 0
    BY DEF Sleeping, StartOfDevice, NoReply, PollRecord, Errors, ERROR_NONE, ERROR_IO
  <2>2. \A b \in Buses : poll[b] = Sleeping /\ RequestRetries[b] \in Nat
    BY ConfigAssumption DEF Init
  <2>3. \A b \in Buses : PollType(b)
    <3>1. \A k \in Nat : 0 <= k + 1  OBVIOUS
    <3>2. QED  BY <2>1, <2>2, <3>1 DEF PollType
  <2>4. QED  BY <2>1, <2>3 DEF Init, LoopType
<1>2. WritesType  BY NoWriteType DEF Init, WritesType
<1>3. STATUS_OFFLINE \in DeviceStatuses /\ BlockOf(STATUS_OFFLINE, NoCounters) \in Block
  BY NoCountersType, BlockType
  DEF DeviceStatuses, STATUS_OFFLINE, STATUS_OK, STATUS_PROTOCOL_ERROR
<1>4. StateType
  <2>1. [failures |-> 0, status |-> CHANNEL_COMM_ERROR, skip |-> 0] \in PointRecord
    BY ConfigAssumption
    DEF PointRecord, ChannelStatuses, CHANNEL_COMM_ERROR, CHANNEL_DISABLED, CHANNEL_FAILED
  <2>2. QED  BY <1>3, <2>1, NoCountersType DEF Init, StateType
<1>5. RegistersType
  <2> SUFFICES ASSUME NEW c \in Cells
               PROVE  InitialContent(c) \in ContentsOf(c)
    BY DEF Init, RegistersType
  <2>1. 0 \in ChannelStatuses  BY DEF ChannelStatuses, CHANNEL_DISABLED, CHANNEL_FAILED
  <2>2. QED  BY <1>3, <2>1 DEF InitialContent, ContentsOf
<1>6. QED  BY <1>1, <1>2, <1>4, <1>5 DEF TypeOK

-----------------------------------------------------------------------------
(* LinesAreHeld.  A task queues behind the holder, and only the holder     *)
(* leaves the queue.                                                       *)

Holding == {"readback", "verified", "failed"}

LEMMA OneHolder ==
  ASSUME NEW t, NEW u, NEW b, Holds(t, b), Holds(u, b)
  PROVE  t = u
BY DEF Holds

LEMMA QueueBehind ==
  ASSUME lock \in [Buses -> Seq(Tasks)], NEW b \in Buses, NEW t, Holds(t, b),
         NEW u \in Tasks, NEW c \in Buses, Enqueue(u, c)
  PROVE  Holds(t, b)'
<1>1. lock[b] \in Seq(Tasks) /\ lock[b] # <<>>  BY DEF Holds
<1>2. lock'[b] = IF b = c THEN Append(lock[b], u) ELSE lock[b]  BY DEF Enqueue
<1>3. Append(lock[b], u) # <<>> /\ Head(Append(lock[b], u)) = Head(lock[b])
  BY <1>1, HeadTailAppend
<1>4. QED  BY <1>2, <1>3 DEF Holds

\* A step of the polling task of b that leaves everything of the others alone.
LEMMA PollKeepsLines ==
  ASSUME TypeOK, LinesAreHeld, NEW b \in Buses,
         UNCHANGED writes, \A x \in Buses \ {b} : poll'[x] = poll[x],
         \/ /\ UNCHANGED lock \/ Enqueue(b, b)
            /\ poll'[b].pc = "reply" => Holds(b, b)
         \/ /\ poll[b].pc = "reply" /\ poll'[b].pc # "reply"
            /\ \A x \in Buses \ {b} : lock'[x] = lock[x]
  PROVE  LinesAreHeld'
<1>1. lock \in [Buses -> Seq(Tasks)]  BY DEF TypeOK, LoopType
<1>2. CASE (UNCHANGED lock \/ Enqueue(b, b)) /\ (poll'[b].pc = "reply" => Holds(b, b))
  <2>1. ASSUME NEW t, NEW x \in Buses, Holds(t, x) PROVE Holds(t, x)'
    BY <1>1, <1>2, <2>1, QueueBehind DEF Holds, Tasks
  <2>2. ASSUME NEW x \in Buses, poll'[x].pc = "reply" PROVE Holds(x, x)'
    BY <1>2, <2>1, <2>2 DEF LinesAreHeld
  <2>3. ASSUME NEW w \in WriteIds, writes'[w].pc \in Holding
        PROVE  Holds(w, BusOf[writes[w].point])'
    BY <2>1, <2>3, WritePoint DEF LinesAreHeld, Holding
  <2>4. QED  BY <2>2, <2>3 DEF LinesAreHeld, Holding
<1>3. CASE /\ poll[b].pc = "reply" /\ poll'[b].pc # "reply"
           /\ \A x \in Buses \ {b} : lock'[x] = lock[x]
  <2>1. Holds(b, b)  BY <1>3 DEF LinesAreHeld
  <2>2. ASSUME NEW x \in Buses, poll'[x].pc = "reply" PROVE Holds(x, x)'
    BY <1>3, <2>2 DEF LinesAreHeld, Holds
  <2>3. ASSUME NEW w \in WriteIds, writes'[w].pc \in Holding
        PROVE  Holds(w, BusOf[writes[w].point])'
    <3>1. BusOf[writes[w].point] \in Buses /\ Holds(w, BusOf[writes[w].point])
      BY <2>3, WritePoint DEF LinesAreHeld, Holding
    <3>2. BusOf[writes[w].point] # b
      BY <2>1, <3>1, OneHolder, ModelAssumption
    <3>3. QED  BY <1>3, <3>1, <3>2 DEF Holds
  <2>4. QED  BY <2>2, <2>3 DEF LinesAreHeld, Holding
<1>4. QED  BY <1>2, <1>3

\* A step of the write task w that leaves everything of the others alone.
LEMMA WriteKeepsLines ==
  ASSUME TypeOK, LinesAreHeld, NEW w \in WriteIds,
         UNCHANGED poll, \A x \in WriteIds \ {w} : writes'[x] = writes[x],
         \/ /\ UNCHANGED lock \/ \E b \in Buses : Enqueue(w, b)
            /\ writes'[w].pc \in Holding
                 => BusOf[writes'[w].point] \in Buses /\ Holds(w, BusOf[writes'[w].point])
         \/ /\ writes[w].pc \in Holding /\ writes'[w].pc \notin Holding
            /\ \A x \in Buses \ {BusOf[writes[w].point]} : lock'[x] = lock[x]
  PROVE  LinesAreHeld'
<1>1. lock \in [Buses -> Seq(Tasks)]  BY DEF TypeOK, LoopType
<1>2. CASE /\ UNCHANGED lock \/ \E b \in Buses : Enqueue(w, b)
           /\ writes'[w].pc \in Holding
                => BusOf[writes'[w].point] \in Buses /\ Holds(w, BusOf[writes'[w].point])
  <2>1. ASSUME NEW t, NEW x \in Buses, Holds(t, x) PROVE Holds(t, x)'
    BY <1>1, <1>2, <2>1, QueueBehind DEF Holds, Tasks
  <2>2. ASSUME NEW x \in Buses, poll'[x].pc = "reply" PROVE Holds(x, x)'
    BY <2>1, <2>2 DEF LinesAreHeld
  <2>3. ASSUME NEW x \in WriteIds, writes'[x].pc \in Holding
        PROVE  Holds(x, BusOf[writes[x].point])'
    <3>1. CASE x = w  BY <1>2, <2>1, <2>3, <3>1 DEF Holds
    <3>2. CASE x # w
      <4>1. writes'[x] = writes[x]  BY <3>2
      <4>2. BusOf[writes[x].point] \in Buses /\ Holds(x, BusOf[writes[x].point])
        BY <2>3, <4>1, WritePoint DEF LinesAreHeld, Holding
      <4>3. QED  BY <2>1, <4>1, <4>2 DEF Holds
    <3>3. QED  BY <3>1, <3>2
  <2>4. QED  BY <2>2, <2>3 DEF LinesAreHeld, Holding
<1>3. CASE /\ writes[w].pc \in Holding /\ writes'[w].pc \notin Holding
           /\ \A x \in Buses \ {BusOf[writes[w].point]} : lock'[x] = lock[x]
  <2>1. Holds(w, BusOf[writes[w].point])  BY <1>3 DEF LinesAreHeld, Holding
  <2>2. ASSUME NEW x \in Buses, poll'[x].pc = "reply" PROVE Holds(x, x)'
    <3>1. Holds(x, x)  BY <2>2 DEF LinesAreHeld
    <3>2. x # BusOf[writes[w].point]  BY <2>1, <3>1, OneHolder, ModelAssumption
    <3>3. QED  BY <1>3, <3>1, <3>2 DEF Holds
  <2>3. ASSUME NEW x \in WriteIds, writes'[x].pc \in Holding
        PROVE  Holds(x, BusOf[writes[x].point])'
    <3>1. writes'[x] = writes[x] /\ x # w  BY <1>3, <2>3
    <3>2. BusOf[writes[x].point] \in Buses /\ Holds(x, BusOf[writes[x].point])
      BY <2>3, <3>1, WritePoint DEF LinesAreHeld, Holding
    <3>3. BusOf[writes[x].point] # BusOf[writes[w].point]
      BY <2>1, <3>1, <3>2, OneHolder
    <3>4. QED  BY <1>3, <3>1, <3>2, <3>3 DEF Holds
  <2>4. QED  BY <2>2, <2>3 DEF LinesAreHeld, Holding
<1>4. QED  BY <1>2, <1>3

\* What the end of a point does to the local variables of the tasks.
LEMMA SettleMoves ==
  ASSUME TypeOK, NEW b \in Buses, NEW failed, NEW protocol, NEW error,
         Settle(b, failed, protocol, error)
  PROVE  /\ poll'[b].pc = "point" /\ \A x \in Buses \ {b} : poll'[x] = poll[x]
         /\ \A x \in Buses \ {b} : lock'[x] = lock[x]
<1>1. poll[b] \in PollRecord  BY DEF TypeOK, LoopType
<1>2. Settled(poll[b], failed, protocol, error).pc = "point"
  BY <1>1, Zenon DEF Settled, PollRecord
<1>3. QED  BY <1>2 DEF Settle, Release, TypeOK, LoopType

\* A polling task changes neither a device nor another task's local variables,
\* and only ThreadRead leaves it with a reply.
LEMMA PollFrame ==
  ASSUME TypeOK, NEW b \in Buses, PollStep(b)
  PROVE  /\ UNCHANGED <<writes, device>> /\ \A x \in Buses \ {b} : poll'[x] = poll[x]
         /\ ThreadRead(b) \/ poll'[b].pc # "reply"
<1>1. poll \in [Buses -> PollRecord]  BY DEF TypeOK, LoopType
<1>2. CASE BeginCycle(b)  BY <1>1, <1>2 DEF BeginCycle, StartOfDevice
<1>3. CASE SkipPoint(b)
  <2>1. poll'[b].pc = poll[b].pc  BY <1>1, <1>3, Zenon DEF SkipPoint, PollRecord
  <2>2. QED  BY <1>1, <1>3, <2>1 DEF SkipPoint, AtPoint
<1>4. CASE RequestPoint(b)
  <2>1. poll'[b].pc = "exchange"  BY <1>1, <1>4, Zenon DEF RequestPoint, PollRecord
  <2>2. QED  BY <1>1, <1>4, <2>1 DEF RequestPoint
<1>5. CASE ThreadRead(b)  BY <1>1, <1>5 DEF ThreadRead
<1>6. CASE RetryAfterPause(b)
  <2>1. poll'[b].pc = "pause"  BY <1>1, <1>6 DEF RetryAfterPause, PollRecord
  <2>2. QED  BY <1>1, <1>6, <2>1 DEF RetryAfterPause
<1>7. CASE EndOfPause(b)
  <2>1. poll'[b].pc = "exchange"  BY <1>1, <1>7, Zenon DEF EndOfPause, PollRecord
  <2>2. QED  BY <1>1, <1>7, <2>1 DEF EndOfPause
<1>8. CASE RetryAtOnce(b)
  <2>1. poll'[b].pc = "exchange"  BY <1>1, <1>8, Zenon DEF RetryAtOnce, PollRecord
  <2>2. QED  BY <1>1, <1>8, <2>1 DEF RetryAtOnce
<1>9. CASE PollValue(b)  BY <1>9, SettleMoves DEF PollValue
<1>10. CASE PollEmpty(b)  BY <1>10, SettleMoves DEF PollEmpty
<1>11. CASE PollTimeout(b)  BY <1>11, SettleMoves DEF PollTimeout, FailPoint
<1>12. CASE PollIOError(b)  BY <1>12, SettleMoves DEF PollIOError, FailPoint
<1>13. CASE PollProtocolError(b)  BY <1>13, SettleMoves DEF PollProtocolError, FailPoint
<1>14. CASE EndDevice(b)
  <2>1. poll'[b].pc # "reply"
    BY <1>1, <1>14 DEF EndDevice, Sleeping, StartOfDevice
  <2>2. QED  BY <1>1, <1>14, <2>1 DEF EndDevice
<1>15. QED
  BY <1>2, <1>3, <1>4, <1>5, <1>6, <1>7, <1>8, <1>9, <1>10, <1>11, <1>12, <1>13, <1>14
  DEF PollStep

LEMMA PollLines ==
  ASSUME TypeOK, LinesAreHeld, NEW b \in Buses, PollStep(b)
  PROVE  LinesAreHeld'
<1>1. lock \in [Buses -> Seq(Tasks)]  BY DEF TypeOK, LoopType
<1>2. /\ UNCHANGED writes /\ \A x \in Buses \ {b} : poll'[x] = poll[x]
      /\ ThreadRead(b) \/ poll'[b].pc # "reply"
  BY PollFrame
<1>3. CASE BeginCycle(b) \/ SkipPoint(b) \/ EndDevice(b)
  BY <1>2, <1>3, PollKeepsLines
  DEF BeginCycle, SkipPoint, AtPoint, EndDevice, ThreadRead
<1>4. CASE RequestPoint(b) \/ EndOfPause(b)
  BY <1>2, <1>4, PollKeepsLines DEF RequestPoint, AtPoint, EndOfPause, ThreadRead
<1>5. CASE ThreadRead(b)  BY <1>2, <1>5, PollKeepsLines DEF ThreadRead
<1>6. CASE RetryAfterPause(b) \/ RetryAtOnce(b)
  BY <1>1, <1>2, <1>6, PollKeepsLines
  DEF RetryAfterPause, RetryAtOnce, AtReply, Release, ThreadRead
<1>7. CASE PollValue(b) \/ PollEmpty(b)
  BY <1>2, <1>7, SettleMoves, PollKeepsLines DEF PollValue, PollEmpty, AtReply
<1>8. CASE PollTimeout(b) \/ PollIOError(b) \/ PollProtocolError(b)
  BY <1>2, <1>8, SettleMoves, PollKeepsLines
  DEF PollTimeout, PollIOError, PollProtocolError, FailPoint, AtReply
<1>9. QED  BY <1>3, <1>4, <1>5, <1>6, <1>7, <1>8 DEF PollStep

\* A write task changes neither a polling task's local variables nor another
\* write's; only ThreadReadback leaves it verified, only ThreadWrite changes a device.
LEMMA WriteFrame ==
  ASSUME TypeOK, NEW w \in WriteIds, WriteStep(w) \/ ClientWrite(w)
  PROVE  /\ UNCHANGED poll /\ \A x \in WriteIds \ {w} : writes'[x] = writes[x]
         /\ ThreadWrite(w) \/ UNCHANGED device
         /\ ThreadReadback(w) \/ writes'[w].pc # "verified"
<1>1. /\ writes = [x \in WriteIds |-> writes[x]]
      /\ writes[w] \in WriteRecord(writes[w].old)
  BY WriteTypeNow DEF TypeOK, WritesType, WriteType
<1>2. UNCHANGED poll /\ (ThreadWrite(w) \/ UNCHANGED device)
  BY DEF WriteStep, ClientWrite, RefuseWrite, QueueWrite, ThreadWrite, ThreadReadback,
         ConfirmWrite, RollBack, Untouched
<1>3. \A x \in WriteIds \ {w} : writes'[x] = writes[x]
  BY <1>1, MismatchMoves, Zenon DEF WriteStep, ClientWrite, RefuseWrite, QueueWrite, ThreadWrite,
         ThreadReadback, ConfirmWrite, RollBack
<1>4. CASE ClientWrite(w)  BY <1>1, <1>2, <1>3, <1>4 DEF ClientWrite, NoWrite
<1>5. CASE RefuseWrite(w) \/ ConfirmWrite(w) \/ RollBack(w)
  BY <1>1, <1>2, <1>3, <1>5 DEF RefuseWrite, ConfirmWrite, RollBack, NoWrite
<1>6. CASE QueueWrite(w)
  <2>1. PICK p : writes' = [writes EXCEPT ![w].pc = "write", ![w].point = p]
    BY <1>6 DEF QueueWrite
  <2>2. writes'[w].pc = "write"  BY <1>1, <2>1, Zenon DEF WriteRecord
  <2>3. QED  BY <1>2, <1>3, <2>2
<1>7. CASE ThreadWrite(w)
  <2>1. writes'[w].pc \in {"readback", "failed"}
    <3>1. \/ writes' = [writes EXCEPT ![w].pc = "readback", ![w].attempt = 1]
          \/ writes' = [writes EXCEPT ![w].pc = "readback", ![w].attempt = 1, ![w].acked = FALSE]
          \/ writes' = [writes EXCEPT ![w].pc = "failed"]
      BY <1>7, Zenon DEF ThreadWrite
    <3>2. CASE writes' = [writes EXCEPT ![w].pc = "readback", ![w].attempt = 1]
      BY <1>1, <3>2, Zenon DEF WriteRecord
    <3>3. CASE writes' = [writes EXCEPT ![w].pc = "readback", ![w].attempt = 1,
                                        ![w].acked = FALSE]
      BY <1>1, <3>3, Zenon DEF WriteRecord
    <3>4. CASE writes' = [writes EXCEPT ![w].pc = "failed"]
      BY <1>1, <3>4, Zenon DEF WriteRecord
    <3>5. QED  BY <3>1, <3>2, <3>3, <3>4
  <2>2. QED  BY <1>2, <1>3, <2>1
<1>8. QED  BY <1>2, <1>3, <1>4, <1>5, <1>6, <1>7 DEF WriteStep

LEMMA WriteLines ==
  ASSUME TypeOK, LinesAreHeld, NEW w \in WriteIds, WriteStep(w) \/ ClientWrite(w)
  PROVE  LinesAreHeld'
<1>1. /\ writes = [x \in WriteIds |-> writes[x]] /\ WriteType(writes[w])
      /\ lock \in [Buses -> Seq(Tasks)]
  BY WriteTypeNow DEF TypeOK, WritesType, LoopType
<1>2. NoWrite.pc \notin Holding /\ "write" \notin Holding /\ "created" \notin Holding
  BY DEF NoWrite, Holding
<1>3. CASE ClientWrite(w)
  <2>1. writes'[w].pc = "created"  BY <1>1, <1>3 DEF ClientWrite, NoWrite
  <2>2. QED  BY <1>1, <1>2, <1>3, <2>1, WriteKeepsLines DEF ClientWrite
<1>4. CASE RefuseWrite(w)
  <2>1. writes'[w] = NoWrite  BY <1>1, <1>4 DEF RefuseWrite
  <2>2. QED  BY <1>1, <1>2, <1>4, <2>1, WriteKeepsLines DEF RefuseWrite
<1>5. CASE QueueWrite(w)
  <2>1. PICK p \in Writable : /\ writes' = [writes EXCEPT ![w].pc = "write", ![w].point = p]
                              /\ Enqueue(w, BusOf[p])
    BY <1>5 DEF QueueWrite
  <2>2. writes'[w].pc = "write"  BY <1>1, <2>1, Zenon DEF WriteType, WriteRecord
  <2>3. BusOf[p] \in Buses  BY ConfigAssumption
  <2>4. QED
    BY <1>1, <1>2, <1>5, <2>1, <2>2, <2>3, WriteKeepsLines DEF QueueWrite, Untouched
<1>6. CASE ThreadWrite(w)
  <2>1. writes'[w].point = writes[w].point /\ \A x \in WriteIds \ {w} : writes'[x] = writes[x]
    <3>1. \/ writes' = [writes EXCEPT ![w].pc = "readback", ![w].attempt = 1]
          \/ writes' = [writes EXCEPT ![w].pc = "readback", ![w].attempt = 1, ![w].acked = FALSE]
          \/ writes' = [writes EXCEPT ![w].pc = "failed"]
      BY <1>6, Zenon DEF ThreadWrite
    <3>2. writes[w] \in WriteRecord(writes[w].old)  BY <1>1 DEF WriteType
    <3>3. /\ [writes[w] EXCEPT !.pc = "readback", !.attempt = 1].point = writes[w].point
          /\ [writes[w] EXCEPT !.pc = "readback", !.attempt = 1, !.acked = FALSE].point = writes[w].point
          /\ [writes[w] EXCEPT !.pc = "failed"].point = writes[w].point
      BY <3>2, Zenon DEF WriteRecord
    <3>4. \E r : writes' = [writes EXCEPT ![w] = r] /\ r.point = writes[w].point
      BY <3>1, <3>3, Zenon
    <3>5. QED  BY <1>1, <3>4, Zenon
  <2>2. BusOf[writes[w].point] \in Buses  BY <1>6, WritePoint DEF ThreadWrite
  <2>3. QED  BY <1>6, <2>1, <2>2, WriteKeepsLines DEF ThreadWrite, Untouched
<1>7. CASE ThreadReadback(w)
  <2>1. writes'[w].point = writes[w].point /\ \A x \in WriteIds \ {w} : writes'[x] = writes[x]
    <3>1. \/ writes' = [writes EXCEPT ![w].pc = "failed"]
          \/ writes' = [writes EXCEPT ![w].attempt = @ + 1]
          \/ \E v : writes' = [writes EXCEPT ![w].pc = "verified", ![w].got = v]
      BY <1>7, MismatchMoves, Zenon DEF ThreadReadback
    <3>2. writes[w] \in WriteRecord(writes[w].old)  BY <1>1 DEF WriteType
    <3>3. /\ [writes[w] EXCEPT !.pc = "failed"].point = writes[w].point
          /\ [writes[w] EXCEPT !.attempt = @ + 1].point = writes[w].point
          /\ \A v : [writes[w] EXCEPT !.pc = "verified", !.got = v].point = writes[w].point
      BY <3>2, Zenon DEF WriteRecord
    <3>4. \E r : writes' = [writes EXCEPT ![w] = r] /\ r.point = writes[w].point
      <4>1. CASE \E v : writes' = [writes EXCEPT ![w].pc = "verified", ![w].got = v]
        <5>1. PICK v : writes' = [writes EXCEPT ![w] = [writes[w] EXCEPT !.pc = "verified", !.got = v]]
          BY <4>1, Zenon
        <5>2. QED  BY <3>3, <5>1, Zenon
      <4>2. QED  BY <3>1, <3>3, <4>1, Zenon
    <3>5. QED  BY <1>1, <3>4, Zenon
  <2>2. BusOf[writes[w].point] \in Buses  BY <1>7, WritePoint DEF ThreadReadback
  <2>3. Holds(w, BusOf[writes[w].point])  BY <1>7 DEF ThreadReadback, LinesAreHeld
  <2>4. QED  BY <1>7, <2>1, <2>2, <2>3, WriteKeepsLines DEF ThreadReadback, Untouched
<1>8. CASE ConfirmWrite(w)
  <2>1. writes'[w] = NoWrite /\ \A x \in WriteIds \ {w} : writes'[x] = writes[x]
    BY <1>1, <1>8 DEF ConfirmWrite
  <2>2. \A x \in Buses \ {BusOf[writes[w].point]} : lock'[x] = lock[x]
    BY <1>1, <1>8 DEF ConfirmWrite, Release
  <2>3. writes[w].pc \in Holding /\ UNCHANGED poll  BY <1>8 DEF ConfirmWrite, Holding
  <2>4. QED  BY <1>2, <2>1, <2>2, <2>3, WriteKeepsLines
<1>9. CASE RollBack(w)
  <2>1. writes'[w] = NoWrite /\ \A x \in WriteIds \ {w} : writes'[x] = writes[x]
    BY <1>1, <1>9 DEF RollBack
  <2>2. \A x \in Buses \ {BusOf[writes[w].point]} : lock'[x] = lock[x]
    BY <1>1, <1>9 DEF RollBack, Release
  <2>3. writes[w].pc \in Holding /\ UNCHANGED poll  BY <1>9 DEF RollBack, Holding
  <2>4. QED  BY <1>2, <2>1, <2>2, <2>3, WriteKeepsLines
<1>10. QED  BY <1>3, <1>4, <1>5, <1>6, <1>7, <1>8, <1>9 DEF WriteStep

LEMMA LinesStep ==
  ASSUME TypeOK, LinesAreHeld, [Next]_vars
  PROVE  LinesAreHeld'
<1>1. ASSUME UNCHANGED <<lock, poll, writes>> PROVE LinesAreHeld'
  BY <1>1 DEF LinesAreHeld, Holds
<1>2. QED
  BY <1>1, PollLines, WriteLines DEF Next, Drift, Stabilise, Untouched, vars

-----------------------------------------------------------------------------
(* ReadingsAreCurrent, task by task *)

PollIsCurrent(b) ==
  poll[b].pc = "reply" /\ poll[b].reply.kind = "value"
    => CurrentPoint(b) \in Drifting \/ poll[b].reply.value = device[CurrentPoint(b)]

WriteIsCurrent(w) ==
  writes[w].pc = "verified"
    => writes[w].point \in Drifting \/ writes[w].got = device[writes[w].point]

LEMMA CurrentParts ==
  ReadingsAreCurrent <=>
    (NoStrayAnswers => (\A b \in Buses : PollIsCurrent(b)) /\ (\A w \in WriteIds : WriteIsCurrent(w)))
BY DEF ReadingsAreCurrent, PollIsCurrent, WriteIsCurrent

\* A task that does not move stays current, unless its own point is written.
LEMMA PollUndisturbed ==
  ASSUME TypeOK, NEW b \in Buses, PollIsCurrent(b), poll'[b] = poll[b],
         poll[b].pc = "reply" => CurrentPoint(b) \in Drifting
                                 \/ device'[CurrentPoint(b)] = device[CurrentPoint(b)]
  PROVE  PollIsCurrent(b)'
<1>1. CurrentPoint(b)' = CurrentPoint(b)  BY DEF CurrentPoint, CurrentDevice
<1>2. QED  BY <1>1 DEF PollIsCurrent

LEMMA WriteUndisturbed ==
  ASSUME TypeOK, NEW w \in WriteIds, WriteIsCurrent(w), writes'[w] = writes[w],
         writes[w].pc = "verified" => writes[w].point \in Drifting
                                      \/ device'[writes[w].point] = device[writes[w].point]
  PROVE  WriteIsCurrent(w)'
BY DEF WriteIsCurrent

LEMMA ReadIsCurrent ==
  ASSUME TypeOK, NoStrayAnswers, NEW b \in Buses, ThreadRead(b)
  PROVE  PollIsCurrent(b)'
<1> DEFINE p == CurrentPoint(b)
<1>1. poll[b] \in PollRecord /\ poll \in [Buses -> PollRecord]  BY DEF TypeOK, LoopType
<1>2. PICK reply \in [kind : {"value"}, value : {device[p]}] \cup [kind : Faults, value : {None}] :
        poll' = [poll EXCEPT ![b].pc = "reply", ![b].reply = reply]
  BY DEF ThreadRead, NoStrayAnswers
<1>3. /\ poll'[b].reply = reply /\ poll'[b].dev = poll[b].dev /\ poll'[b].pt = poll[b].pt
  <2> DEFINE r == [poll[b] EXCEPT !.pc = "reply", !.reply = reply]
  <2>1. r.reply = reply /\ r.dev = poll[b].dev /\ r.pt = poll[b].pt
    BY <1>1, Zenon DEF PollRecord
  <2>2. poll'[b] = r  BY <1>1, <1>2
  <2>3. QED  BY <2>1, <2>2, Zenon
<1>4. CurrentPoint(b)' = p  BY <1>3 DEF CurrentPoint, CurrentDevice
<1>5. reply.kind = "value" => reply.value = device[p]
  BY <1>2, ModelAssumption DEF FaultKinds
<1>6. QED  BY <1>3, <1>4, <1>5 DEF ThreadRead, PollIsCurrent

LEMMA ReadbackIsCurrent ==
  ASSUME TypeOK, NoStrayAnswers, NEW w \in WriteIds, ThreadReadback(w)
  PROVE  WriteIsCurrent(w)'
<1> DEFINE p == writes[w].point
<1>1. /\ writes = [x \in WriteIds |-> writes[x]]
      /\ writes[w] \in WriteRecord(writes[w].old) /\ writes[w].pc = "readback"
  BY WriteTypeNow DEF ThreadReadback, TypeOK, WritesType, WriteType
<1>2. ReadbackAnswers(p) = {device[p]}  BY DEF ReadbackAnswers, NoStrayAnswers
<1>3. \/ writes' = [writes EXCEPT ![w].pc = "failed"]
      \/ writes' = [writes EXCEPT ![w].attempt = @ + 1]
      \/ writes' = [writes EXCEPT ![w].pc = "verified", ![w].got = device[p]]
  BY <1>2, MismatchMoves, Zenon DEF ThreadReadback
<1>4. /\ [writes[w] EXCEPT !.pc = "failed"].pc = "failed"
      /\ [writes[w] EXCEPT !.attempt = @ + 1].pc = "readback"
      /\ [writes[w] EXCEPT !.pc = "verified", !.got = device[p]].got = device[p]
      /\ [writes[w] EXCEPT !.pc = "verified", !.got = device[p]].point = p
  BY <1>1, Zenon DEF WriteRecord
<1>5. \/ writes'[w].pc \in {"failed", "readback"}
      \/ writes'[w].got = device[p] /\ writes'[w].point = p
  BY <1>1, <1>3, <1>4, Zenon
<1>6. UNCHANGED device  BY DEF ThreadReadback
<1>7. QED  BY <1>5, <1>6 DEF WriteIsCurrent

LEMMA PollCurrent ==
  ASSUME TypeOK, NoStrayAnswers, \A x \in Buses : PollIsCurrent(x),
         \A w \in WriteIds : WriteIsCurrent(w), NEW b \in Buses, PollStep(b)
  PROVE  (\A x \in Buses : PollIsCurrent(x)') /\ (\A w \in WriteIds : WriteIsCurrent(w)')
<1>1. /\ UNCHANGED <<writes, device>> /\ \A x \in Buses \ {b} : poll'[x] = poll[x]
      /\ ThreadRead(b) \/ poll'[b].pc # "reply"
  BY PollFrame
<1>2. ASSUME NEW x \in Buses PROVE PollIsCurrent(x)'
  <2>1. CASE x # b  BY <1>1, <2>1, PollUndisturbed
  <2>2. CASE x = b /\ ThreadRead(b)  BY <2>2, ReadIsCurrent
  <2>3. CASE x = b /\ poll'[b].pc # "reply"  BY <2>3 DEF PollIsCurrent
  <2>4. QED  BY <1>1, <2>1, <2>2, <2>3
<1>3. ASSUME NEW w \in WriteIds PROVE WriteIsCurrent(w)'  BY <1>1, WriteUndisturbed
<1>4. QED  BY <1>2, <1>3

\* The write of a device disturbs nobody: who has an unused reading of the line
\* holds the line.
LEMMA WriteDisturbsNobody ==
  ASSUME TypeOK, LinesAreHeld, NEW w \in WriteIds, ThreadWrite(w)
  PROVE  /\ \A b \in Buses : poll[b].pc = "reply" =>
              device'[CurrentPoint(b)] = device[CurrentPoint(b)]
         /\ \A x \in WriteIds \ {w} : writes[x].pc = "verified" =>
              device'[writes[x].point] = device[writes[x].point]
<1> DEFINE p == writes[w].point
<1>1. p \in Points /\ Holds(w, BusOf[p])  BY WritePoint DEF ThreadWrite
<1>2. device \in [Points -> Values]  BY DEF TypeOK, StateType
<1>3. \A q \in Points : q # p => device'[q] = device[q]  BY <1>2 DEF ThreadWrite
<1>4. ASSUME NEW b \in Buses, poll[b].pc = "reply"
      PROVE  device'[CurrentPoint(b)] = device[CurrentPoint(b)]
  <2>1. CurrentPoint(b) \in Points /\ BusOf[CurrentPoint(b)] = b
    BY <1>4, PollRecordNow, Place DEF PollRecordOK, CurrentDevice
  <2>2. Holds(b, b) /\ b # w  BY <1>4, ModelAssumption DEF LinesAreHeld
  <2>3. CurrentPoint(b) # p  BY <1>1, <2>1, <2>2, OneHolder
  <2>4. QED  BY <1>3, <2>1, <2>3
<1>5. ASSUME NEW x \in WriteIds \ {w}, writes[x].pc = "verified"
      PROVE  device'[writes[x].point] = device[writes[x].point]
  <2>1. writes[x].point \in Points /\ Holds(x, BusOf[writes[x].point])
    BY <1>5, WritePoint DEF LinesAreHeld
  <2>2. writes[x].point # p  BY <1>1, <2>1, OneHolder
  <2>3. QED  BY <1>3, <2>1, <2>2
<1>6. QED  BY <1>4, <1>5

LEMMA WriteCurrent ==
  ASSUME TypeOK, LinesAreHeld, NoStrayAnswers, \A b \in Buses : PollIsCurrent(b),
         \A x \in WriteIds : WriteIsCurrent(x),
         NEW w \in WriteIds, WriteStep(w) \/ ClientWrite(w)
  PROVE  (\A b \in Buses : PollIsCurrent(b)') /\ (\A x \in WriteIds : WriteIsCurrent(x)')
<1>1. UNCHANGED poll /\ \A x \in WriteIds \ {w} : writes'[x] = writes[x]
  BY WriteFrame
<1>2. /\ \A b \in Buses : poll[b].pc = "reply" =>
           device'[CurrentPoint(b)] = device[CurrentPoint(b)]
      /\ \A x \in WriteIds \ {w} : writes[x].pc = "verified" =>
           device'[writes[x].point] = device[writes[x].point]
  BY WriteFrame, WriteDisturbsNobody
<1>3. ASSUME NEW b \in Buses PROVE PollIsCurrent(b)'  BY <1>1, <1>2, PollUndisturbed
<1>4. ASSUME NEW x \in WriteIds PROVE WriteIsCurrent(x)'
  <2>1. CASE x # w  BY <1>1, <1>2, <2>1, WriteUndisturbed
  <2>2. CASE x = w /\ ThreadReadback(w)  BY <2>2, ReadbackIsCurrent
  <2>3. CASE x = w /\ writes'[w].pc # "verified"  BY <2>3 DEF WriteIsCurrent
  <2>4. QED  BY <2>1, <2>2, <2>3, WriteFrame
<1>5. QED  BY <1>3, <1>4

LEMMA CurrentStep ==
  ASSUME TypeOK, LinesAreHeld, ReadingsAreCurrent, [Next]_vars
  PROVE  ReadingsAreCurrent'
<1> SUFFICES ASSUME NoStrayAnswers
             PROVE  (\A b \in Buses : PollIsCurrent(b)') /\ (\A w \in WriteIds : WriteIsCurrent(w)')
  BY CurrentParts DEF ReadingsAreCurrent, PollIsCurrent, WriteIsCurrent, NoStrayAnswers
<1>1. (\A b \in Buses : PollIsCurrent(b)) /\ (\A w \in WriteIds : WriteIsCurrent(w))
  BY CurrentParts
<1>2. ASSUME NEW b \in Buses, PollStep(b)
      PROVE  (\A x \in Buses : PollIsCurrent(x)') /\ (\A w \in WriteIds : WriteIsCurrent(w)')
  BY <1>1, <1>2, PollCurrent
<1>3. ASSUME NEW w \in WriteIds, WriteStep(w) \/ ClientWrite(w)
      PROVE  (\A b \in Buses : PollIsCurrent(b)') /\ (\A x \in WriteIds : WriteIsCurrent(x)')
  BY <1>1, <1>3, WriteCurrent
<1>4. ASSUME UNCHANGED <<poll, writes>>,
             \A p \in Points : p \in Drifting \/ device'[p] = device[p]
      PROVE  (\A b \in Buses : PollIsCurrent(b)') /\ (\A w \in WriteIds : WriteIsCurrent(w)')
  <2>1. \A b \in Buses : poll[b].pc = "reply" => CurrentPoint(b) \in Points
    BY PollRecordNow, Place DEF PollRecordOK, CurrentDevice
  <2>2. \A w \in WriteIds : writes[w].pc = "verified" => writes[w].point \in Points
    BY WritePoint
  <2>3. QED  BY <1>1, <1>4, <2>1, <2>2, PollUndisturbed, WriteUndisturbed
<1>5. ASSUME NEW p \in Points, Drift(p)
      PROVE  UNCHANGED <<poll, writes>> /\ \A q \in Points : q \in Drifting \/ device'[q] = device[q]
  BY <1>5 DEF Drift, Untouched, TypeOK, StateType
<1>6. QED  BY <1>2, <1>3, <1>4, <1>5 DEF Next, Stabilise, vars

-----------------------------------------------------------------------------
(* The theorems *)

\* The strengthening: a task may rely on its reading only because it holds the
\* line, and the queue for a line is well formed only because who releases it
\* holds it.
IInv == TypeOK /\ LinesAreHeld /\ ReadingsAreCurrent

LEMMA InvInit ==
  ASSUME Init
  PROVE  IInv
<1>1. \A b \in Buses : poll[b].pc = "sleep"  BY DEF Init, Sleeping, StartOfDevice
<1>2. \A w \in WriteIds : writes[w].pc = "idle"  BY DEF Init, NoWrite
<1>3. QED  BY <1>1, <1>2, InitType DEF IInv, LinesAreHeld, ReadingsAreCurrent

LEMMA InvStep ==
  ASSUME IInv, [Next]_vars
  PROVE  IInv'
BY TypeStep, LinesStep, CurrentStep DEF IInv

LEMMA Invariance == Spec => []IInv
<1>1. Init => IInv  BY InvInit
<1>2. IInv /\ [Next]_vars => IInv'  BY InvStep
<1>3. QED  BY <1>1, <1>2, PTL DEF Spec

\* Every variable keeps its type: no lock queue, register or counter is ever
\* outside its range, and the points the tasks work at exist.
THEOREM TypesHold == Spec => []TypeOK
<1>1. IInv => TypeOK  BY DEF IInv
<1>2. QED  BY <1>1, Invariance, PTL

\* Between an exchange and the use of its answer a task holds its line, on any
\* number of lines and with any number of writes (bus_locks).
THEOREM LinesHold == Spec => []LinesAreHeld
<1>1. IInv => LinesAreHeld  BY DEF IInv
<1>2. QED  BY <1>1, Invariance, PTL

\* What the gateway is about to publish or to confirm is still what the device
\* has, if every answer it takes was meant for it.
THEOREM ReadingsStayCurrent == Spec => []ReadingsAreCurrent
<1>1. IInv => ReadingsAreCurrent  BY DEF IInv
<1>2. QED  BY <1>1, Invariance, PTL
=============================================================================
