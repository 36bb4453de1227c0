--------------------------- MODULE SetpointProofs ---------------------------
(***************************************************************************)
(* Proof that GatewayService implements Setpoint: what its clients see of  *)
(* their writes, for any number of lines, points, clients and attempts.    *)
(***************************************************************************)
EXTENDS GatewayServiceProofs

-----------------------------------------------------------------------------
(* What the refinement needs beside IInv *)

\* A write slot that is free keeps nothing of the write before.
FreeIsEmpty == \A w \in WriteIds : writes[w].pc = "idle" => writes[w] = NoWrite

\* A verified write has read a value that fits.
VerifiedFits ==
  \A w \in WriteIds : writes[w].pc = "verified" => ValuesMatch(Wanted(w), writes[w].got)

SInv == IInv /\ FreeIsEmpty /\ VerifiedFits

LEMMA WriteSlots ==
  ASSUME TypeOK
  PROVE  /\ writes = [w \in WriteIds |-> writes[w]]
         /\ \A w \in WriteIds : writes[w] \in WriteRecord(writes[w].old)
BY DEF TypeOK, WritesType, WriteType

LEMMA WriteStepKeepsSlots ==
  ASSUME SInv, NEW w \in WriteIds, WriteStep(w) \/ ClientWrite(w)
  PROVE  (FreeIsEmpty /\ VerifiedFits)'
<1> DEFINE r == writes[w]
<1>1. /\ writes = [x \in WriteIds |-> writes[x]] /\ r \in WriteRecord(r.old)
      /\ \A x \in WriteIds \ {w} : writes'[x] = writes[x]
  BY WriteSlots, WriteFrame DEF SInv, IInv
<1>2. /\ writes'[w].pc = "idle" => writes'[w] = NoWrite
      /\ writes'[w].pc = "verified" => ValuesMatch(Wanted(w), writes[w].got)'
  <2>1. CASE ClientWrite(w)
    <3>1. writes'[w].pc = "created"  BY <1>1, <2>1 DEF ClientWrite, NoWrite
    <3>2. QED  BY <3>1
  <2>2. CASE RefuseWrite(w) \/ ConfirmWrite(w) \/ RollBack(w)
    <3>1. writes'[w] = NoWrite  BY <1>1, <2>2 DEF RefuseWrite, ConfirmWrite, RollBack
    <3>2. QED  BY <3>1 DEF NoWrite
  <2>3. CASE QueueWrite(w)
    <3>1. writes'[w].pc = "write"  BY <1>1, <2>3 DEF QueueWrite, WriteRecord
    <3>2. QED  BY <3>1
  <2>4. CASE ThreadWrite(w)
    <3>1. writes'[w].pc \in {"readback", "failed"}  BY <1>1, <2>4 DEF ThreadWrite, WriteRecord
    <3>2. QED  BY <3>1
  <2>5. CASE ThreadReadback(w)
    <3>1. writes[w].pc = "readback"  BY <2>5 DEF ThreadReadback
    <3>2. CASE AfterMismatch(w)
      <4>1. writes'[w].pc \in {"readback", "failed"}
        BY <1>1, <3>1, <3>2, MismatchMoves DEF WriteRecord
      <4>2. QED  BY <4>1
    <3>3. ASSUME NEW v, ValuesMatch(Wanted(w), v),
                 writes' = [writes EXCEPT ![w].pc = "verified", ![w].got = v]
          PROVE  /\ writes'[w].pc = "verified" /\ Wanted(w)' = Wanted(w)
                 /\ writes'[w].got = v
      BY <1>1, <3>3 DEF Wanted, WriteRecord
    <3>4. QED  BY <2>5, <3>2, <3>3 DEF ThreadReadback
  <2>6. QED  BY <2>1, <2>2, <2>3, <2>4, <2>5 DEF WriteStep
<1>3. \A x \in WriteIds \ {w} : ValuesMatch(Wanted(x), writes[x].got)' <=> ValuesMatch(Wanted(x), writes[x].got)
  BY <1>1 DEF Wanted
<1>4. QED  BY <1>1, <1>2, <1>3 DEF SInv, FreeIsEmpty, VerifiedFits

LEMMA SInvInit == Init => SInv
<1> SUFFICES ASSUME Init PROVE SInv  OBVIOUS
<1>1. \A w \in WriteIds : writes[w] = NoWrite /\ NoWrite.pc = "idle"  BY DEF Init, NoWrite
<1>2. QED  BY <1>1, InvInit DEF SInv, FreeIsEmpty, VerifiedFits

LEMMA SInvStep ==
  ASSUME SInv, [Next]_vars
  PROVE  SInv'
<1>1. IInv'  BY InvStep DEF SInv
<1>2. CASE UNCHANGED writes
  BY <1>1, <1>2 DEF SInv, FreeIsEmpty, VerifiedFits, Wanted
<1>3. ASSUME NEW w \in WriteIds, WriteStep(w) \/ ClientWrite(w) PROVE SInv'
  BY <1>1, <1>3, WriteStepKeepsSlots DEF SInv
<1>4. ASSUME NEW b \in Buses, PollStep(b) PROVE UNCHANGED writes
  BY <1>4, PollFrame DEF SInv, IInv
<1>5. QED  BY <1>2, <1>3, <1>4 DEF Next, Drift, Stabilise, vars

LEMMA SInvariance == Spec => []SInv
BY SInvInit, SInvStep, PTL DEF Spec

-----------------------------------------------------------------------------
(* Registers of setpoints *)

LEMMA SetpointsExist ==
  \A p \in Setpoints : p \in Points /\ p \in Published /\ p \in Writable /\ p \notin Drifting
                       /\ ValueCell(p) \in Cells
BY ConfigAssumption DEF Setpoints, Cells

LEMMA CellsDiffer ==
  /\ \A p, q : ValueCell(p) = ValueCell(q) => p = q
  /\ \A p, q : ValueCell(p) # StatusCell(q) /\ ValueCell(p) # MaskCell(q)
               /\ ValueCell(p) # DeviceCell(q) /\ ValueCell(p) # ServiceCell
  /\ \A p : ValueCell(p)[1] # "line"
BY DEF ValueCell, StatusCell, MaskCell, DeviceCell, ServiceCell

LEMMA OfSetpointsAt ==
  ASSUME NEW contents
  PROVE  /\ DOMAIN OfSetpoints(contents) = {p \in Setpoints : ValueCell(p) \in DOMAIN contents}
         /\ \A p \in DOMAIN OfSetpoints(contents) :
              OfSetpoints(contents)[p] = contents[ValueCell(p)]
BY DEF OfSetpoints

\* To overwrite registers is to show what of them concerns setpoints.
LEMMA OverwriteShows ==
  ASSUME NEW contents, Overwrite(contents)
  PROVE  S!Show(OfSetpoints(contents))
<1>1. \A p \in Setpoints :
        hr'[ValueCell(p)] = IF p \in DOMAIN OfSetpoints(contents)
                            THEN OfSetpoints(contents)[p] ELSE hr[ValueCell(p)]
  BY OfSetpointsAt, SetpointsExist DEF Overwrite
<1>2. Shown' = [p \in Setpoints |-> IF p \in DOMAIN OfSetpoints(contents)
                                    THEN OfSetpoints(contents)[p] ELSE Shown[p]]
  BY <1>1 DEF Shown
<1>3. QED  BY <1>2 DEF S!Show

\* A register of no setpoint shows nothing.
LEMMA OthersHidden ==
  ASSUME \A p \in Setpoints : hr'[ValueCell(p)] = hr[ValueCell(p)]
  PROVE  Shown' = Shown
BY DEF Shown

LEMMA NoWriteIsNothing == RequestOf(NoWrite) = S!Nothing
<1>1. OfSetpoints(<<>>) = S!NoSetpoint
  <2>1. \A p \in Setpoints : ValueCell(p) \notin DOMAIN <<>>  OBVIOUS
  <2>2. {p \in Setpoints : ValueCell(p) \in DOMAIN <<>>} = {}  BY <2>1
  <2>3. QED  BY <2>2 DEF OfSetpoints, S!NoSetpoint
<1>2. NoWrite.pc = "idle" /\ NoWrite.req = <<>> /\ NoWrite.old = <<>>  BY DEF NoWrite
<1>3. QED  BY <1>1, <1>2 DEF RequestOf, Phase, S!Nothing

\* A write moves on: so does its request.
LEMMA RequestMoves ==
  ASSUME NEW w \in WriteIds, \A x \in WriteIds \ {w} : writes'[x] = writes[x]
  PROVE  Request' = [Request EXCEPT ![w] = RequestOf(writes'[w])]
<1>1. \A x \in WriteIds : RequestOf(writes[x])' = RequestOf(writes'[x])
  BY DEF RequestOf, Phase, OfSetpoints
<1>2. QED  BY <1>1 DEF Request

\* Requests with the device are writes that hold the line of their point.
LEMMA BusyHolds ==
  ASSUME SInv, NEW p \in Setpoints, S!Busy(p)
  PROVE  \E x \in WriteIds : /\ writes[x].pc \in {"readback", "verified", "failed"}
                            /\ Holds(x, BusOf[p])
<1>1. PICK x \in WriteIds : RequestOf(writes[x]).phase = "sent" /\ p \in DOMAIN RequestOf(writes[x]).asks
  BY DEF S!Busy, Request
<1>2. writes[x].pc \in {"readback", "verified", "failed"}
  BY <1>1 DEF RequestOf, Phase
<1>3. p \in DOMAIN OfSetpoints(writes[x].req)  BY <1>1 DEF RequestOf
<1>4. ValueCell(p) \in {ValueCell(writes[x].point)}
  BY <1>2, <1>3, OfSetpointsAt, WritePoint DEF SInv, IInv
<1>5. p = writes[x].point  BY <1>4, CellsDiffer
<1>6. QED  BY <1>2, <1>5 DEF SInv, IInv, LinesAreHeld

\* A step of a write that leaves registers, devices and its request alone.
LEMMA WriteStutters ==
  ASSUME NEW w \in WriteIds, \A x \in WriteIds \ {w} : writes'[x] = writes[x],
         RequestOf(writes'[w]) = RequestOf(writes[w]), UNCHANGED hr, UNCHANGED device
  PROVE  UNCHANGED S!vars
<1>1. Request' = Request  BY RequestMoves DEF Request
<1>2. QED  BY <1>1 DEF S!vars, Stored, Shown

-----------------------------------------------------------------------------
(* The steps *)

LEMMA ClientWriteAsks ==
  ASSUME SInv, NEW w \in WriteIds, ClientWrite(w)
  PROVE  S!Ask(w)
<1>1. PICK r \in Requests :
        /\ writes' = [writes EXCEPT ![w] = [NoWrite EXCEPT
             !.pc = "created", !.req = r, !.old = [c \in DOMAIN r |-> hr[c]]]]
        /\ Overwrite(r)
  BY DEF ClientWrite
<1> DEFINE asks == OfSetpoints(r)
           old == [c \in DOMAIN r |-> hr[c]]
<1>2. Request[w] = S!Nothing
  BY NoWriteIsNothing DEF SInv, FreeIsEmpty, ClientWrite, Request
<1>3. asks \in S!Asking
  <2>1. \A c \in DOMAIN r : r[c] \in ContentsOf(c)  BY ModelAssumption
  <2>2. \A p \in DOMAIN asks : asks[p] \in Values \cup {0, Junk}
    BY <2>1, OfSetpointsAt, CellContents
  <2>3. asks \in [DOMAIN asks -> Values \cup {0, Junk}]  BY <2>2 DEF OfSetpoints
  <2>4. DOMAIN asks \in SUBSET Setpoints  BY OfSetpointsAt
  <2>5. QED  BY <2>3, <2>4 DEF S!Asking
<1>4. OfSetpoints(old) = [p \in DOMAIN asks |-> Shown[p]]
  BY OfSetpointsAt DEF OfSetpoints, Shown
<1>5. writes'[w].pc = "created" /\ writes'[w].req = r /\ writes'[w].old = old
  BY <1>1, WriteSlots DEF SInv, IInv, NoWrite
<1>6. RequestOf(writes'[w]) = [phase |-> "asked", asks |-> asks,
                               before |-> [p \in DOMAIN asks |-> Shown[p]]]
  BY <1>4, <1>5 DEF RequestOf, Phase
<1>7. Request' = [Request EXCEPT ![w] = [phase |-> "asked", asks |-> asks,
                                         before |-> [p \in DOMAIN asks |-> Shown[p]]]]
  BY <1>6, RequestMoves, WriteFrame DEF SInv, IInv
<1>8. S!Show(asks)  BY <1>1, OverwriteShows
<1>9. UNCHANGED Stored  BY DEF ClientWrite, Stored
<1>10. QED  BY <1>2, <1>3, <1>7, <1>8, <1>9 DEF S!Ask

\* The slot is free again.
LEMMA Forgets ==
  ASSUME SInv, NEW w \in WriteIds, writes' = [writes EXCEPT ![w] = NoWrite]
  PROVE  S!Forget(w)
<1>1. writes'[w] = NoWrite /\ \A x \in WriteIds \ {w} : writes'[x] = writes[x]
  BY WriteSlots DEF SInv, IInv
<1>2. QED  BY <1>1, RequestMoves, NoWriteIsNothing DEF S!Forget

LEMMA RefuseWriteRefuses ==
  ASSUME SInv, NEW w \in WriteIds, RefuseWrite(w)
  PROVE  S!Refuse(w)
<1>1. Request[w].phase = "asked"  BY DEF RefuseWrite, Request, RequestOf, Phase
<1>2. Request[w].before = OfSetpoints(writes[w].old)  BY DEF Request, RequestOf
<1>3. S!Show(Request[w].before)  BY <1>2, OverwriteShows DEF RefuseWrite
<1>4. S!Forget(w)  BY Forgets DEF RefuseWrite
<1>5. UNCHANGED Stored  BY DEF RefuseWrite, Stored
<1>6. QED  BY <1>1, <1>3, <1>4, <1>5 DEF S!Refuse

LEMMA QueueWriteStutters ==
  ASSUME SInv, NEW w \in WriteIds, QueueWrite(w)
  PROVE  UNCHANGED S!vars
<1>1. PICK p \in Writable : writes' = [writes EXCEPT ![w].pc = "write", ![w].point = p]
  BY DEF QueueWrite
<1>2. /\ writes'[w].pc = "write" /\ writes'[w].req = writes[w].req /\ writes'[w].old = writes[w].old
      /\ writes[w].pc = "created" /\ \A x \in WriteIds \ {w} : writes'[x] = writes[x]
  BY <1>1, WriteSlots DEF QueueWrite, SInv, IInv, WriteRecord
<1>3. RequestOf(writes'[w]) = RequestOf(writes[w])  BY <1>2 DEF RequestOf, Phase
<1>4. QED  BY <1>2, <1>3, WriteStutters DEF QueueWrite, Untouched

LEMMA ThreadReadbackStutters ==
  ASSUME SInv, NEW w \in WriteIds, ThreadReadback(w)
  PROVE  UNCHANGED S!vars
<1> DEFINE r == writes[w]
<1>1. /\ writes = [x \in WriteIds |-> writes[x]] /\ r \in WriteRecord(r.old)
      /\ \A x \in WriteIds \ {w} : writes'[x] = writes[x]
      /\ r.pc = "readback"
  BY WriteSlots, WriteFrame DEF SInv, IInv, WriteStep, ThreadReadback
<1>2. /\ writes'[w].pc \in {"readback", "verified", "failed"}
      /\ writes'[w].req = r.req /\ writes'[w].old = r.old /\ writes'[w].point = r.point
  <2>1. CASE AfterMismatch(w)  BY <1>1, <2>1, MismatchMoves DEF WriteRecord
  <2>2. ASSUME NEW v, writes' = [writes EXCEPT ![w].pc = "verified", ![w].got = v]
        PROVE  /\ writes'[w].pc = "verified"
               /\ writes'[w].req = r.req /\ writes'[w].old = r.old /\ writes'[w].point = r.point
    BY <1>1, <2>2 DEF WriteRecord
  <2>3. QED  BY <2>1, <2>2 DEF ThreadReadback
<1>3. RequestOf(writes'[w]) = RequestOf(writes[w])  BY <1>1, <1>2 DEF RequestOf, Phase
<1>4. QED  BY <1>1, <1>3, WriteStutters DEF ThreadReadback, Untouched

\* What a write that has its point asks of the setpoints.
LEMMA AsksOfPoint ==
  ASSUME SInv, NEW w \in WriteIds,
         writes[w].pc \in {"write", "readback", "verified", "failed"}
  PROVE  /\ writes[w].point \in Points /\ BusOf[writes[w].point] \in Buses
         /\ Wanted(w) \in Values /\ Wanted(w) \in Sendable
         /\ Request[w].before = OfSetpoints(writes[w].old)
         /\ writes[w].point \in Setpoints =>
              /\ DOMAIN Request[w].asks = {writes[w].point}
              /\ Request[w].asks[writes[w].point] = Wanted(w)
         /\ writes[w].point \notin Setpoints =>
              DOMAIN Request[w].asks = {} /\ DOMAIN Request[w].before = {}
<1> DEFINE p == writes[w].point
<1>1. /\ p \in Points /\ BusOf[p] \in Buses /\ Wanted(w) \in Values
      /\ DOMAIN writes[w].req = {ValueCell(p)}
  BY WritePoint DEF SInv, IInv
<1>2. WriteType(writes[w])  BY WriteTypeNow DEF SInv, IInv
<1>3. Wanted(w) \in Sendable /\ DOMAIN writes[w].old = {ValueCell(p)}
  BY <1>1, <1>2 DEF WriteType, Asks, Wanted
<1>4. /\ Request[w].asks = OfSetpoints(writes[w].req)
      /\ Request[w].before = OfSetpoints(writes[w].old)
  BY DEF Request, RequestOf
<1>5. ASSUME NEW contents, DOMAIN contents = {ValueCell(p)}
      PROVE  DOMAIN OfSetpoints(contents) = {p} \cap Setpoints
  <2>1. DOMAIN OfSetpoints(contents) = {q \in Setpoints : ValueCell(q) = ValueCell(p)}
    BY <1>5, OfSetpointsAt
  <2>2. QED  BY <2>1, CellsDiffer
<1>6. /\ DOMAIN OfSetpoints(writes[w].req) = {p} \cap Setpoints
      /\ DOMAIN OfSetpoints(writes[w].old) = {p} \cap Setpoints
      /\ p \in Setpoints => OfSetpoints(writes[w].req)[p] = writes[w].req[ValueCell(p)]
  <2>1. /\ DOMAIN OfSetpoints(writes[w].req) = {p} \cap Setpoints
        /\ DOMAIN OfSetpoints(writes[w].old) = {p} \cap Setpoints
    BY <1>1, <1>3, <1>5
  <2>2. p \in Setpoints => p \in DOMAIN OfSetpoints(writes[w].req)  BY <2>1
  <2>3. QED  BY <2>1, <2>2, OfSetpointsAt
<1>7. p \in Setpoints => {p} \cap Setpoints = {p}  OBVIOUS
<1>8. p \notin Setpoints => {p} \cap Setpoints = {}  OBVIOUS
<1>9. QED  BY <1>1, <1>3, <1>4, <1>6, <1>7, <1>8 DEF Wanted

\* The exchange of a write is the step that talks to the device.
LEMMA ThreadWriteSends ==
  ASSUME SInv, NEW w \in WriteIds, ThreadWrite(w)
  PROVE  S!Send(w) \/ UNCHANGED S!vars
<1> DEFINE r == writes[w]
           p == r.point
<1>1. WriteStep(w)  BY DEF WriteStep
<1>2. /\ writes = [x \in WriteIds |-> writes[x]] /\ r \in WriteRecord(r.old)
      /\ \A x \in WriteIds \ {w} : writes'[x] = writes[x]
      /\ r.pc = "write" /\ Holds(w, BusOf[p])
  BY <1>1, WriteSlots, WriteFrame DEF SInv, IInv, ThreadWrite
<1>3. /\ writes'[w].pc \in {"readback", "failed"}
      /\ writes'[w].req = r.req /\ writes'[w].old = r.old /\ writes'[w].point = p
  BY <1>2 DEF ThreadWrite, WriteRecord
<1>4. device' \in {device, [device EXCEPT ![p] = Wanted(w)]}
  <2>1. device = [device EXCEPT ![p] = device[p]]  BY DEF SInv, IInv, TypeOK, StateType
  <2>2. QED  BY <2>1 DEF ThreadWrite
<1>5. UNCHANGED Shown  BY DEF ThreadWrite, Untouched, Shown
<1>6. Request' = [Request EXCEPT ![w] = RequestOf(writes'[w])]  BY <1>2, RequestMoves
<1>7. Request[w].phase = "asked" /\ Request[w] = RequestOf(r)
  BY <1>2 DEF Request, RequestOf, Phase
<1>8. CASE p \in Setpoints
  <2>1. DOMAIN Request[w].asks = {p} /\ Request[w].asks[p] = Wanted(w) /\ Wanted(w) \in Sendable
    BY <1>2, <1>8, AsksOfPoint
  <2>2. ~S!Busy(p)
    <3>1. SUFFICES ASSUME S!Busy(p) PROVE FALSE  OBVIOUS
    <3>2. PICK x \in WriteIds : /\ writes[x].pc \in {"readback", "verified", "failed"}
                               /\ Holds(x, BusOf[p])
      BY <1>8, <3>1, BusyHolds
    <3>3. x = w  BY <1>2, <3>2, OneHolder
    <3>4. QED  BY <1>2, <3>2, <3>3
  <2>3. Stored' \in {Stored, [Stored EXCEPT ![p] = Request[w].asks[p]]}
    <3>1. CASE device' = device  BY <3>1 DEF Stored
    <3>2. CASE device' = [device EXCEPT ![p] = Wanted(w)]
      <4>1. \A q \in Setpoints : device'[q] = IF q = p THEN Wanted(w) ELSE device[q]
        BY <3>2, SetpointsExist DEF SInv, IInv, TypeOK, StateType
      <4>2. QED  BY <2>1, <4>1 DEF Stored
    <3>3. QED  BY <1>4, <3>1, <3>2
  <2>4. RequestOf(writes'[w]) = [RequestOf(r) EXCEPT !.phase = "sent"]
    BY <1>3, <1>8 DEF RequestOf, Phase
  <2>5. Request' = [Request EXCEPT ![w].phase = "sent"]  BY <1>6, <1>7, <2>4
  <2>6. QED  BY <1>5, <1>7, <1>8, <2>1, <2>2, <2>3, <2>5 DEF S!Send
<1>9. CASE p \notin Setpoints
  <2>1. RequestOf(writes'[w]) = RequestOf(r)  BY <1>2, <1>3, <1>9 DEF RequestOf, Phase
  <2>2. UNCHANGED Request  BY <1>6, <1>7, <2>1 DEF Request
  <2>3. \A q \in Setpoints : device'[q] = device[q]
    BY <1>4, <1>9, SetpointsExist DEF SInv, IInv, TypeOK, StateType
  <2>4. UNCHANGED Stored  BY <2>3 DEF Stored
  <2>5. QED  BY <1>5, <2>2, <2>4 DEF S!vars
<1>10. QED  BY <1>8, <1>9

\* A readback within the tolerance: the request is confirmed.
LEMMA ConfirmWriteConfirms ==
  ASSUME SInv, NoStrayAnswers, NEW w \in WriteIds, ConfirmWrite(w)
  PROVE  S!Confirm(w) \/ S!Refuse(w)
<1> DEFINE r == writes[w]
           p == r.point
<1>1. r.pc = "verified"  BY DEF ConfirmWrite
<1>2. p \in Points /\ Wanted(w) \in Values  BY <1>1, AsksOfPoint
<1>3. S!Forget(w) /\ UNCHANGED Stored
  BY Forgets DEF ConfirmWrite, Stored
<1>4. \A q \in Setpoints : hr'[ValueCell(q)] = IF q = p THEN r.got ELSE hr[ValueCell(q)]
  BY CellsDiffer, SetpointsExist DEF ConfirmWrite
<1>5. CASE p \in Setpoints
  <2>1. DOMAIN Request[w].asks = {p} /\ Request[w].asks[p] = Wanted(w)
    BY <1>1, <1>5, AsksOfPoint
  <2>2. r.got = device[p] /\ device[p] = Stored[p]
    BY <1>1, <1>5, SetpointsExist DEF SInv, IInv, ReadingsAreCurrent, Stored
  <2>3. S!Near(Wanted(w), Stored[p])
    <3>1. ValuesMatch(Wanted(w), device[p])  BY <1>1, <2>2 DEF SInv, VerifiedFits
    <3>2. Wanted(w) \in Int /\ device[p] \in Int /\ FLOAT_VERIFY_TOLERANCE \in Nat
      <4>1. Values \subseteq Int  BY ConfigAssumption DEF Values
      <4>2. device[p] \in Values  BY <1>2 DEF SInv, IInv, TypeOK, StateType
      <4>3. QED  BY <1>2, <4>1, <4>2, ModelAssumption
    <3>3. QED  BY <2>2, <3>1, <3>2 DEF ValuesMatch, Magnitude, S!Near
  <2>4. Request[w].phase = "sent"  BY <1>1, <1>5 DEF Request, RequestOf, Phase
  <2>5. S!Show([q \in DOMAIN Request[w].asks |-> Stored[q]])
    <3>1. Shown' = [q \in Setpoints |-> IF q \in DOMAIN Request[w].asks
                                         THEN [x \in DOMAIN Request[w].asks |-> Stored[x]][q]
                                         ELSE Shown[q]]
      BY <1>4, <2>1, <2>2 DEF Shown
    <3>2. QED  BY <3>1 DEF S!Show
  <2>6. \A q \in DOMAIN Request[w].asks : S!Near(Request[w].asks[q], Stored[q])  BY <2>1, <2>3
  <2>7. QED  BY <1>3, <2>4, <2>5, <2>6 DEF S!Confirm
<1>6. CASE p \notin Setpoints
  <2>1. DOMAIN Request[w].before = {}  BY <1>1, <1>6, AsksOfPoint
  <2>2. Request[w].phase = "asked"  BY <1>1, <1>6 DEF Request, RequestOf, Phase
  <2>3. S!Show(Request[w].before)
    <3>1. Shown' = [q \in Setpoints |-> IF q \in DOMAIN Request[w].before
                                         THEN Request[w].before[q] ELSE Shown[q]]
      BY <1>4, <1>6, <2>1 DEF Shown
    <3>2. QED  BY <3>1 DEF S!Show
  <2>4. QED  BY <1>3, <2>2, <2>3 DEF S!Refuse
<1>7. QED  BY <1>5, <1>6

\* The registers get back what they showed before the request.
LEMMA RollBackGivesUp ==
  ASSUME SInv, NEW w \in WriteIds, RollBack(w)
  PROVE  S!GiveUp(w) \/ S!Refuse(w)
<1>1. writes[w].pc \in {"verified", "failed"}  BY DEF RollBack
<1>2. Request[w].before = OfSetpoints(writes[w].old)  BY DEF Request, RequestOf
<1>3. S!Show(Request[w].before)  BY <1>2, OverwriteShows DEF RollBack
<1>4. S!Forget(w) /\ UNCHANGED Stored  BY Forgets DEF RollBack, Stored
<1>5. Request[w].phase \in {"sent", "asked"}  BY <1>1 DEF Request, RequestOf, Phase
<1>6. QED  BY <1>3, <1>4, <1>5 DEF S!GiveUp, S!Refuse

\* A poll that brings a value refreshes the register of its point.
LEMMA PollValueRefreshes ==
  ASSUME SInv, NoStrayAnswers, NEW b \in Buses, PollValue(b)
  PROVE  UNCHANGED Shown \/ \E p \in Setpoints : S!Refresh(p)
<1> DEFINE p == CurrentPoint(b)
<1>1. \A q \in Setpoints :
        hr'[ValueCell(q)] = IF q = p THEN poll[b].reply.value ELSE hr[ValueCell(q)]
  BY CellsDiffer, SetpointsExist DEF PollValue, PublishPoint
<1>2. poll[b].pc = "reply" /\ poll[b].reply.kind = "value"  BY DEF PollValue, AtReply
<1>3. CASE p \in Setpoints
  <2>1. poll[b].reply.value = device[p]
    BY <1>2, <1>3, SetpointsExist DEF SInv, IInv, ReadingsAreCurrent
  <2>2. ~S!Busy(p)
    <3>1. SUFFICES ASSUME S!Busy(p) PROVE FALSE  OBVIOUS
    <3>2. PICK x \in WriteIds : Holds(x, BusOf[p])  BY <1>3, <3>1, BusyHolds
    <3>3. BusOf[p] = b /\ Holds(b, b)
      BY <1>2, Place DEF SInv, IInv, LinesAreHeld, TypeOK, LoopType, PollType
    <3>4. x = b  BY <3>2, <3>3, OneHolder
    <3>5. QED  BY <3>4, ModelAssumption
  <2>3. Shown' = [Shown EXCEPT ![p] = Stored[p]]  BY <1>1, <1>3, <2>1 DEF Shown, Stored
  <2>4. UNCHANGED <<device, writes>>  BY DEF PollValue
  <2>5. UNCHANGED <<Stored, Request>>
    BY <2>4 DEF Stored, Request, RequestOf, Phase, OfSetpoints
  <2>6. QED  BY <1>3, <2>2, <2>3, <2>5 DEF S!Refresh
<1>4. CASE p \notin Setpoints  BY <1>1, <1>4, OthersHidden
<1>5. QED  BY <1>3, <1>4

\* No other step of a polling task shows a client anything of a setpoint.
LEMMA PollHides ==
  ASSUME NEW b \in Buses, PollStep(b), ~PollValue(b)
  PROVE  UNCHANGED Shown
<1>1. ASSUME NEW p, NEW status, PublishStatus(p, status)
      PROVE  UNCHANGED Shown
  <2>1. \A q \in Setpoints : hr'[ValueCell(q)] = hr[ValueCell(q)]
    BY <1>1, CellsDiffer, SetpointsExist DEF PublishStatus
  <2>2. QED  BY <2>1, OthersHidden
<1>2. CASE EndDevice(b)
  <2>1. \A q \in Setpoints : hr'[ValueCell(q)] = hr[ValueCell(q)]
    BY <1>2, CellsDiffer, SetpointsExist DEF EndDevice
  <2>2. QED  BY <2>1, OthersHidden
<1>3. CASE UNCHANGED hr  BY <1>3 DEF Shown
<1>4. QED
  BY <1>1, <1>2, <1>3
  DEF PollStep, BeginCycle, SkipPoint, RequestPoint, ThreadRead, RetryAfterPause, EndOfPause,
      RetryAtOnce, PollEmpty, PollTimeout, PollIOError, PollProtocolError, FailPoint, Polled

LEMMA SetpointInit == Init => S!Init
<1> SUFFICES ASSUME Init PROVE S!Init  OBVIOUS
<1>1. Request = [w \in WriteIds |-> S!Nothing]
  BY NoWriteIsNothing DEF Init, Request
<1>2. \A p \in Setpoints : device[p] \in Values /\ hr[ValueCell(p)] = 0
  BY SetpointsExist DEF Init, InitialContent, ValueCell
<1>3. QED  BY <1>1, <1>2 DEF S!Init, Stored, Shown

LEMMA SetpointStep ==
  ASSUME SInv, NoStrayAnswers, [Next]_vars
  PROVE  [S!Next]_(S!vars)
<1>1. ASSUME NEW w \in WriteIds, WriteStep(w) \/ ClientWrite(w)
      PROVE  [S!Next]_(S!vars)
  BY <1>1, ClientWriteAsks, RefuseWriteRefuses, QueueWriteStutters, ThreadWriteSends,
     ThreadReadbackStutters, ConfirmWriteConfirms, RollBackGivesUp
  DEF WriteStep, S!Next
<1>2. ASSUME NEW b \in Buses, PollStep(b)
      PROVE  [S!Next]_(S!vars)
  <2>1. UNCHANGED <<writes, device>>  BY <1>2, PollFrame DEF SInv, IInv
  <2>2. UNCHANGED <<Stored, Request>>
    BY <2>1 DEF Stored, Request, RequestOf, Phase, OfSetpoints
  <2>3. UNCHANGED Shown \/ \E p \in Setpoints : S!Refresh(p)
    BY <1>2, PollValueRefreshes, PollHides
  <2>4. QED  BY <2>2, <2>3 DEF S!vars, S!Next
<1>3. CASE UNCHANGED <<writes, hr>> /\ \A p \in Setpoints : device'[p] = device[p]
  BY <1>3 DEF S!vars, Stored, Shown, Request, RequestOf, Phase, OfSetpoints
<1>4. ASSUME NEW p \in Points, Drift(p) PROVE \A q \in Setpoints : device'[q] = device[q]
  BY <1>4, SetpointsExist DEF Drift, SInv, IInv, TypeOK, StateType
<1>5. QED
  BY <1>1, <1>2, <1>3, <1>4 DEF Next, Drift, Stabilise, vars, Untouched, Polled

\* For any number of lines, points, clients and attempts and for every tolerance,
\* what clients see of a setpoint is the register of Setpoint.tla, unless answers
\* are mistaken: _handle_modbus_holding_write confirms only what the device has,
\* restores what its client found, and no poll publishes in between.
THEOREM GatewayImplementsSetpoint ==
  ASSUME NoStrayAnswers
  PROVE  Spec => ImplementsSetpoint
<1>1. Init => S!Init  BY SetpointInit
<1>2. SInv /\ [Next]_vars => [S!Next]_(S!vars)  BY SetpointStep
<1>3. QED  BY <1>1, <1>2, SInvariance, PTL DEF Spec, ImplementsSetpoint, S!Spec
=============================================================================
