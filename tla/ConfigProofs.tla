----------------------------- MODULE ConfigProofs -----------------------------
(***************************************************************************)
(* Proofs about configurations: that validate_config keeps the registers   *)
(* of published points apart and the register store has room for them, for *)
(* any set of points in any order; and that the tools, whatever commands   *)
(* are given, leave a file the gateway accepts but for faults of what was  *)
(* entered.                                                                *)
(***************************************************************************)
EXTENDS ConfigTools, RegisterMap, NumberLemmas

-----------------------------------------------------------------------------
(* The loop of validate_config *)

\* The sets the loop keeps hold the registers of the published points it has
\* accepted, and otherwise nothing but status and telemetry registers.
OccupiedIsExact ==
  /\ seen \subseteq Configurable
  /\ occupied = [b \in RegisterBlocks |-> occupied[b]]
  /\ \A p \in Published : Indexes(p) \subseteq occupied[BlockOfPoint(p)]
  /\ \A b \in RegisterBlocks : \A a \in occupied[b] :
       a \in ReservedIn(b) \/ \E p \in Published : BlockOfPoint(p) = b /\ a \in Indexes(p)

\* What a point was refused for is taken.
RefusedWithReason ==
  refused # None =>
    \E a \in Indexes(refused) :
      \/ a \in ReservedIn(BlockOfPoint(refused))
      \/ \E q \in Published : BlockOfPoint(q) = BlockOfPoint(refused) /\ a \in Indexes(q)

PointsApart ==
  /\ \A p, q \in Published :
       p # q /\ BlockOfPoint(p) = BlockOfPoint(q) => Indexes(p) \cap Indexes(q) = {}
  /\ \A p \in Published : Indexes(p) \cap ReservedIn(BlockOfPoint(p)) = {}

MapInv == OccupiedIsExact /\ RefusedWithReason /\ PointsApart

LEMMA MapInvInit == MapInit => MapInv
BY DEF MapInit, MapInv, OccupiedIsExact, RefusedWithReason, PointsApart, Published

LEMMA BlockExists == ASSUME NEW p \in Configurable PROVE BlockOfPoint(p) \in RegisterBlocks
BY DEF RegisterBlocks

\* A point that is not published leaves everything as it was.
LEMMA UnpublishedAccepted ==
  ASSUME MapInv, NEW p \in Configurable, AcceptPoint(p), ~p.published
  PROVE  MapInv'
<1>1. Published' = Published  BY DEF Published, AcceptPoint
<1>2. seen' \subseteq Configurable /\ UNCHANGED <<occupied, refused>>
  BY DEF AcceptPoint, MapInv, OccupiedIsExact
<1>3. QED  BY <1>1, <1>2 DEF MapInv, OccupiedIsExact, RefusedWithReason, PointsApart

LEMMA PublishedAccepted ==
  ASSUME MapInv, NEW p \in Configurable, AcceptPoint(p), p.published
  PROVE  MapInv'
<1> DEFINE block == BlockOfPoint(p)
<1>1. block \in RegisterBlocks  BY BlockExists
<1>2. Published' = Published \cup {p} /\ p \notin Published  BY DEF Published, AcceptPoint
<1>3. Used(p) \cap Indexes(p) = {}  BY DEF AcceptPoint, Overlaps
<1>4. \A b \in RegisterBlocks :
        occupied'[b] = IF b = block THEN Used(p) \cup Indexes(p) ELSE occupied[b]
  BY <1>1 DEF AcceptPoint, MapInv, OccupiedIsExact
<1>5. OccupiedIsExact'
  <2>1. seen' \subseteq Configurable  BY DEF AcceptPoint, MapInv, OccupiedIsExact
  <2>2. occupied' = [b \in RegisterBlocks |-> occupied'[b]]
    BY DEF AcceptPoint, MapInv, OccupiedIsExact
  <2>3. ASSUME NEW q \in Published' PROVE Indexes(q) \subseteq occupied'[BlockOfPoint(q)]
    <3>1. CASE q = p  BY <3>1, <1>1, <1>4
    <3>2. CASE q # p
      <4>1. q \in Published /\ q \in Configurable
        BY <3>2, <1>2 DEF Published, MapInv, OccupiedIsExact
      <4>2. Indexes(q) \subseteq occupied[BlockOfPoint(q)] /\ BlockOfPoint(q) \in RegisterBlocks
        BY <4>1, BlockExists DEF MapInv, OccupiedIsExact
      <4>3. QED  BY <4>2, <1>4 DEF Used
    <3>3. QED  BY <3>1, <3>2
  <2>4. ASSUME NEW b \in RegisterBlocks, NEW a \in occupied'[b]
        PROVE  a \in ReservedIn(b) \/ \E q \in Published' : BlockOfPoint(q) = b /\ a \in Indexes(q)
    <3>1. CASE a \in occupied[b]  BY <3>1, <1>2 DEF MapInv, OccupiedIsExact
    <3>2. CASE a \notin occupied[b]
      <4>1. b = block /\ a \in ReservedIn(b) \cup Indexes(p)  BY <3>2, <2>4, <1>4 DEF Used
      <4>2. QED  BY <4>1, <1>2
    <3>3. QED  BY <3>1, <3>2
  <2>5. QED  BY <2>1, <2>2, <2>3, <2>4 DEF OccupiedIsExact
<1>6. RefusedWithReason'  BY DEF AcceptPoint, RefusedWithReason
<1>7. PointsApart'
  <2>1. \A q \in Published : BlockOfPoint(q) = block => Indexes(p) \cap Indexes(q) = {}
    BY <1>3 DEF Used, MapInv, OccupiedIsExact
  <2>2. Indexes(p) \cap ReservedIn(block) = {}  BY <1>3 DEF Used
  <2>3. ASSUME NEW q \in Published', NEW r \in Published', q # r,
               BlockOfPoint(q) = BlockOfPoint(r)
        PROVE  Indexes(q) \cap Indexes(r) = {}
    BY <2>1, <2>3, <1>2 DEF MapInv, PointsApart
  <2>4. ASSUME NEW q \in Published' PROVE Indexes(q) \cap ReservedIn(BlockOfPoint(q)) = {}
    BY <2>2, <2>4, <1>2 DEF MapInv, PointsApart
  <2>5. QED  BY <2>3, <2>4 DEF PointsApart
<1>8. QED  BY <1>5, <1>6, <1>7 DEF MapInv

LEMMA PointRefused ==
  ASSUME MapInv, NEW p \in Configurable, RefusePoint(p)
  PROVE  MapInv'
<1>1. UNCHANGED <<seen, occupied>> /\ refused' = p  BY DEF RefusePoint
<1>2. Published' = Published  BY <1>1 DEF Published
<1>3. PICK a \in Indexes(p) : a \in Used(p)  BY DEF RefusePoint, Overlaps
<1>4. \/ a \in ReservedIn(BlockOfPoint(p))
      \/ \E q \in Published : BlockOfPoint(q) = BlockOfPoint(p) /\ a \in Indexes(q)
  BY <1>3, BlockExists DEF Used, MapInv, OccupiedIsExact
<1>5. RefusedWithReason'  BY <1>1, <1>2, <1>4 DEF RefusedWithReason
<1>6. QED  BY <1>1, <1>2, <1>5 DEF MapInv, OccupiedIsExact, PointsApart

LEMMA MapInvStep == MapInv /\ [MapNext]_mapVars => MapInv'
<1> SUFFICES ASSUME MapInv, [MapNext]_mapVars PROVE MapInv'  OBVIOUS
<1>1. ASSUME NEW p \in Configurable, AcceptPoint(p) PROVE MapInv'
  BY <1>1, UnpublishedAccepted, PublishedAccepted
<1>2. ASSUME NEW p \in Configurable, RefusePoint(p) PROVE MapInv'  BY <1>2, PointRefused
<1>3. CASE UNCHANGED mapVars
  BY <1>3 DEF mapVars, MapInv, OccupiedIsExact, RefusedWithReason, PointsApart, Published
<1>4. QED  BY <1>1, <1>2, <1>3 DEF MapNext

\* Whatever points a configuration has and in whatever order they are read, no
\* two published points that validate_config accepted share a register of a
\* device, none lies on its status and telemetry registers, and a point is only
\* refused for a register that is taken.
THEOREM AcceptedPointsAreApart == MapSpec => []CellsAreApart
<1>1. MapInv => CellsAreApart
  <2> SUFFICES ASSUME MapInv PROVE CellsAreApart  OBVIOUS
  <2>1. PointsApart  BY DEF MapInv
  <2>2. ASSUME refused # None
        PROVE  Indexes(refused) \cap (ReservedIn(BlockOfPoint(refused)) \cup
          UNION {Indexes(q) :
            q \in {q \in Published : BlockOfPoint(q) = BlockOfPoint(refused)}}) # {}
    <3>1. PICK a \in Indexes(refused) :
            \/ a \in ReservedIn(BlockOfPoint(refused))
            \/ \E q \in Published : BlockOfPoint(q) = BlockOfPoint(refused) /\ a \in Indexes(q)
      BY <2>2 DEF MapInv, RefusedWithReason
    <3>2. QED  BY <3>1
  <2>3. QED  BY <2>1, <2>2 DEF CellsAreApart, PointsApart
<1>2. QED  BY <1>1, MapInvInit, MapInvStep, PTL DEF MapSpec

-----------------------------------------------------------------------------
(* The size of a block of the register store *)

LEMMA ShiftedIsFinite ==
  ASSUME NEW S, S \subseteq Nat, IsFiniteSet(S)
  PROVE  IsFiniteSet({a + 2 : a \in S}) /\ {a + 2 : a \in S} \subseteq Nat
<1> DEFINE f == [a \in S |-> a + 2]
<1>1. IsFiniteSet({f[a] : a \in S})  BY ImageIsFinite
<1>2. {f[a] : a \in S} = {a + 2 : a \in S}  OBVIOUS
<1> HIDE DEF f
<1>3. \A a \in S : a + 2 \in Nat  OBVIOUS
<1>4. QED  BY <1>1, <1>2, <1>3

\* The store allocates for the largest of finitely many needs.
LEMMA BlockSizeIsLargest ==
  ASSUME seen \subseteq Configurable
  PROVE  BlockSize \in Nat /\ \A m \in Needed : m \in Nat /\ m <= BlockSize
<1>1. \A p \in Published : /\ NeededFor(p) \subseteq Nat
                           /\ IsFiniteSet(NeededFor(p))
  <2> TAKE p \in Published
  <2>1. /\ p.at + p.width + 1 \in Nat
        /\ {p.mark, p.status} \ {None} \subseteq Nat
    BY MapAssumption DEF Published
  <2>2. IsFiniteSet({p.mark, p.status} \ {None})
    <3>1. IsFiniteSet({p.mark}) /\ IsFiniteSet({p.mark} \cup {p.status})
      BY FS_Singleton, FS_AddElement
    <3>2. {p.mark, p.status} \ {None} \in SUBSET ({p.mark} \cup {p.status})  OBVIOUS
    <3>3. QED  BY <3>1, <3>2, FS_Subset
  <2>3. IsFiniteSet({p.at + p.width + 1})  BY FS_Singleton
  <2> DEFINE others == {p.mark, p.status} \ {None}
             shifted == {a + 2 : a \in others}
  <2>4. IsFiniteSet(shifted) /\ shifted \subseteq Nat  BY <2>1, <2>2, ShiftedIsFinite
  <2>5. NeededFor(p) = {p.at + p.width + 1} \cup shifted  BY DEF NeededFor
  <2> HIDE DEF shifted
  <2>6. IsFiniteSet({p.at + p.width + 1} \cup shifted)  BY <2>3, <2>4, FS_Union
  <2>7. QED  BY <2>1, <2>4, <2>5, <2>6
<1> DEFINE ofPoints == {NeededFor(p) : p \in Published}
           others   == {a + 2 : a \in Reserved \cup ExtraRegisters}
<1>2. IsFiniteSet(UNION ofPoints) /\ UNION ofPoints \subseteq Nat
  <2>1. IsFiniteSet(Published)
    BY MapAssumption, FS_Subset DEF Published
  <2> DEFINE f == [p \in Published |-> NeededFor(p)]
  <2>2. IsFiniteSet({f[p] : p \in Published})  BY <2>1, ImageIsFinite
  <2>3. {f[p] : p \in Published} = ofPoints  OBVIOUS
  <2>4. \A T \in ofPoints : IsFiniteSet(T) /\ T \subseteq Nat  BY <1>1
  <2> HIDE DEF ofPoints, f
  <2>5. QED  BY <2>2, <2>3, <2>4, FS_UNION
<1>3. IsFiniteSet(others) /\ others \subseteq Nat
  <2>1. IsFiniteSet(Reserved \cup ExtraRegisters) /\ Reserved \cup ExtraRegisters \subseteq Nat
    BY MapAssumption, FS_Union
  <2>2. QED  BY <2>1, ShiftedIsFinite
<1>4. Needed = ({1} \cup (UNION ofPoints)) \cup others  BY DEF Needed
<1> HIDE DEF ofPoints, others
<1>5. IsFiniteSet({1} \cup (UNION ofPoints))  BY <1>2, FS_Singleton, FS_Union
<1>6. IsFiniteSet(Needed) /\ Needed \subseteq Nat /\ Needed # {}
  <2>1. IsFiniteSet(Needed)  BY <1>3, <1>4, <1>5, FS_Union
  <2>2. {1} \subseteq Nat /\ 1 \in {1}  OBVIOUS
  <2> DEFINE points == UNION ofPoints
  <2>3. points \subseteq Nat /\ Needed = ({1} \cup points) \cup others  BY <1>2, <1>4
  <2> HIDE DEF points
  <2>4. Needed \subseteq Nat /\ 1 \in Needed  BY <1>3, <2>2, <2>3
  <2>5. QED  BY <2>1, <2>4
<1>7. PICK n \in Needed : \A m \in Needed : m <= n  BY <1>6, GreatestExists
<1>8. QED  BY <1>6, <1>7 DEF BlockSize

\* Whatever points with whatever widths and addresses were accepted, every
\* register the service publishes to lies inside its block (_calc_size).
THEOREM RegistersHaveRoom == MapSpec => []EveryRegisterFits
<1>1. MapInv => EveryRegisterFits
  <2> SUFFICES ASSUME MapInv,
                      NEW a \in (UNION {Indexes(p) : p \in Published}) \cup Reserved \cup ExtraRegisters
               PROVE  StoredAt(a) \in 0 .. BlockSize - 1
    BY DEF EveryRegisterFits
  <2>1. seen \subseteq Configurable  BY DEF MapInv, OccupiedIsExact
  <2>2. BlockSize \in Nat /\ \A m \in Needed : m \in Nat /\ m <= BlockSize
    BY <2>1, BlockSizeIsLargest
  <2>3. ASSUME a \in Nat, a + 2 \in Needed PROVE StoredAt(a) \in 0 .. BlockSize - 1
    BY <2>2, <2>3 DEF StoredAt
  <2>4. CASE a \in Reserved \cup ExtraRegisters
    <3>1. a \in Nat /\ a + 2 \in Needed  BY <2>4, MapAssumption DEF Needed
    <3>2. QED  BY <2>3, <3>1
  <2>5. CASE a \in UNION {Indexes(p) : p \in Published}
    <3>1. PICK p \in Published : a \in Indexes(p)  BY <2>5
    <3>2. p \in Configurable /\ NeededFor(p) \subseteq Needed
      BY <2>1, <3>1 DEF Published, Needed
    <3>3. CASE a \in {p.mark, p.status} \ {None}
      <4>1. a \in Nat /\ a + 2 \in Needed  BY <3>2, <3>3, MapAssumption DEF NeededFor
      <4>2. QED  BY <2>3, <4>1
    <3>4. CASE a \in ValueRegisters(p)
      <4>1. p.at \in Nat /\ p.width \in Nat  BY <3>2, MapAssumption
      <4>2. p.at + p.width + 1 <= BlockSize  BY <2>2, <3>2 DEF NeededFor
      <4>3. a \in Nat /\ a <= p.at + p.width - 1  BY <3>4, <4>1 DEF ValueRegisters
      <4>4. QED  BY <2>2, <4>1, <4>2, <4>3 DEF StoredAt
    <3>5. QED  BY <3>1, <3>3, <3>4 DEF Indexes
  <2>6. QED  BY <2>4, <2>5
<1>2. QED  BY <1>1, MapInvInit, MapInvStep, PTL DEF MapSpec

-----------------------------------------------------------------------------
(* Documents the tools write: every point on a line of the document, with  *)
(* a number, an address and a channel in range; the points of a device     *)
(* share its SlaveID and have different channels                           *)

WellFormed(doc) ==
  /\ doc = [buses |-> doc.buses, points |-> doc.points]
  /\ Names(doc) \subseteq BusNames /\ doc.buses \in [Names(doc) -> LineRecord]
  /\ doc.points \subseteq ChannelRecord

LEMMA DocumentsAreWellFormed == ASSUME NEW doc PROVE doc \in Documents <=> WellFormed(doc)
<1>1. ASSUME doc \in Documents PROVE WellFormed(doc)
  <2>1. PICK names \in SUBSET BusNames : doc \in [buses : [names -> LineRecord], points : SUBSET ChannelRecord]
    BY <1>1 DEF Documents
  <2>2. QED  BY <2>1 DEF WellFormed, Names
<1>2. ASSUME WellFormed(doc) PROVE doc \in Documents
  BY <1>2 DEF WellFormed, Documents
<1>3. QED  BY <1>1, <1>2

Consistent(doc) ==
  /\ WellFormed(doc)
  /\ \A p \in doc.points : /\ p.bus \in Names(doc)
                           /\ p.device \in 1 .. MAX_DEVICES_PER_BUS
                           /\ p.address \in 0 .. LAST_ADDRESS
  /\ \A p, q \in doc.points : SameDevice(p, q) => /\ p.modbus_slave_id = q.modbus_slave_id
                                                  /\ p.channel = q.channel => p = q

LEMMA DifferentRegisters ==
  ASSUME NEW c \in 1 .. TRM138_CHANNEL_COUNT
  PROVE  /\ Registers(c) # {} /\ Registers(c) \cap StatusAndTelemetry = {}
         /\ \A d \in 1 .. TRM138_CHANNEL_COUNT : d # c => Registers(c) \cap Registers(d) = {}
<1> USE DEF TRM138_CHANNEL_COUNT, Registers, StatusAndTelemetry
<1>1. Registers(c) # {} /\ Registers(c) \cap StatusAndTelemetry = {}  OBVIOUS
<1>2. ASSUME NEW d \in 1 .. TRM138_CHANNEL_COUNT, NEW r \in Registers(c), r \in Registers(d)
      PROVE  d = c
  BY <1>2
<1>3. QED  BY <1>1, <1>2

LEMMA FirstAreConsistent == ASSUME NEW doc \in FirstDocuments PROVE Consistent(doc)
<1>1. WellFormed(doc)  BY DocumentsAreWellFormed, ConfigToolsAssumption
<1>2. CASE doc.points = {}  BY <1>1, <1>2 DEF Consistent
<1>3. CASE Accepts(doc)
  <2>1. ASSUME NEW p \in doc.points, NEW q \in doc.points, SameDevice(p, q)
        PROVE  p.modbus_slave_id = q.modbus_slave_id /\ (p.channel = q.channel => p = q)
    <3>1. AcceptsPair(p, q)  BY <1>3 DEF Accepts
    <3>2. p.modbus_slave_id = q.modbus_slave_id  BY <2>1, <3>1 DEF AcceptsPair
    <3>3. p # q => Registers(p.channel) \cap Registers(q.channel) = {}
      BY <3>1, <3>2 DEF AcceptsPair
    <3>4. p.channel \in 1 .. TRM138_CHANNEL_COUNT  BY <1>1 DEF WellFormed, ChannelRecord
    <3>5. Registers(p.channel) # {}  BY <3>4, DifferentRegisters
    <3>6. QED  BY <3>2, <3>3, <3>5
  <2>2. QED  BY <1>1, <1>3, <2>1 DEF Consistent, Accepts, AcceptsPoint
<1>4. QED  BY <1>2, <1>3, FirstDocumentsAssumption

\* What a consistent document lacks is what an operator can see.
LEMMA ConsistentIsAccepted ==
  ASSUME NEW doc, Consistent(doc)
  PROVE  ForeseeableFault(doc) \/ Accepts(doc)
<1> SUFFICES ASSUME ~ ForeseeableFault(doc) PROVE Accepts(doc)  OBVIOUS
<1>1. /\ Names(doc) # {} /\ Usable(doc)
      /\ \A b \in Names(doc) : doc.buses[b].valid
      /\ \A p \in doc.points : p.modbus_slave_id \in 2 .. 247
      /\ \A p, q \in doc.points : p.modbus_slave_id = q.modbus_slave_id => SameDevice(p, q)
  BY DEF ForeseeableFault
<1>2. \A p \in doc.points : p.channel \in 1 .. TRM138_CHANNEL_COUNT
  BY DEF Consistent, WellFormed, ChannelRecord
<1>3. ASSUME NEW p \in doc.points PROVE AcceptsPoint(doc, p)
  BY <1>1 DEF AcceptsPoint, SERVICE_SLAVE_ID, Consistent
<1>4. ASSUME NEW p \in doc.points, NEW q \in doc.points PROVE AcceptsPair(p, q)
  <2>1. SameDevice(p, q) <=> p.modbus_slave_id = q.modbus_slave_id  BY <1>1 DEF Consistent
  <2>2. ASSUME p # q, p.modbus_slave_id = q.modbus_slave_id
        PROVE  Registers(p.channel) \cap Registers(q.channel) = {}
    <3>1. p.channel # q.channel  BY <2>1, <2>2 DEF Consistent
    <3>2. QED  BY <1>2, <3>1, DifferentRegisters
  <2>3. QED  BY <2>1, <2>2 DEF AcceptsPair
<1>5. AcceptsBuses(doc)  BY <1>1 DEF AcceptsBuses
<1>6. QED  BY <1>2, <1>3, <1>4, <1>5, DifferentRegisters DEF Accepts

-----------------------------------------------------------------------------
(* What the commands make of a document *)

\* Fewer points, and every line they are on is kept.
LEMMA FewerPoints ==
  ASSUME NEW doc, Consistent(doc), NEW kept, kept \subseteq doc.points,
         NEW names, names \subseteq Names(doc), \A p \in kept : p.bus \in names
  PROVE  Consistent([buses |-> [b \in names |-> doc.buses[b]], points |-> kept])
<1> DEFINE buses == [b \in names |-> doc.buses[b]]
           new == [buses |-> buses, points |-> kept]
<1>1. new.buses = buses /\ new.points = kept /\ Names(new) = names  BY DEF Names
<1>2. \A b \in names : doc.buses[b] \in LineRecord  BY DEF Consistent, WellFormed
<1> HIDE DEF new
<1>3. WellFormed(new)
  <2>1. new = [buses |-> new.buses, points |-> new.points]  BY <1>1 DEF new
  <2>2. names \subseteq BusNames /\ kept \subseteq ChannelRecord  BY DEF Consistent, WellFormed
  <2>3. buses \in [names -> LineRecord]  BY <1>2
  <2>4. QED  BY <1>1, <2>1, <2>2, <2>3 DEF WellFormed
<1>4. Consistent(new)  BY <1>1, <1>3 DEF Consistent
<1>5. QED  BY <1>4 DEF new

LEMMA PointsReplaced ==
  ASSUME NEW doc, WellFormed(doc), NEW points
  PROVE  [doc EXCEPT !.points = points] = [buses |-> doc.buses, points |-> points]
<1> DEFINE plain == [buses |-> doc.buses, points |-> doc.points]
<1>1. doc = plain  BY DEF WellFormed
<1>2. [plain EXCEPT !.points = points] = [buses |-> doc.buses, points |-> points]  OBVIOUS
<1>3. QED  BY <1>1, <1>2

LEMMA FewerOfDevice ==
  ASSUME NEW doc, Consistent(doc), NEW bus, NEW device
  PROVE  LET rest == WithoutDevice(doc, bus, device)
         IN  /\ Consistent(rest) /\ Names(rest) = Names(doc) /\ rest.buses = doc.buses
             /\ rest.points = doc.points \ OfDevice(doc, bus, device)
             /\ \A p \in rest.points : ~ (p.bus = bus /\ p.device = device)
<1> DEFINE kept == doc.points \ OfDevice(doc, bus, device)
           rest == [buses |-> doc.buses, points |-> kept]
<1>1. WithoutDevice(doc, bus, device) = rest
  <2>1. WellFormed(doc)  BY DEF Consistent
  <2> HIDE DEF kept
  <2>2. [doc EXCEPT !.points = kept] = rest  BY <2>1, PointsReplaced
  <2>3. QED  BY <2>2 DEF WithoutDevice, kept
<1>2. doc.buses = [b \in Names(doc) |-> doc.buses[b]]  BY DEF Consistent, WellFormed
<1>3. \A p \in kept : p.bus \in Names(doc) /\ ~ (p.bus = bus /\ p.device = device)
  BY DEF OfDevice, Consistent
<1> HIDE DEF kept
<1>4. kept \subseteq doc.points  BY DEF kept
<1>5. Consistent(rest)  BY <1>2, <1>3, <1>4, FewerPoints
<1>6. QED  BY <1>1, <1>3, <1>5 DEF Names, kept

\* The channels of a device, on a line of the document and with a number no
\* point that is kept has.
LEMMA NewPoints ==
  ASSUME NEW doc, Consistent(doc), NEW bus \in Names(doc), NEW device \in 1 .. MAX_DEVICES_PER_BUS,
         NEW base \in Nat, NEW channels \in SUBSET (1 .. TRM138_CHANNEL_COUNT),
         \A q \in ChannelsOf(bus, device, base, channels) : q.address <= MaxAddress,
         \A p \in doc.points : ~ (p.bus = bus /\ p.device = device)
  PROVE  Consistent([doc EXCEPT !.points = @ \cup ChannelsOf(bus, device, base, channels)])
<1> DEFINE added == ChannelsOf(bus, device, base, channels)
           new == [doc EXCEPT !.points = @ \cup added]
<1>1. WellFormed(doc)  BY DEF Consistent
<1>2. /\ new.buses = doc.buses /\ new.points = doc.points \cup added
      /\ Names(new) = Names(doc) /\ new = [buses |-> new.buses, points |-> new.points]
  <2>1. new = [buses |-> doc.buses, points |-> doc.points \cup added]
    BY <1>1, PointsReplaced
  <2> HIDE DEF new
  <2>2. QED  BY <2>1 DEF Names
<1>3. ASSUME NEW q \in added
      PROVE  \E c \in channels : q = [bus |-> bus, device |-> device, modbus_slave_id |-> base,
                                      address |-> base + c - 1, channel |-> c]
  BY DEF ChannelsOf
<1>4. ASSUME NEW q \in added
      PROVE  /\ q.bus = bus /\ q.device = device /\ q.modbus_slave_id = base
             /\ q.address = base + q.channel - 1 /\ q.channel \in 1 .. TRM138_CHANNEL_COUNT
             /\ q = [bus |-> bus, device |-> device, modbus_slave_id |-> base,
                     address |-> q.address, channel |-> q.channel]
  BY <1>3
<1>5. ASSUME NEW q \in added
      PROVE  q \in ChannelRecord /\ q.address \in 0 .. LAST_ADDRESS
  <2>1. q.address \in 0 .. LAST_ADDRESS /\ LAST_ADDRESS \in Nat
    <3>1. LAST_ADDRESS \in Nat  BY DEF LAST_ADDRESS
    <3>2. /\ q.address \in Nat /\ q.address <= MaxAddress
          /\ MaxAddress \in Nat /\ MaxAddress <= LAST_ADDRESS
      BY <1>4, <3>1, ConfigToolsAssumption DEF TRM138_CHANNEL_COUNT
    <3> HIDE DEF added, new
    <3>3. QED  BY <3>1, <3>2
  <2>2. bus \in BusNames /\ device \in Nat  BY <1>1, ConfigToolsAssumption DEF WellFormed
  <2>3. base \in Nat /\ q.channel \in 1 .. TRM138_CHANNEL_COUNT  BY <1>4
  <2> DEFINE address == q.address
             channel == q.channel
  <2>4. q = [bus |-> bus, device |-> device, modbus_slave_id |-> base,
             address |-> address, channel |-> channel]
    BY <1>4
  <2>5. [bus |-> bus, device |-> device, modbus_slave_id |-> base,
         address |-> address, channel |-> channel] \in ChannelRecord
    <3>1. base \in Nat /\ address \in Nat /\ channel \in 1 .. TRM138_CHANNEL_COUNT  BY <2>1, <2>3
    <3> HIDE DEF address, channel
    <3>2. QED  BY <2>2, <3>1 DEF ChannelRecord
  <2> HIDE DEF address, channel
  <2>6. q \in ChannelRecord  BY <2>4, <2>5, Zenon
  <2>7. QED  BY <2>1, <2>6
<1> HIDE DEF added, new
<1>6. WellFormed(new)  BY <1>1, <1>2, <1>5 DEF WellFormed
<1>7. ASSUME NEW p \in new.points
      PROVE  /\ p.bus \in Names(new) /\ p.device \in 1 .. MAX_DEVICES_PER_BUS
             /\ p.address \in 0 .. LAST_ADDRESS
  <2>1. CASE p \in doc.points  BY <1>2, <2>1 DEF Consistent
  <2>2. CASE p \in added  BY <1>2, <1>4, <1>5, <2>2
  <2>3. QED  BY <1>2, <2>1, <2>2
<1>8. ASSUME NEW p \in new.points, NEW q \in new.points, SameDevice(p, q)
      PROVE  p.modbus_slave_id = q.modbus_slave_id /\ (p.channel = q.channel => p = q)
  <2>1. CASE p \in doc.points /\ q \in doc.points  BY <1>8, <2>1 DEF Consistent
  <2>2. CASE p \in added /\ q \in added
    <3>1. p.modbus_slave_id = q.modbus_slave_id  BY <1>4, <2>2
    <3>2. p.channel = q.channel => p = q
      <4>1. p.channel = q.channel => p.address = q.address  BY <1>4, <2>2
      <4>2. QED  BY <1>4, <2>2, <4>1
    <3>3. QED  BY <3>1, <3>2
  <2>3. CASE ~ (p \in added <=> q \in added)
    <3>1. FALSE  BY <1>2, <1>4, <1>8, <2>3 DEF SameDevice
    <3>2. QED  BY <3>1
  <2>4. QED  BY <1>2, <2>1, <2>2, <2>3
<1>9. Consistent(new)  BY <1>6, <1>7, <1>8 DEF Consistent
<1>10. QED  BY <1>9 DEF new, added

LEMMA NewLine ==
  ASSUME NEW doc, Consistent(doc), NEW n \in Lines, NEW line \in LineRecord
  PROVE  Consistent(WithLine(doc, n, line)) /\ WithLine(doc, n, line).points = doc.points
<1> DEFINE new == WithLine(doc, n, line)
<1>1. /\ new.points = doc.points /\ Names(new) = Names(doc) \cup {LineName(n)}
      /\ new = [buses |-> new.buses, points |-> new.points]
      /\ new.buses \in [Names(new) -> LineRecord]
  BY DEF WithLine, Consistent, WellFormed, Names
<1>2. LineName(n) \in BusNames  BY DEF BusNames
<1> HIDE DEF new
<1>3. WellFormed(new)  BY <1>1, <1>2 DEF WellFormed, Consistent
<1>4. Consistent(new)  BY <1>1, <1>3 DEF Consistent
<1>5. QED  BY <1>1, <1>4 DEF new

\* There is a free number as long as there are fewer devices than numbers.
LEMMA NextNumberIsFree ==
  ASSUME NEW doc, Consistent(doc), NEW bus,
         Cardinality(DevicesOnBus(doc, bus)) < MAX_DEVICES_PER_BUS
  PROVE  /\ NextDeviceNumber(doc, bus) \in 1 .. MAX_DEVICES_PER_BUS
         /\ \A p \in doc.points : ~ (p.bus = bus /\ p.device = NextDeviceNumber(doc, bus))
<1> DEFINE taken == DevicesOnBus(doc, bus)
           free  == (1 .. MAX_DEVICES_PER_BUS) \ taken
<1>1. MAX_DEVICES_PER_BUS \in Nat \ {0}  BY ConfigToolsAssumption
<1>2. taken \subseteq 1 .. MAX_DEVICES_PER_BUS  BY DEF DevicesOnBus, Consistent
<1>3. free # {}
  <2>1. SUFFICES ASSUME free = {} PROVE FALSE  OBVIOUS
  <2>2. taken = 1 .. MAX_DEVICES_PER_BUS  BY <1>2, <2>1
  <2>3. Cardinality(1 .. MAX_DEVICES_PER_BUS) = MAX_DEVICES_PER_BUS
    BY <1>1, 1 \in Int, MAX_DEVICES_PER_BUS \in Int, FS_Interval
  <2>4. QED  BY <1>1, <2>2, <2>3
<1>4. PICK d \in free : \A e \in free : d <= e
  <2>1. free \subseteq Nat  BY <1>1
  <2>2. QED  BY <1>3, <2>1, LeastExists
<1>5. \A e \in 1 .. d - 1 : e \in taken
  <2>1. ASSUME NEW e \in 1 .. d - 1, e \notin taken PROVE FALSE
    <3>1. e \in free /\ ~ (d <= e)  BY <1>1, <1>4, <2>1
    <3>2. QED  BY <1>4, <3>1
  <2>2. QED  BY <2>1
<1>6. /\ NextDeviceNumber(doc, bus) \in 1 .. MAX_DEVICES_PER_BUS
      /\ NextDeviceNumber(doc, bus) \notin taken
  BY <1>4, <1>5 DEF NextDeviceNumber
<1>7. QED  BY <1>6 DEF DevicesOnBus

LEMMA LowestIsAddress ==
  ASSUME NEW doc, Consistent(doc), NEW bus, NEW d \in DevicesOnBus(doc, bus)
  PROVE  LowestAddress(OfDevice(doc, bus, d)) \in Nat
<1> DEFINE addresses == {p.address : p \in OfDevice(doc, bus, d)}
<1>1. addresses # {}  BY DEF OfDevice, DevicesOnBus
<1> HIDE DEF addresses
<1>2. \A p \in doc.points : p.address \in Nat
  BY DEF Consistent, WellFormed, ChannelRecord
<1>3. addresses \subseteq Nat  BY <1>2 DEF addresses, OfDevice
<1>4. PICK a \in addresses : \A b \in addresses : a <= b  BY <1>1, <1>3, LeastExists
<1>5. \A p \in OfDevice(doc, bus, d) : a <= p.address  BY <1>4 DEF addresses
<1>6. LowestAddress(OfDevice(doc, bus, d)) \in addresses
  BY <1>4, <1>5 DEF LowestAddress, addresses
<1>7. QED  BY <1>3, <1>6

-----------------------------------------------------------------------------
(* The editors: what each has in memory, and the file, is consistent *)

ToolsInv ==
  /\ Consistent(file) /\ mapped \in BOOLEAN
  /\ payload = [e \in Editors |-> payload[e]] /\ saved \in [Editors -> BOOLEAN]
  /\ \A e \in Editors : /\ payload[e] # NotLoaded => Consistent(payload[e])
                        /\ saved[e] => payload[e] # NotLoaded

\* The file is well-formed, and no document is mistaken for none.
LEMMA ConsistentIsDocument ==
  ASSUME NEW doc, Consistent(doc)
  PROVE  doc \in Documents /\ doc # NotLoaded
BY DocumentsAreWellFormed, ConfigToolsAssumption DEF Consistent

LEMMA SaveConsistent ==
  ASSUME ToolsInv, NEW e \in Editors, NEW doc, Consistent(doc), Save(e, doc)
  PROVE  ToolsInv'
<1>1. doc # NotLoaded  BY ConsistentIsDocument
<1>2. /\ file' = doc /\ mapped' \in BOOLEAN
      /\ payload' = [payload EXCEPT ![e] = doc] /\ saved' = [saved EXCEPT ![e] = TRUE]
  BY DEF Save, ToolsInv
<1>3. QED  BY <1>1, <1>2 DEF ToolsInv

\* The documents the commands write.
LEMMA CommandsWriteConsistent ==
  ASSUME ToolsInv, NEW e \in Editors,
         SetLine(e) \/ AddDevice(e) \/ RemoveLine(e) \/ RemoveDevice(e) \/ UpdateChannels(e)
           \/ Regenerate(e)
  PROVE  \E doc : Consistent(doc) /\ Save(e, doc)
<1> DEFINE old == payload[e]
<1>1. Consistent(old)  BY DEF ToolsInv, SetLine, AddDevice, RemoveLine, RemoveDevice,
                              UpdateChannels, Regenerate, Editable, Loaded
<1>2. CASE SetLine(e)
  BY <1>1, <1>2, NewLine DEF SetLine
<1>3. CASE AddDevice(e)
  <2>1. PICK n \in Lines, base \in BaseAddresses, channels \in ChannelChoices :
          LET bus == ResolveBusName(old, n)
              new == ChannelsOf(bus, NextDeviceNumber(old, bus), base, channels)
          IN /\ bus \in Names(old)
             /\ Cardinality(DevicesOnBus(old, bus)) < MAX_DEVICES_PER_BUS
             /\ \A q \in new : q.address <= MaxAddress
             /\ Save(e, [old EXCEPT !.points = @ \cup new])
    BY <1>3 DEF AddDevice
  <2>2. PICK bus, device : bus = ResolveBusName(old, n) /\ device = NextDeviceNumber(old, bus)
    OBVIOUS
  <2>3. /\ device \in 1 .. MAX_DEVICES_PER_BUS
        /\ \A p \in old.points : ~ (p.bus = bus /\ p.device = device)
    BY <1>1, <2>1, <2>2, NextNumberIsFree
  <2>4. base \in Nat /\ channels \in SUBSET (1 .. TRM138_CHANNEL_COUNT)
    BY ConfigToolsAssumption
  <2>5. Consistent([old EXCEPT !.points = @ \cup ChannelsOf(bus, device, base, channels)])
    BY <1>1, <2>1, <2>2, <2>3, <2>4, NewPoints
  <2>6. QED  BY <2>1, <2>2, <2>5
<1>4. CASE RemoveLine(e)
  <2>1. PICK bus : Save(e, WithoutLine(old, bus))  BY <1>4 DEF RemoveLine
  <2>2. Consistent(WithoutLine(old, bus))
    <3> DEFINE kept  == {p \in old.points : p.bus # bus}
               names == Names(old) \ {bus}
    <3>1. \A p \in kept : p.bus \in names  BY <1>1 DEF Consistent
    <3>2. kept \subseteq old.points /\ names \subseteq Names(old)  OBVIOUS
    <3> HIDE DEF kept, names, old
    <3>3. Consistent([buses |-> [b \in names |-> old.buses[b]], points |-> kept])
      BY <1>1, <3>1, <3>2, FewerPoints
    <3>4. QED  BY <3>3 DEF WithoutLine, kept, names
  <2>3. QED  BY <2>1, <2>2
<1>5. CASE RemoveDevice(e)
  <2>1. PICK bus, d : Save(e, WithoutDevice(old, bus, d))  BY <1>5 DEF RemoveDevice
  <2>2. Consistent(WithoutDevice(old, bus, d))  BY <1>1, FewerOfDevice
  <2>3. QED  BY <2>1, <2>2
<1>6. CASE UpdateChannels(e)
  <2>1. PICK n \in Lines, channels \in ChannelChoices :
          LET bus == ResolveBusName(old, n)
          IN \E d \in DevicesOnBus(old, bus) :
               LET new == ChannelsOf(bus, d, LowestAddress(OfDevice(old, bus, d)), channels)
               IN /\ \A q \in new : q.address <= MaxAddress
                  /\ Save(e, [WithoutDevice(old, bus, d) EXCEPT !.points = @ \cup new])
    BY <1>6 DEF UpdateChannels
  <2>2. PICK bus : bus = ResolveBusName(old, n)  OBVIOUS
  <2>3. PICK d \in DevicesOnBus(old, bus) :
          LET new == ChannelsOf(bus, d, LowestAddress(OfDevice(old, bus, d)), channels)
          IN /\ \A q \in new : q.address <= MaxAddress
             /\ Save(e, [WithoutDevice(old, bus, d) EXCEPT !.points = @ \cup new])
    BY <2>1, <2>2
  <2>4. PICK base : base = LowestAddress(OfDevice(old, bus, d))  OBVIOUS
  <2>5. base \in Nat /\ channels \in SUBSET (1 .. TRM138_CHANNEL_COUNT)
    BY <1>1, <2>4, LowestIsAddress, ConfigToolsAssumption
  <2>6. PICK rest : rest = WithoutDevice(old, bus, d)  OBVIOUS
  <2>7. /\ Consistent(rest) /\ Names(rest) = Names(old)
        /\ \A p \in rest.points : ~ (p.bus = bus /\ p.device = d)
    BY <1>1, <2>6, FewerOfDevice
  <2>8. bus \in Names(rest) /\ d \in 1 .. MAX_DEVICES_PER_BUS
    BY <1>1, <2>7 DEF DevicesOnBus, Consistent
  <2>9. Consistent([rest EXCEPT !.points = @ \cup ChannelsOf(bus, d, base, channels)])
    BY <2>3, <2>4, <2>5, <2>7, <2>8, NewPoints
  <2>10. QED  BY <2>3, <2>4, <2>6, <2>9
<1>7. CASE Regenerate(e)  BY <1>1, <1>7 DEF Regenerate
<1>8. QED  BY <1>2, <1>3, <1>4, <1>5, <1>6, <1>7

LEMMA ToolsInvHolds == Spec => []ToolsInv
<1>1. Init => ToolsInv
  BY FirstAreConsistent DEF Init, ToolsInv
<1>2. ToolsInv /\ [Next]_vars => ToolsInv'
  <2> SUFFICES ASSUME ToolsInv, [Next]_vars PROVE ToolsInv'  OBVIOUS
  <2>1. ASSUME NEW e \in Editors,
               SetLine(e) \/ AddDevice(e) \/ RemoveLine(e) \/ RemoveDevice(e) \/ UpdateChannels(e)
                 \/ Regenerate(e)
        PROVE  ToolsInv'
    BY <2>1, CommandsWriteConsistent, SaveConsistent
  <2>2. ASSUME NEW e \in Editors, Load(e) PROVE ToolsInv'
    BY <2>2, ConsistentIsDocument DEF Load, ToolsInv
  <2>3. ASSUME NEW e \in Editors, Render(e) PROVE ToolsInv'
    <3>1. mapped' \in BOOLEAN  BY <2>3 DEF Render, ToolsInv
    <3>2. QED  BY <2>3, <3>1 DEF Render, ToolsInv
  <2>4. ASSUME NEW e \in Editors, Interrupted(e) \/ GiveUp(e) PROVE ToolsInv'
    BY <2>4 DEF Interrupted, GiveUp, Loaded, ToolsInv
  <2>5. CASE UNCHANGED vars  BY <2>5 DEF vars, ToolsInv
  <2>6. QED  BY <2>1, <2>2, <2>3, <2>4, <2>5 DEF Next
<1>3. QED  BY <1>1, <1>2, PTL DEF Spec

\* Whatever lines, devices, channels and addresses the operators of any number of
\* tools enter, in whatever order, the file and the documents in memory are well
\* formed: device numbers and channels in range, points of lines by name
\* (_next_device_number, _append_trm138_points).
THEOREM ToolsTypesHold == Spec => []TypeOK
<1>1. ToolsInv => TypeOK
  <2> SUFFICES ASSUME ToolsInv PROVE TypeOK  OBVIOUS
  <2>1. \A e \in Editors : payload[e] \in Documents \cup {NotLoaded}
    BY ConsistentIsDocument DEF ToolsInv
  <2>2. payload \in [Editors -> Documents \cup {NotLoaded}]  BY <2>1 DEF ToolsInv
  <2>3. file \in Documents  BY ConsistentIsDocument DEF ToolsInv
  <2>4. QED  BY <2>2, <2>3 DEF ToolsInv, TypeOK
<1>2. QED  BY <1>1, ToolsInvHolds, PTL

\* From a file the gateway accepts or an empty one, no sequence of commands of
\* any number of editors, overwriting each other or not, leads to one it rejects
\* for anything but a fault of what was entered: no line or too many, a line with
\* a value out of range (set_line), a SlaveID out of range or used by two devices.
THEOREM FaultsAreForeseeable == Spec => []OnlyForeseeableFaults
<1>1. ToolsInv => OnlyForeseeableFaults
  BY ConsistentIsAccepted DEF ToolsInv, OnlyForeseeableFaults
<1>2. QED  BY <1>1, ToolsInvHolds, PTL

\* Every device can be reached under a line number, on lines with the name of
\* earlier versions too, unless its line is hidden by another (_resolve_bus_name).
THEOREM DevicesCanBeReached == Spec => []DevicesAreReachable
<1>1. ToolsInv => DevicesAreReachable
  <2> SUFFICES ASSUME ToolsInv, ~ HasHiddenLine(file), NEW p \in file.points
               PROVE  \E n \in Lines : p.bus = ResolveBusName(file, n)
    BY DEF DevicesAreReachable
  <2>1. p.bus \in Names(file) /\ p.bus \in BusNames
    BY DEF ToolsInv, Consistent, WellFormed
  <2>2. PICK n \in Lines : p.bus = LineName(n) \/ p.bus = LegacyName(n)  BY <2>1 DEF BusNames
  <2>3. ~ ({LineName(n), LegacyName(n)} \subseteq Names(file))  BY DEF HasHiddenLine
  <2>4. p.bus = ResolveBusName(file, n)  BY <2>1, <2>2, <2>3 DEF ResolveBusName
  <2>5. QED  BY <2>4
<1>2. QED  BY <1>1, ToolsInvHolds, PTL

-----------------------------------------------------------------------------
(* One editor *)

LEMMA OnlyEditor ==
  ASSUME Cardinality(Editors) = 1, NEW e \in Editors, NEW f \in Editors
  PROVE  e = f
<1>1. IsFiniteSet(Editors)  BY ConfigToolsAssumption
<1>2. QED  BY <1>1, FS_Singleton

\* What a single editor has in memory is what the file holds.
OneEditorInv ==
  Cardinality(Editors) = 1 => \A e \in Editors : payload[e] # NotLoaded => payload[e] = file

LEMMA OneEditorInvHolds == Spec => []OneEditorInv
<1>1. Init => OneEditorInv  BY DEF Init, OneEditorInv
<1>2. ToolsInv /\ OneEditorInv /\ [Next]_vars => OneEditorInv'
  <2> SUFFICES ASSUME ToolsInv, OneEditorInv, [Next]_vars, Cardinality(Editors) = 1,
                      NEW e \in Editors
               PROVE  payload'[e] # NotLoaded => payload'[e] = file'
    BY DEF OneEditorInv
  <2>1. payload[e] # NotLoaded => payload[e] = file  BY DEF OneEditorInv
  <2>2. \A v : [payload EXCEPT ![e] = v][e] = v  BY DEF ToolsInv
  <2>3. CASE SetLine(e) \/ AddDevice(e) \/ RemoveLine(e) \/ RemoveDevice(e) \/ UpdateChannels(e)
               \/ Regenerate(e)
    <3>1. PICK doc : Save(e, doc)  BY <2>3, CommandsWriteConsistent
    <3>2. QED  BY <2>2, <3>1 DEF Save
  <2>4. CASE Load(e)  BY <2>2, <2>4 DEF Load
  <2>5. CASE Render(e) \/ Interrupted(e) \/ GiveUp(e)
    <3>1. payload'[e] = NotLoaded  BY <2>2, <2>5 DEF Render, Interrupted, GiveUp
    <3>2. QED  BY <3>1
  <2>6. CASE UNCHANGED vars  BY <2>1, <2>6 DEF vars
  <2>7. QED
    <3>1. ASSUME NEW f \in Editors PROVE f = e  BY OnlyEditor
    <3>2. QED  BY <2>3, <2>4, <2>5, <2>6, <3>1 DEF Next
<1>3. QED  BY <1>1, <1>2, ToolsInvHolds, PTL DEF Spec

\* With a single editor, a command that runs to its end leaves the Modbus map of the
\* file beside it, or has told the operator of a fault of what was entered; whatever
\* commands that were cut off left before.
THEOREM MapIsOfTheFile == Spec => MapFollowsTheFile
<1>1. ASSUME ToolsInv, OneEditorInv, Cardinality(Editors) = 1, NEW e \in Editors, Render(e)
      PROVE  ForeseeableFault(file') \/ mapped'
  <2>1. payload[e] = file /\ file' = file
    BY <1>1 DEF Render, ToolsInv, OneEditorInv
  <2>2. CASE Accepts(file)
    <3>1. mapped'  BY <1>1, <2>1, <2>2 DEF Render
    <3>2. QED  BY <3>1
  <2>3. CASE ~ Accepts(file)
    <3>1. ForeseeableFault(file)  BY <1>1, <2>3, ConsistentIsAccepted DEF ToolsInv
    <3>2. QED  BY <2>1, <3>1
  <2>4. QED  BY <2>2, <2>3
<1>2. ToolsInv /\ OneEditorInv /\ [Next]_vars =>
        [Cardinality(Editors) = 1 =>
           \A e \in Editors : Render(e) => ForeseeableFault(file') \/ mapped']_vars
  BY <1>1
<1>3. QED  BY <1>2, ToolsInvHolds, OneEditorInvHolds, PTL DEF Spec, MapFollowsTheFile

-----------------------------------------------------------------------------
(* What a command changes *)

\* Points of one device only come or go.
LEMMA OneDeviceChanged ==
  ASSUME NEW old, NEW new, NEW bus, NEW device,
         \A p : (p.bus = bus /\ p.device = device) \/ (p \in old.points <=> p \in new.points)
  PROVE  Cardinality(Changed(old, new)) <= 1
<1>1. ASSUME NEW k \in Changed(old, new) PROVE k = <<bus, device>>
  <2>1. /\ k \in DevicesIn(old) \cup DevicesIn(new)
        /\ OfDevice(old, k[1], k[2]) # OfDevice(new, k[1], k[2])
    BY DEF Changed
  <2>2. k = <<k[1], k[2]>>  BY <2>1 DEF DevicesIn
  <2>3. PICK p : p.bus = k[1] /\ p.device = k[2] /\ ~ (p \in old.points <=> p \in new.points)
    BY <2>1 DEF OfDevice
  <2>4. p.bus = bus /\ p.device = device  BY <2>3
  <2>5. QED  BY <2>2, <2>3, <2>4
<1>2. Changed(old, new) \in SUBSET {<<bus, device>>}  BY <1>1
<1>3. IsFiniteSet({<<bus, device>>}) /\ Cardinality({<<bus, device>>}) = 1  BY FS_Singleton
<1>4. QED  BY <1>2, <1>3, FS_Subset

LEMMA AddedPoints ==
  ASSUME NEW bus, NEW device, NEW base, NEW channels,
         NEW p \in ChannelsOf(bus, device, base, channels)
  PROVE  p.bus = bus /\ p.device = device
BY DEF ChannelsOf

LEMMA LocalCommand ==
  ASSUME ToolsInv, NEW e \in Editors, payload[e] = file,
         SetLine(e) \/ AddDevice(e) \/ RemoveDevice(e) \/ UpdateChannels(e) \/ Regenerate(e)
  PROVE  Cardinality(Changed(file, file')) <= 1
<1> DEFINE Local(new) ==
      \E bus, device : \A p :
        (p.bus = bus /\ p.device = device) \/ (p \in file.points <=> p \in new.points)
<1>1. Consistent(file) /\ WellFormed(file)  BY DEF ToolsInv, Consistent
<1>2. CASE SetLine(e)
  <2>1. PICK n \in Lines, line \in LineRecord : file' = WithLine(file, n, line)
    BY <1>2 DEF SetLine, Save
  <2>2. Local(file')  BY <1>1, <2>1, NewLine
  <2>3. QED  BY <2>2, OneDeviceChanged
<1>3. CASE AddDevice(e)
  <2>1. PICK n \in Lines, base \in BaseAddresses, channels \in ChannelChoices :
          LET bus == ResolveBusName(payload[e], n)
              new == ChannelsOf(bus, NextDeviceNumber(payload[e], bus), base, channels)
          IN Save(e, [payload[e] EXCEPT !.points = @ \cup new])
    BY <1>3 DEF AddDevice
  <2>2. PICK bus, device : /\ bus = ResolveBusName(payload[e], n)
                           /\ device = NextDeviceNumber(payload[e], bus)
    OBVIOUS
  <2>3. file' = [file EXCEPT !.points = @ \cup ChannelsOf(bus, device, base, channels)]
    BY <2>1, <2>2 DEF Save
  <2>4. file'.points = file.points \cup ChannelsOf(bus, device, base, channels)
    BY <1>1, <2>3, PointsReplaced
  <2>5. Local(file')  BY <2>4, AddedPoints
  <2>6. QED  BY <2>5, OneDeviceChanged
<1>4. CASE RemoveDevice(e)
  <2>1. PICK bus, device : file' = WithoutDevice(file, bus, device)
    BY <1>4 DEF RemoveDevice, Save
  <2>2. file'.points = file.points \ OfDevice(file, bus, device)
    BY <1>1, <2>1, FewerOfDevice
  <2>3. Local(file')  BY <2>2 DEF OfDevice
  <2>4. QED  BY <2>3, OneDeviceChanged
<1>5. CASE UpdateChannels(e)
  <2>1. PICK n \in Lines, channels \in ChannelChoices :
          LET bus == ResolveBusName(payload[e], n)
          IN \E d \in DevicesOnBus(payload[e], bus) :
               LET new == ChannelsOf(bus, d, LowestAddress(OfDevice(payload[e], bus, d)), channels)
               IN Save(e, [WithoutDevice(payload[e], bus, d) EXCEPT !.points = @ \cup new])
    BY <1>5 DEF UpdateChannels
  <2>2. PICK bus : bus = ResolveBusName(payload[e], n)  OBVIOUS
  <2>3. PICK device :
          LET new == ChannelsOf(bus, device, LowestAddress(OfDevice(payload[e], bus, device)), channels)
          IN Save(e, [WithoutDevice(payload[e], bus, device) EXCEPT !.points = @ \cup new])
    BY <2>1, <2>2
  <2>4. PICK base, rest : /\ base = LowestAddress(OfDevice(file, bus, device))
                          /\ rest = WithoutDevice(file, bus, device)
    OBVIOUS
  <2>5. file' = [rest EXCEPT !.points = @ \cup ChannelsOf(bus, device, base, channels)]
    BY <2>3, <2>4 DEF Save
  <2>6. WellFormed(rest) /\ rest.points = file.points \ OfDevice(file, bus, device)
    BY <1>1, <2>4, FewerOfDevice DEF Consistent
  <2>7. file'.points = rest.points \cup ChannelsOf(bus, device, base, channels)
    BY <2>5, <2>6, PointsReplaced
  <2>8. Local(file')  BY <2>6, <2>7, AddedPoints DEF OfDevice
  <2>9. QED  BY <2>8, OneDeviceChanged
<1>6. CASE Regenerate(e)
  <2>1. file' = file  BY <1>6 DEF Regenerate, Save
  <2>2. QED  BY <2>1, OneDeviceChanged
<1>7. QED  BY <1>2, <1>3, <1>4, <1>5, <1>6

LEMMA LineRemoved ==
  ASSUME NEW e \in Editors, payload[e] = file, RemoveLine(e)
  PROVE  \E b \in Names(file) \ Names(file') : \A k \in Changed(file, file') : k[1] = b
<1>1. PICK bus \in Names(file) : file' = WithoutLine(file, bus)
  BY DEF RemoveLine, Save
<1>2. Names(file') = Names(file) \ {bus} /\ file'.points = {p \in file.points : p.bus # bus}
  BY <1>1 DEF WithoutLine, Names
<1>3. ASSUME NEW k \in Changed(file, file') PROVE k[1] = bus
  <2>1. OfDevice(file, k[1], k[2]) # OfDevice(file', k[1], k[2])  BY DEF Changed
  <2>2. QED  BY <1>2, <2>1 DEF OfDevice
<1>4. QED  BY <1>2, <1>3

\* With a single editor, no command changes more than one device, but for the
\* removal of a line, and that only devices of the line.
THEOREM CommandsStayLocal == Spec => CommandsAreLocal
<1>1. ASSUME ToolsInv, OneEditorInv, Next, Cardinality(Editors) = 1
      PROVE  \/ Cardinality(Changed(file, file')) <= 1
             \/ \E b \in Names(file) \ Names(file') : \A k \in Changed(file, file') : k[1] = b
  <2>1. PICK e \in Editors :
          \/ Load(e) \/ SetLine(e) \/ AddDevice(e) \/ RemoveLine(e) \/ RemoveDevice(e)
          \/ UpdateChannels(e) \/ Regenerate(e) \/ Render(e) \/ Interrupted(e) \/ GiveUp(e)
    BY <1>1 DEF Next
  <2>2. payload[e] # NotLoaded => payload[e] = file  BY <1>1 DEF OneEditorInv
  <2>3. CASE SetLine(e) \/ AddDevice(e) \/ RemoveDevice(e) \/ UpdateChannels(e) \/ Regenerate(e)
    <3>1. payload[e] = file
      BY <2>2, <2>3 DEF SetLine, AddDevice, RemoveDevice, UpdateChannels, Regenerate,
                        Editable, Loaded
    <3>2. QED  BY <1>1, <2>3, <3>1, LocalCommand
  <2>4. CASE RemoveLine(e)
    <3>1. payload[e] = file  BY <2>2, <2>4 DEF RemoveLine, Editable, Loaded
    <3>2. QED  BY <2>4, <3>1, LineRemoved
  <2>5. CASE Load(e) \/ Render(e) \/ Interrupted(e) \/ GiveUp(e)
    <3>1. file' = file  BY <2>5 DEF Load, Render, Interrupted, GiveUp
    <3>2. QED  BY <3>1, OneDeviceChanged
  <2>6. QED  BY <2>1, <2>3, <2>4, <2>5
<1>2. ToolsInv /\ OneEditorInv /\ [Next]_vars =>
        [Cardinality(Editors) = 1 =>
           \/ Cardinality(Changed(file, file')) <= 1
           \/ \E b \in Names(file) \ Names(file') : \A k \in Changed(file, file') : k[1] = b]_vars
  BY <1>1
<1>3. QED  BY <1>2, ToolsInvHolds, OneEditorInvHolds, PTL DEF Spec, CommandsAreLocal
=============================================================================
