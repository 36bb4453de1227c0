---------------------------- MODULE RegisterMap -----------------------------
(***************************************************************************)
(* Where the points of a configuration lie in the Modbus registers: the    *)
(* loop of validate_config (config.py) that refuses points whose registers *)
(* overlap, and the size of the blocks the register store allocates for    *)
(* what it accepted (modbus_server.py).                                    *)
(*                                                                         *)
(* A point is a record [name, device, type, width, at, mark, status,       *)
(* published]: its SlaveID, its kind of register, how many registers its   *)
(* data type takes, and the addresses of its value, of its time mark and   *)
(* of its channel status (None: it has none).                              *)
(***************************************************************************)
EXTENDS Integers, FiniteSets

CONSTANTS
  Configurable,    \* the points a configuration may have
  Reserved,        \* status and telemetry registers of every device
  StatusType,      \* their kind of register
  ExtraRegisters,  \* registers the service publishes beside: HR48
  None

ASSUME MapAssumption ==
  /\ \A p \in Configurable :
       /\ p.at \in Nat /\ p.width \in Nat \ {0}
       /\ p.mark \in Nat \cup {None} /\ p.status \in Nat \cup {None}
       /\ p.published \in BOOLEAN
  /\ Reserved \subseteq Nat /\ ExtraRegisters \subseteq Nat
  /\ IsFiniteSet(Configurable) /\ IsFiniteSet(Reserved) /\ IsFiniteSet(ExtraRegisters)
  /\ None \notin Nat

VARIABLES
  seen,      \* the points the loop has accepted
  occupied,  \* [block -> SUBSET Nat]: `occupied` of the code
  refused    \* the point it raised at, or None

mapVars == <<seen, occupied, refused>>

\* The registers of one kind of one device.
BlockOfPoint(p) == <<p.device, p.type>>
RegisterBlocks == {BlockOfPoint(p) : p \in Configurable}

ReservedIn(block) == IF block[2] = StatusType THEN Reserved ELSE {}

ValueRegisters(p) == p.at .. p.at + p.width - 1

\* `indexes`
Indexes(p) == ValueRegisters(p) \cup ({p.mark, p.status} \ {None})

MapInit ==
  /\ seen = {}
  /\ occupied = [b \in RegisterBlocks |-> {}]
  /\ refused = None

\* `used` when the loop looks at p: status and telemetry are added each time.
Used(p) == occupied[BlockOfPoint(p)] \cup ReservedIn(BlockOfPoint(p))

\* Faulty: the time mark and the status of the point are not looked at.
ValueOverlaps(p) == p.published /\ Used(p) \cap ValueRegisters(p) # {}

Overlaps(p) == p.published /\ Used(p) \cap Indexes(p) # {}

AcceptPoint(p) ==
  /\ refused = None /\ p \notin seen
  /\ ~Overlaps(p)
  /\ seen' = seen \cup {p}
  /\ occupied' = IF p.published
                 THEN [occupied EXCEPT ![BlockOfPoint(p)] = Used(p) \cup Indexes(p)]
                 ELSE occupied
  /\ UNCHANGED refused

RefusePoint(p) ==
  /\ refused = None /\ p \notin seen
  /\ Overlaps(p)
  /\ refused' = p
  /\ UNCHANGED <<seen, occupied>>

MapNext == \E p \in Configurable : AcceptPoint(p) \/ RefusePoint(p)

MapSpec == MapInit /\ [][MapNext]_mapVars

-----------------------------------------------------------------------------
(* The register store *)

Published == {p \in seen : p.published}

\* Faulty: the shift by one of a Modbus data block is forgotten.
NeededWithoutShift(p) == {p.at + p.width} \cup {a + 1 : a \in {p.mark, p.status} \ {None}}

\* The sizes _calc_size takes the largest of: addresses are counted from one in
\* the blocks of pymodbus.
NeededFor(p) == {p.at + p.width + 1} \cup {a + 2 : a \in {p.mark, p.status} \ {None}}

Needed == {1} \cup (UNION {NeededFor(p) : p \in Published})
              \cup {a + 2 : a \in Reserved \cup ExtraRegisters}

BlockSize == CHOOSE n \in Needed : \A m \in Needed : m <= n

\* Where the store keeps the register of an address.
StoredAt(a) == a + 1

-----------------------------------------------------------------------------
(* Properties *)

\* Two published points of an accepted configuration never share a register of
\* a device, whatever their order, widths, time marks and status registers; nor
\* does one lie on the status and telemetry registers of its device; and a point
\* is refused only for a register that really is taken (validate_config).
CellsAreApart ==
  /\ \A p, q \in Published :
       p # q /\ BlockOfPoint(p) = BlockOfPoint(q) => Indexes(p) \cap Indexes(q) = {}
  /\ \A p \in Published : Indexes(p) \cap ReservedIn(BlockOfPoint(p)) = {}
  /\ refused # None =>
       Indexes(refused) \cap (ReservedIn(BlockOfPoint(refused)) \cup
         UNION {Indexes(q) : q \in {q \in Published : BlockOfPoint(q) = BlockOfPoint(refused)}}) # {}

\* Every register the service publishes to lies inside the block that was
\* allocated for it, so that no write extends the block or moves what is behind.
\* (Not claimed of the status and time mark of a point that is not published:
\* write_point_metadata writes those as well, and _calc_size leaves them out.)
EveryRegisterFits ==
  \A a \in (UNION {Indexes(p) : p \in Published}) \cup Reserved \cup ExtraRegisters :
    StoredAt(a) \in 0 .. BlockSize - 1
=============================================================================
