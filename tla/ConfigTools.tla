---------------------------- MODULE ConfigTools -----------------------------
(***************************************************************************)
(* The configuration tools (config_tools.py, the config subcommands and    *)
(* the menu of cli.py) and the acceptance test of the gateway              *)
(* (load_config and validate_config of config.py).                         *)
(*                                                                         *)
(* An editor is a run of a config subcommand or a menu: it loads the file, *)
(* edits the document in memory, writes it back, and then renders the      *)
(* Modbus map.  Only the rendering resolves the document the way the       *)
(* gateway does at its start, so only then is the document validated.      *)
(*                                                                         *)
(* A TRM138 adds three points per channel (rEAd, C.SP and AL.t), always    *)
(* together: a channel record stands for the three, without their names    *)
(* and defaults.  Of a line the port is kept, and of the numbers and       *)
(* letters entered beside it whether validate_config accepts them all:     *)
(* set_line saves them as they were entered.                               *)
(***************************************************************************)
EXTENDS Integers, FiniteSets

CONSTANTS
  Editors,              \* runs of a subcommand, or menus, at the same time
  Lines,                \* line numbers an operator may enter
  Ports,                \* serial ports
  BaseAddresses,        \* base addresses an operator enters
  ChannelChoices,       \* sets of channels an operator enters
  FirstDocuments,       \* what the file may hold at first
  MaxAddress,           \* bound: no OVEN address beyond it is configured
  MAX_BUSES,            \* 2 in the code
  MAX_DEVICES_PER_BUS,  \* 32 in the code
  NotLoaded             \* no document in memory

TRM138_CHANNEL_COUNT == 8
SERVICE_SLAVE_ID == 1
LAST_ADDRESS == 2047   \* OVEN addresses have 11 bits

\* _line_name, and the name the gateway gave its lines earlier
LineName(n)   == <<"line", n>>
LegacyName(n) == <<"bus", n>>
BusNames == {LineName(n) : n \in Lines} \cup {LegacyName(n) : n \in Lines}

ChannelRecord == [bus : BusNames, device : Nat, modbus_slave_id : Nat, address : Nat,
                  channel : 1 .. TRM138_CHANNEL_COUNT]

\* valid: the poll interval, retries, delay, slave base and serial settings entered
\* for the line are in the ranges validate_config asks for.
LineRecord == [port : Ports, valid : BOOLEAN]

\* buses: the configured lines by name; points: the channel records.
Documents == [buses : UNION {[names -> LineRecord] : names \in SUBSET BusNames},
              points : SUBSET ChannelRecord]

VARIABLES
  file,      \* the configuration on disk
  mapped,    \* the Modbus map beside it was rendered from what it holds
  payload,   \* [Editors -> ...]: the document in an editor's memory
  saved      \* [Editors -> BOOLEAN]: written, and its map still to be rendered

vars == <<file, mapped, payload, saved>>

ASSUME ConfigToolsAssumption ==
  /\ IsFiniteSet(Editors)
  /\ Lines \subseteq Nat /\ MAX_BUSES \in Nat \ {0} /\ MAX_DEVICES_PER_BUS \in Nat \ {0}
  /\ MaxAddress \in 0 .. LAST_ADDRESS /\ BaseAddresses \subseteq 0 .. MaxAddress
  /\ \A chosen \in ChannelChoices : chosen # {} /\ chosen \subseteq 1 .. TRM138_CHANNEL_COUNT
  /\ FirstDocuments \subseteq Documents /\ NotLoaded \notin Documents

-----------------------------------------------------------------------------
(* Reading a document *)

\* The holding registers of one channel: value, channel status, setpoint.
Registers(channel) ==
  {16 + 2 * (channel - 1), 17 + 2 * (channel - 1), 40 + (channel - 1),
   56 + 2 * (channel - 1), 57 + 2 * (channel - 1)}

StatusAndTelemetry == 1 .. 6

Names(doc) == DOMAIN doc.buses

\* Faulty: a line has the name the tools give it.
CanonicalName(doc, n) == LineName(n)

\* _resolve_bus_name
ResolveBusName(doc, n) ==
  IF LineName(n) \in Names(doc) \/ LegacyName(n) \notin Names(doc)
  THEN LineName(n) ELSE LegacyName(n)

\* Faulty: the number of the device counts, whatever its line.
OnAnyLine(doc, bus, device) == {p \in doc.points : p.device = device}

OfDevice(doc, bus, device) == {p \in doc.points : p.bus = bus /\ p.device = device}

DevicesOnBus(doc, bus) == {p.device : p \in {p \in doc.points : p.bus = bus}}

\* Faulty: the next number after the number of devices.
CountPlusOne(doc, bus) == Cardinality(DevicesOnBus(doc, bus)) + 1

\* _next_device_number: the smallest free one.
NextDeviceNumber(doc, bus) ==
  CHOOSE d \in 1 .. MAX_DEVICES_PER_BUS :
    /\ d \notin DevicesOnBus(doc, bus)
    /\ \A e \in 1 .. d - 1 : e \in DevicesOnBus(doc, bus)

\* What the tools take for the base address of a device with these channels.
LowestAddress(points) ==
  CHOOSE a \in {p.address : p \in points} : \A p \in points : a <= p.address

\* _match_device, by device number or by base address: exactly one may match.
Matches(doc, bus, by, n) ==
  {d \in DevicesOnBus(doc, bus) :
     CASE by = "device"       -> d = n
       [] by = "base_address" -> LowestAddress(OfDevice(doc, bus, d)) = n}

\* _get_buses, which every command calls, raises beyond the limit.
Usable(doc) == Cardinality(Names(doc)) <= MAX_BUSES

\* validate_config: the rules on lines.
AcceptsBuses(doc) ==
  /\ Names(doc) # {} /\ Usable(doc)
  /\ \A b \in Names(doc) : doc.buses[b].valid

\* The rules on points, without those on what the tools write for every point alike:
\* types, formats and registers of the three points of a channel.
AcceptsPoint(doc, p) ==
  /\ p.bus \in Names(doc)
  /\ p.device \in 1 .. MAX_DEVICES_PER_BUS
  /\ p.modbus_slave_id \in 2 .. 247 /\ p.modbus_slave_id # SERVICE_SLAVE_ID
  /\ p.address \in 0 .. LAST_ADDRESS

SameDevice(p, q) == p.bus = q.bus /\ p.device = q.device

AcceptsPair(p, q) ==
  /\ SameDevice(p, q) <=> p.modbus_slave_id = q.modbus_slave_id
  /\ p # q /\ p.modbus_slave_id = q.modbus_slave_id
       => Registers(p.channel) \cap Registers(q.channel) = {}

Accepts(doc) ==
  /\ AcceptsBuses(doc)
  /\ \A p \in doc.points :
       /\ AcceptsPoint(doc, p)
       /\ Registers(p.channel) \cap StatusAndTelemetry = {}
       /\ \A q \in doc.points : AcceptsPair(p, q)

\* The tools start from a file the gateway runs on, or from one without points.
ASSUME FirstDocumentsAssumption ==
  \A doc \in FirstDocuments : Accepts(doc) \/ doc.points = {}

-----------------------------------------------------------------------------
(* Editing a document *)

WithLine(doc, n, line) ==
  [doc EXCEPT !.buses = [b \in Names(doc) \cup {LineName(n)} |->
                           IF b = LineName(n) THEN line ELSE doc.buses[b]]]

\* Faulty: channels counted from 0.
ChannelsFromZero(bus, device, base, channels) ==
  {[bus |-> bus, device |-> device, modbus_slave_id |-> base, address |-> base + c - 1,
    channel |-> c - 1] : c \in channels}

\* _append_trm138_points
ChannelsOf(bus, device, base, channels) ==
  {[bus |-> bus, device |-> device, modbus_slave_id |-> base, address |-> base + c - 1,
    channel |-> c] : c \in channels}

\* Faulty: the points of the line stay.
LineOnly(doc, bus) == [doc EXCEPT !.buses = [b \in Names(doc) \ {bus} |-> doc.buses[b]]]

WithoutLine(doc, bus) ==
  [buses |-> [b \in Names(doc) \ {bus} |-> doc.buses[b]],
   points |-> {p \in doc.points : p.bus # bus}]

WithoutDevice(doc, bus, device) == [doc EXCEPT !.points = @ \ OfDevice(doc, bus, device)]

-----------------------------------------------------------------------------
(* The editors *)

Init ==
  /\ file \in FirstDocuments
  /\ mapped \in BOOLEAN
  /\ payload = [e \in Editors |-> NotLoaded]
  /\ saved = [e \in Editors |-> FALSE]

Load(e) ==
  /\ payload[e] = NotLoaded
  /\ payload' = [payload EXCEPT ![e] = file]
  /\ UNCHANGED <<file, mapped, saved>>

Loaded(e)   == payload[e] # NotLoaded /\ ~saved[e]
Editable(e) == Loaded(e) /\ Usable(payload[e])

\* The document is written before it is validated.
Save(e, doc) ==
  /\ file' = doc
  /\ mapped' = (mapped /\ doc = file)
  /\ payload' = [payload EXCEPT ![e] = doc]
  /\ saved' = [saved EXCEPT ![e] = TRUE]

\* Rendering the map of a document the gateway does not accept raises, and the map
\* of an earlier document stays.  Another editor may have saved meanwhile.
Render(e) ==
  /\ saved[e]
  /\ mapped' = IF Accepts(payload[e]) THEN payload[e] = file ELSE mapped
  /\ payload' = [payload EXCEPT ![e] = NotLoaded]
  /\ saved' = [saved EXCEPT ![e] = FALSE]
  /\ UNCHANGED file

\* The process ends between the two, as by a signal: no handler renders the map.
Interrupted(e) ==
  /\ saved[e]
  /\ payload' = [payload EXCEPT ![e] = NotLoaded]
  /\ saved' = [saved EXCEPT ![e] = FALSE]
  /\ UNCHANGED <<file, mapped>>

SetLine(e) ==
  /\ Editable(e)
  /\ \E n \in Lines, line \in LineRecord : Save(e, WithLine(payload[e], n, line))

AddDevice(e) ==
  /\ Editable(e)
  /\ \E n \in Lines, base \in BaseAddresses, channels \in ChannelChoices :
       LET doc == payload[e]
           bus == ResolveBusName(doc, n)
           new == ChannelsOf(bus, NextDeviceNumber(doc, bus), base, channels)
       IN /\ bus \in Names(doc)
          /\ Cardinality(DevicesOnBus(doc, bus)) < MAX_DEVICES_PER_BUS
          /\ \A p \in doc.points, q \in new : p.bus = bus => p.address # q.address
          /\ \A q \in new : q.address <= MaxAddress
          /\ Save(e, [doc EXCEPT !.points = @ \cup new])

RemoveLine(e) ==
  /\ Editable(e)
  /\ \E n \in Lines :
       LET bus == ResolveBusName(payload[e], n)
       IN bus \in Names(payload[e]) /\ Save(e, WithoutLine(payload[e], bus))

\* The selectors of remove-trm138 and set-trm138-channels.
Selected(doc, bus, device) ==
  \E by \in {"device", "base_address"}, n \in 0 .. MaxAddress : Matches(doc, bus, by, n) = {device}

RemoveDevice(e) ==
  /\ Editable(e)
  /\ \E n \in Lines :
       LET doc == payload[e]
           bus == ResolveBusName(doc, n)
       IN \E d \in DevicesOnBus(doc, bus) :
            Selected(doc, bus, d) /\ Save(e, WithoutDevice(doc, bus, d))

\* The lowest address still configured becomes the base address, and the SlaveID.
UpdateChannels(e) ==
  /\ Editable(e)
  /\ \E n \in Lines, channels \in ChannelChoices :
       LET doc == payload[e]
           bus == ResolveBusName(doc, n)
       IN \E d \in DevicesOnBus(doc, bus) :
            LET new == ChannelsOf(bus, d, LowestAddress(OfDevice(doc, bus, d)), channels)
            IN /\ Selected(doc, bus, d)
               /\ \A q \in new : q.address <= MaxAddress
               /\ Save(e, [WithoutDevice(doc, bus, d) EXCEPT !.points = @ \cup new])

\* Entry 7 of the menu writes the document and its map again.
Regenerate(e) == Loaded(e) /\ Save(e, payload[e])

\* The command is cancelled, or raises before it has saved.
GiveUp(e) ==
  /\ Loaded(e)
  /\ payload' = [payload EXCEPT ![e] = NotLoaded]
  /\ UNCHANGED <<file, mapped, saved>>

Next ==
  \E e \in Editors :
    \/ Load(e) \/ SetLine(e) \/ AddDevice(e) \/ RemoveLine(e) \/ RemoveDevice(e)
    \/ UpdateChannels(e) \/ Regenerate(e) \/ Render(e) \/ Interrupted(e) \/ GiveUp(e)

Spec == Init /\ [][Next]_vars

-----------------------------------------------------------------------------
(* Properties *)

\* Types: the file and what the editors hold are documents.
TypeOK ==
  /\ file \in Documents
  /\ mapped \in BOOLEAN
  /\ payload \in [Editors -> Documents \cup {NotLoaded}]
  /\ saved \in [Editors -> BOOLEAN] /\ \A e \in Editors : saved[e] => payload[e] # NotLoaded

\* Faults of what an operator enters, which the tools save as entered: no line, or
\* too many; a line with a value out of range; a SlaveID out of range or used by
\* two devices.
ForeseeableFault(doc) ==
  \/ Names(doc) = {} \/ ~Usable(doc)
  \/ \E b \in Names(doc) : ~doc.buses[b].valid
  \/ \E p \in doc.points : p.modbus_slave_id \notin 2 .. 247
  \/ \E p, q \in doc.points : p.modbus_slave_id = q.modbus_slave_id /\ ~SameDevice(p, q)

\* Whatever sequence of commands produced the file, the gateway accepts it but for
\* such a fault: the tools never give a device a number that is taken, leave
\* points of a line that is gone, mix the SlaveIDs of a device or overlap its
\* registers (add_trm138_device, remove_line, update_trm138_channels).
OnlyForeseeableFaults == ForeseeableFault(file) \/ Accepts(file)

\* A command that runs to its end leaves the map of what the file now holds, or the
\* file has a fault of what was entered, of which the rendering tells: with the file
\* written before it is validated, and whatever map, or none, commands that were cut
\* off and refused files left behind.  (Of one editor: of two, the one that renders
\* last may not be the one that saved last.)
MapFollowsTheFile ==
  [][Cardinality(Editors) = 1 =>
       \A e \in Editors : Render(e) => ForeseeableFault(file') \/ mapped']_vars

\* The devices of document doc, each as its line and number.
DevicesIn(doc) == {<<p.bus, p.device>> : p \in doc.points}
Changed(old, new) ==
  {k \in DevicesIn(old) \cup DevicesIn(new) : OfDevice(old, k[1], k[2]) # OfDevice(new, k[1], k[2])}

\* A command changes one device at most, unless it removes a line, and then only
\* the devices of that line.  (Of one editor: two of them overwrite each other.)
CommandsAreLocal ==
  [][Cardinality(Editors) = 1 =>
       \/ Cardinality(Changed(file, file')) <= 1
       \/ \E b \in Names(file) \ Names(file') : \A k \in Changed(file, file') : k[1] = b]_vars

\* Editing the channels of a device leaves its SlaveID alone.  (False of the code:
\* the lowest configured address is taken for the base address.)
ChannelEditsKeepSlaveID ==
  [][\A k \in DevicesIn(file) \cap DevicesIn(file') :
       \A p \in OfDevice(file, k[1], k[2]), q \in OfDevice(file', k[1], k[2]) :
         p.modbus_slave_id = q.modbus_slave_id]_vars

\* A document with a line under both of its names, which set_line makes of one
\* with the legacy name: it does not look for that name, and the new line hides
\* the old one.
HasHiddenLine(doc) == \E n \in Lines : {LineName(n), LegacyName(n)} \subseteq Names(doc)

\* Every device can be listed, edited and removed under some line number, on
\* lines of earlier documents as well (_resolve_bus_name).
DevicesAreReachable ==
  HasHiddenLine(file) \/ \A p \in file.points : \E n \in Lines : p.bus = ResolveBusName(file, n)
=============================================================================
