# OVEN → Modbus TCP gateway: specification, model checks and proofs

The gateway polls OVEN TRM138 controllers on one or two serial lines and shows their
readings, states and setpoints to Modbus TCP clients as holding registers. A client may
write a setpoint: the gateway sends it to the device, reads it back and confirms the write
or restores the registers. Beside it, command line tools edit the JSON configuration.

These modules model the program in `src/owen_gateway/`. `PROJECT.json` lists the runs, the
mutants, which lines each definition stands for, the findings and the hazards.

## 1. The parts of the system

| Part | Code | State it keeps | Operations | Module |
|---|---|---|---|---|
| Polling of a line | `service.py` `_poll_bus_loop`, `_poll_bus_once`, `_exchange_with_retries`, `_record_device_result` | a task per line and its local variables; `point_states`, `point_values`, `device_states`, `bus_statuses`, the `gateway_*` counters | read each point with retries, publish or count the failure, skip failed points, report device, line, gateway | `GatewayService` |
| Modbus writes | `service.py` `_handle_modbus_holding_write`, `_verify_written_value_locked` | a task per write: the request and the registers of before | refuse, write, read back up to three times, confirm or restore | `GatewayService`, which implements `Setpoint` |
| Line locks | `bus_locks`, an `asyncio.Lock` each | holder and queue | acquire, release, first come first served | `GatewayService` (`lock`) |
| Register store | `modbus_server.py` | holding registers of every SlaveID | publish, restore, write by a client (which starts a write task); allocate the blocks | `GatewayService` (`hr`), `RegisterMap` (sizes) |
| Logic units | `service.py` `_publish_logic_unit_masks`, `_evaluate_logic_unit` | `device_logic_masks` | LU1..LU8 of HR48 from readings, setpoint, hysteresis, characteristic | `LogicUnits` |
| Serial client | `serial_client.py` | the port and its input buffer | `exchange`, `exchange_write` in a worker thread; `connect`, `close` | `SerialLine`, which implements `Exchanges`; `Lifecycle` |
| OVEN codec | `protocol.py` | none | frames, CRC, parameter hash, payloads | `OwenFrame`, `StoredDot` |
| Register encoding | `encoding.py` | none | values to and from registers | `StoredDot`, `RegisterMap` (widths) |
| Start, shutdown | `service.py` `run`, `cli.py` `main` | ports opened so far, polling tasks | open the ports, poll, close down | `Lifecycle` |
| systemd units, watchdog | `deploy/linux` | whether the service is kept up; the watchdog's timer | start at boot and after an end, give up after too many starts, look for serial descriptors every minute, restart | `Lifecycle` |
| Configuration tools | `config_tools.py`, `cli.py` | the file, the document in memory, the map beside the file | set-line, add-trm138, remove-line, remove-trm138, set-trm138-channels, regenerate, menu | `ConfigTools` |
| Acceptance | `config.py` | `occupied` of the overlap rule | `load_config`, `validate_config` | `ConfigTools` (`Accepts`), `RegisterMap` |
| Probe, parameter table | `probe.py`, `trm138_parameters.py` | none | one diagnostic read | not modelled |

How they interact. All tasks run in one asyncio event loop, exchanges in worker threads.
A polling task and the writes of its line share the line through its lock, and all tasks
share the point states and the registers with no lock but the event loop itself: the code
between two suspension points (`await` that really waits) is atomic. Clients read registers
at any time and change them at once; the handler runs later. The tools share only the file
with the gateway.

What is hard: an answer used after the line was given to another task; a restore of older
registers over newer ones; answers that are lost, late, damaged or meant for another
request; a device that obeyed although its answer was lost; retries that queue again; two
polling tasks that update shared statuses and counters; points that rest after failures and
what a successful write does to that; hysteresis across all of these; and, for the line,
bytes that come late, cut or mixed with those of the next answer; for the process, starts
that fail half-way, ports that disappear and come back, and a watchdog that looks at any
moment; for the tools, sequences of legal commands on documents of an earlier version, the
order of saving and validating, and two editors. `hazards` in `PROJECT.json` lists them at their lines.

What makes each part correct: readings published and values confirmed are those in the
device; statuses agree with the points, lines and devices they sum up; every write is
answered, polling goes on, and the registers converge when the line does; a logic unit is
what its readings and its history say; an exchange returns an answer whole, once, or an
error, and always ends; a process polls all its lines or none, leaks no port, and comes back
when its adapters do; the points of an accepted configuration share no register; a sequence of commands leaves a configuration the
gateway accepts, and touches only what was named.

## 2. Modules and how they correspond to the code

### `LogicUnits`
The pure function `_evaluate_logic_unit`. Numbers are integers (the code compares floats;
only their order matters), and an unread value is `None`.

### `GatewayService`
State: `poll[b]` are the local variables of `_poll_bus_once` on line `b` (place in the
device and point lists, attempt, the reply, the failures of the device so far); `writes[w]`
those of one write handler; `lock[b]` the queue of the line's lock, head first; `running`
the polling task that holds the event loop between two actions of one atomic stretch;
`device[p]` the value the real device has; `point`, `value`, `mask`, `blocks`, `gateway`,
`busStatus` the fields of the service; `hr` the registers, in cells, one for each thing a
publish call writes (value, channel status, mask, line status, status and telemetry block);
`calm` is not in the code: after `Stabilise` the line works, nobody writes and no value
drifts, which states "from now on" for the liveness properties.

Actions, each the code between two suspension points or a part of it under `running`:

| Action | Code |
|---|---|
| `BeginCycle`, `SkipPoint`, `RequestPoint` | start of a cycle, of a point that rests, of a point's first attempt |
| `ThreadRead` | `exchange` in the worker thread: value, or one of `Faults` |
| `RetryAfterPause`, `EndOfPause`, `RetryAtOnce` | `except` branch of `_exchange_with_retries`, with and without delay |
| `PollValue`, `PollEmpty`, `PollTimeout`, `PollIOError`, `PollProtocolError` | the branches of `_poll_bus_once` after the reply |
| `EndDevice` | mask, device status, `_record_device_result` and all it publishes |
| `ClientWrite` | a client's write: `_ObservableDataBlock.setValues` |
| `RefuseWrite`, `QueueWrite` | no such point or not encodable; wait for the line |
| `ThreadWrite`, `ThreadReadback` | `exchange_write`; one readback attempt |
| `ConfirmWrite`, `RollBack` | the two ways out of the handler |
| `Drift`, `Stabilise` | the world |

`ThreadWrite` separates what the device did from what the gateway hears: the value may be
stored or not in every faulty outcome. `Faults` names what a run lets happen: `timeout`,
`crc` and `io` raise in the exchange (and are retried), `flag`, `hash`, `payload`, `empty`
come as frames the service looks at, `late` is the answer of another channel to the same
parameter, which no check of the code tells from the right one.

Not separate steps: `_state_lock` (held only over code without a suspension point);
publishing a value and its status (one stretch). Left out: time marks, logs, diagnostics.
`failures` is cut off at the limit it is compared with.

### `GatewayProperties`, `GatewayServiceProofs`, `SetpointProofs`, `StatusProofs`
The properties of the gateway, and the proofs of all that need no fairness: types, locks and
readings; the refinement of `Setpoint`; statuses, point health and counters; logic units.

### `Setpoint`: what a client is promised
The abstract specification of a writable register, without tasks, locks, frames or attempts.
`stored` is what the devices hold, `shown` what the registers show, `request[w]` what client
`w` asked for, how far it got (`none`, `asked`, `sent`) and what the registers showed before.
A request shows at once (`Ask`); it is refused or given up, and the registers show again what
they showed before (`Refuse`, `GiveUp`); or the device, which obeyed `Send` or not, is found
to hold the value within the tolerance, and the register shows what it holds (`Confirm`).
Polls refresh a register from the device, but not while a request for it is with the device.

`GatewayService` implements it. The mapping (`GatewayProperties`): `Stored` and `Shown` are
`device` and the value cells of the setpoints; `Request` is the request and the kept contents
of each write, restricted to setpoints, with the phase read off the task: `sent` from the end
of `ThreadWrite` on, `none` when the slot is free, else `asked`.

| Step of `GatewayService` | Step of `Setpoint` |
|---|---|
| `ClientWrite` | `Ask` |
| `RefuseWrite` | `Refuse` |
| `ThreadWrite` | `Send` |
| `ConfirmWrite` | `Confirm` |
| `RollBack` | `GiveUp` |
| `PollValue` of a setpoint | `Refresh` |
| the others | none |

`Setpoints` are the writable points that do not drift. A write of a writable point that does
drift asks for nothing of theirs; it stays `asked` and ends in `Refuse`, which then changes no
register of a setpoint.

### `SerialLine`, `Exchanges`, `SerialLineProofs`: the line under the exchanges
`Exchanges` is what the gateway relies on: one exchange after the other, each ends in an error
or with the answer to a request, and an answer is returned whole and once.
`SerialLine` is `exchange`, `exchange_write` and `_read_oven_response` on a stream of tokens:
the marker `#`, the two halves of an answer's body (which carry the request they answer),
CR, the `0x16` of a short acknowledgement, and noise. `Begin` drops what is in the input
buffer and sends; `ReadFirst` and `NothingRead` are the first read with the whole timeout;
`ReadChunk` and `ReadNothing` the loop, with `response`, `empties` and `buffer` as in the code;
`DecodeResponse` normalises and decodes; `PortRaises` is any call on the port that raises.
Of the world, `DeviceAnswers` lets a device answer any request it was sent, in time or long
after, `Arrive` brings a token whole, damaged or not at all, and `Disturb` brings one nobody
sent. `clean` is not in the code: it says that an exchange had the line to itself and its
answer came without a gap, which is the precondition of `CleanExchangesSucceed`.
Tokens are enough because `decode_frame` accepts nothing but a frame with its markers, length
and CRC right, which is what `OwenFrame` checks on real symbols.

### `OwenFrame`, `StoredDot`, `MCFormats`, `FormatProofs`: frames and values
`OwenFrame` has the CRC (a set of bit positions, the last of the registers a row of bits leads
through, `CrcOfBits`), the hash of a parameter name, `EncodeFrame`, `DecodeFrame` and
`NormalizeResponse`. `StoredDot` has the
packed decimal of setpoints, the 16-bit integers of payloads and of registers; floats are
decimals with three places. `MCFormats` picks a frame and damages one place of it, or picks a
value and writes it to a device that repeats what it was sent, and states the round-trip
properties. `MCSerial` holds the hashes and payloads that `tests/test_owen_protocol.py` gives, as
assumptions TLC evaluates; no proof uses them.

### `RegisterMap`
The loop of `validate_config` that refuses points whose registers overlap, one point per step
and in any order (`AcceptPoint`, `RefusePoint`, with `occupied` as in the code), for points of any
width with time marks and channel status registers anywhere; and `_calc_size`, the size of the
block the store allocates for what was accepted.

### `Lifecycle`, `LifecycleProofs`
The process and what restarts it. `opened` is the length of `started_buses`, `port[b]` whether
the process has a descriptor for the line, and whether its adapter has gone since (`stale`);
`task[b]` and `thread[b]` the polling task and its exchange in a worker thread; `shown[b]`
whether the line status register says the line is up. `OpenPort`, `OpenFails` and `CreateTasks` are `run()` up
to the polling, `BeginExchange`, `ThreadEnds` and `Publish` a poll, `TaskRaises` an exception
outside its handlers, `CloseDown` the `finally`, `Exit` the end of `asyncio.run`. A failed
`connect()` may leave its port open.

`wanted` says that systemd keeps the service up, `watch` where the watchdog's unit is: `waiting`
for its minute, `due`, or `looking`. `SystemdStarts` is `Restart=always`, `StartLimitHit` the end
of it after too many starts in a few seconds. `TimerFires` starts the watchdog's unit, and by its
`Requires=` a gateway that is down; `WatchdogPasses` and `WatchdogRestarts` are the script, which
restarts a process with no serial descriptor or with a deleted one. That restart goes back by
the same `Requires=` to the watchdog's unit, which looks again: at once, at a process that may
have no port open yet, or in a minute, when systemd allows it no further start; or the gateway
itself has been started too often and is given up. Operator and adapters do what they like until
`Settle`, which is not in the code and means that from then on all adapters stay plugged in,
nothing raises, and the operator leaves the service as it is, started or not.

### `ConfigTools`, `ConfigProofs`
State: `file` (lines, channel records), `mapped` (the map beside the file was rendered from
what it holds, which may be so at first or not), `payload[e]` the document in the memory of editor `e`,
`saved[e]` when it has been written and its map is still to be rendered. One action per
command: `Load` reads, `SetLine`, `AddDevice`, `RemoveLine`, `RemoveDevice`,
`UpdateChannels` and `Regenerate` edit the loaded document and write it (`Save`), `Render` is
the second half of each: it resolves and validates the document, and raises if it is refused;
`Interrupted` is the end of the process in between. Between any two of them another editor may
act. Of a line, `port` and `valid`: whether poll interval, retries, delay, slave base and serial
settings, which `set_line` saves as they were entered, are all in the ranges of `validate_config`. A channel record is the three points (`rEAd`, `C.SP`, `AL.t`) the
tools always add and remove together. `Accepts` is `validate_config` with its rules on the values
of a line as that one bit, and without the rules on what the tools write for every point alike
(types, formats, registers) and on the sections they leave as they are (Modbus, status,
telemetry, health).

`ConfigProofs` holds the theorems of this module and of `RegisterMap`.

### `NumberLemmas`
Facts the proofs of several modules share: least and greatest elements of sets of naturals,
remainders, and sums over a finite set.

### `MC*` modules
Each gives the constants of one instance and says in its head what the instance is. Two of
them hold two independent questions in one state space, one after the other instead of
multiplied: `MCSerial` starts with a line nobody has used and then either exchanges on it or
picks a frame or a value; `MCConfig` starts with a file and then either edits it or reads
points written by hand. Either part leaves the variables of the other as they were.

## 3. Runs

| Run | Instance | Shows |
|---|---|---|
| `writes` | 1 line, 1 writable point, 2 writes in flight, two values and a refused request; timeouts, bad flags | `TypeOK`, `LinesAreHeld`, `ReadingsAreCurrent`, `ImplementsSetpoint`; 1.2 M states, 100 s |
| `health` | 1 device, 2 points, all faults but `late`, 1 retry with pause, fails after 2, rests 2 cycles; a client that writes over a channel status register | `HealthIsConsistent`, `StatusesAreDeserved`; 4 M states, 80 s |
| `lines` | 2 lines polled concurrently, counters modulo 2; a client that writes over a line status register | `AggregatesAgree`, `CountersAgree`; 1.1 M states, 40 s |
| `logic` | channel with reading, setpoint, hysteresis 1, characteristic 1 or 4 and setpoint writes; empty payloads | `MaskFitsReadings`, `NoChatter`; 2 M states |
| `live` | 1 line, measurement and setpoint, 1 write at a time, timeouts, 1 retry without pause | `WritesAreAnswered`, `PollingGoesOn`, `Recovers` |
| `config` | 1 editor, 2 line numbers, 2 base addresses, channels {1}, {2}, {1,2}, empty file or legacy file; or up to 3 points by hand, of widths 1 and 2, with and without marks and status, in two kinds of register; lines with values in range or not; commands cut off before the map | `TypeOK`, `OnlyForeseeableFaults`, `MapFollowsTheFile`, `DevicesAreReachable`, `CommandsAreLocal`; `CellsAreApart`, `EveryRegisterFits`; 208 000 states |
| `serial` | 2 exchanges, reads or writes; or one frame with any one place damaged, or one of about 300 values | `LineTypeOK`, `ImplementsExchanges`, `CleanExchangesSucceed`, `ExchangesEnd`; `DamageIsNoticed`, `LongWritesReadBack`; 2 M states, 180 s |
| `lifecycle` | 2 lines | `AllLinesOrNone`, `LeaksEndWithTheProcess`, `PollingResumes`; 3666 states |

The other four runs are expected to fail: each checks one statement of the project's own
documents or tests that the code does not keep (section 5).

Bounds, and why they are enough. *Writes in flight* (`WriteIds`): two, the least for a
write to find another's value and to queue behind it. *Values*: two per point, enough to
tell old from new; for the logic unit, readings on both sides of and inside the dead band
of both setpoints. *Verify attempts*: 2 for 3; *failures to failed*: 1 or 2 for 10; *cycles
of rest*: 0 to 2 for 4 (`RecoveryPollIntervalCycles` less one): the code compares and counts
down in the same way whatever the number. *Tolerance* (`FLOAT_VERIFY_TOLERANCE`): 0, the values being one apart; the
theorems hold for any. *Counters*: modulo 1 where no property of the run is about them (they
are then constant), 2 where one is. `COUNTER_MODULUS = 1` in `writes` makes the first step of
a counter the wrap. *Lines*: two, the maximum of the program. The tasks of different lines
share nothing but statuses and counters, so the runs on readings and writes need one line
only. `writes` uses the symmetry of interchangeable writes, which is sound for its safety
properties; it checks no liveness.

*Exchanges* (`MaxExchanges`): two, the least for a late answer to meet another request.
*`ReadLimit`*: 5 for the 128 bytes, one more than the four tokens of a frame, so that an
answer with a token of another in front is cut. *`EmptyReads`*: 2, as in the code.
*`MaxWaiting`*: 2 tokens in the input buffer, so that a read brings part of an answer or all
there is; *`MaxIncoming`*: a second answer is sent once at most one token of the first is
left on the line. *Points by hand* (`MaxSeen`): three, so that one of them meets the union of
two others; addresses lie around the reserved registers, and 10 stands for HR48.
*`MaxAddress`*: bounds how far base addresses move by edits. *`MAX_DEVICES_PER_BUS`*: 2, so
that the limit is met. *Editors*: one; the module allows more, the properties on changes and
on the map are claimed of one.

`CHECK_DEADLOCK FALSE` stands in the configurations of `config`, `serial`, `slave_id_moves`
and `stored_dot` only: there the bounds end a behaviour (no exchange, frame, value or point
is left).

Fairness. `FairSpec` of `GatewayService` (`live`): strong fairness of each polling task and of
each write task as a whole. asyncio resumes ready tasks in turn, an exchange ends at the
serial timeout, `asyncio.Lock` wakes waiters in order; strong, since a task is ready only in
the moments the event loop is free. The world (`ClientWrite`, `Drift`, `Stabilise`) is not
fair: faults may never end, and only `Recovers` speaks of the case in which they do.
`LineFairness` (`serial`): weak fairness of the client, as a read of the port returns by its
timeout; nothing is assumed of devices or line, so `ExchangesEnd` holds under noise without
end. `LifeFairSpec` (`lifecycle`): weak fairness of `run()` and its tasks, of threads (the
timeout), of systemd, of the watchdog's timer, its script and the minute between two looks.
Nothing is fair in operator and adapters; `PollingResumes` speaks of the time after `Settle`. It
also assumes that the watchdog cuts a start short (`CutsAStartShort`) finitely often. This
is an assumption about durations that nothing in the units guarantees: without it TLC shows the
watchdog and systemd restarting the gateway for ever (section 5).

Every property has a mutant, a change such as an actual bug would be (a lock that does not
order, readbacks that are not counted, a status aggregated before it is stored, a device number that
counts instead of searching, an input buffer that is not reset, a line left out of a start),
under which the run finds the property violated.

## 4. Proofs

All are for every value of the constants that meets the assumptions named in the modules.

**Tasks and lines** (`GatewayServiceProofs`; `ConfigAssumption`, `ModelAssumption`,
`NoneAssumption`):

- `TypesHold`: `Spec => []TypeOK`
- `LinesHold`: `Spec => []LinesAreHeld`
- `ReadingsStayCurrent`: `Spec => []ReadingsAreCurrent`

The argument. Neither of the last two is inductive without types, since a task must be known
to stand at an existing point, and `ReadingsAreCurrent` is not inductive without
`LinesAreHeld`. So the invariant is `IInv`, the conjunction of the three. `InvInit` and
`InvStep` (with `TypeStep`, `LinesStep`, `CurrentStep`, each with a lemma per action) show it
inductive. Locks: a step of one task leaves the place of another in a queue alone
(`PollKeepsLines`, `WriteKeepsLines`), as joining is at the tail (`QueueBehind`) and only the
head leaves. Readings: only `ThreadWrite` and `Drift` change a device; a writer of point `p`
holds the line of `p`, the head of a queue is one task (`OneHolder`), so no other task holds
an unused answer from that line (`WriteDisturbsNobody`).

The assumptions are what `load_config` leaves (a point lies on the line of its device, a
writable point is published, limits are positive) and that the model values differ.

**Refinement** (`SetpointProofs`):

- `GatewayImplementsSetpoint`: `Spec => ImplementsSetpoint`, if `NoStrayAnswers`

The invariant is `SInv`: `IInv`, that a free slot keeps nothing of the write before
(`FreeIsEmpty`, so that a finished request is `Nothing` again), and that a verified write has
read a value that fits (`VerifiedFits`). Each action has a lemma that maps it as in the table
of section 2. The two that need more than their own text are `Send` and `Refresh`, which must
find no request for the point with the device: such a request is a write that holds the line
(`BusyHolds`), as do the writer and the polling task that take the step, and the head of a
queue is one task. `Confirm` is where `ReadingsAreCurrent` and the tolerance enter: what was
read back is still in the device when it is confirmed. The hypothesis is needed: see the first
divergence of section 5.

**Statuses, health and counters** (`StatusProofs`; `ListingAssumption` besides those above):

- `AggregatesHold`: `Spec => []AggregatesAgree`
- `HealthHolds`: `Spec => []HealthIsConsistent`
- `StatusesHold`: `Spec => []StatusesAreDeserved`
- `CountersHold`: `Spec => []CountersAgree`

`ListingAssumption` is what `_group_points_by_bus_device` makes of a configuration: finitely
many devices, each with points and on some line, every point in one place of one device, and
points told apart by their names (see the last divergence of section 5).

The four invariants. *Aggregates*: `ReportsAgree` adds that the register of a device shows the
status its line is aggregated from; `EndDevice` of one line reads the status of the other, and
is right as nothing of it is kept over a suspension.
*Health*: `HealthIsConsistent` is inductive only with `RestsUnpolled`, that a point under
exchange has no cycles of rest left, else a success would leave it resting and healthy.
*Statuses*: while a device is polled its status is an old one, so `CountInv` follows the task: `Counted` says what its counts `failed` and `protocol` tell of the points it is done
with (none failed, all did, some did), and is kept by a confirmed write of such a point, which
can only mend it (`Mends`); `EndDevice` makes a status of the counts, and from then on
`Deserved` relates that to the points. *Counters*: `CounterInv` says of each field that
the gateway's counter is the remainder of the sum of the devices' counters. Every action that
counts moves one device and the gateway alike (`MovesTogether`), or neither; when one term of a
sum moves, the sum moves by as much (`OneTermMoves`), and both wrap together as they wrap at
the same modulus (`WrapsTogether`). That the fold in `Total` is the sum it looks like is
`PartialsExist`: the function on all subsets, built up one cardinality at a time. The timeouts
are counted under `"io" \notin Faults`, for which the invariant adds that no reply is an I/O error.

**Logic units** (`StatusProofs`; the same assumptions):

- `MasksFit`: `Spec => []MaskFitsReadings`
- `NeverChatters`: `Spec => NoChatter`

`MaskInv` says that HR48, unless a client has written to it, shows the mask at any time, polled
or not, and that the mask fits the readings when the device is not polled. It is kept because a second evaluation of a unit with
the same readings changes nothing, so that the mask just computed fits, and because a confirmed
write evaluates again after it has changed a reading. `PointAt`, a `CHOOSE` of the last
point of a channel, needs `GreatestUpTo` to be one. `NeverChatters` is the dead band as a lemma
on integers (`HeldInDeadBand`), for either characteristic, applied to the two steps that set a mask.

**Line** (`SerialLineProofs`; `LineAssumption`):

- `LineTypesHold`: `LineSpec => []LineTypeOK`
- `ExchangesImplemented`: `LineSpec => ImplementsExchanges`
- `CleanHolds`: `LineSpec => CleanExchangesSucceed`

`TokenInv` looks at one stream: what was read, then the input buffer, then what is on the line.
The second half of an answer's body is in it at most once, and not at all if a device still
owes the answer or an exchange has returned it. So an answer that decodes has not been returned
before, and cannot be again. For `CleanExchangesSucceed`, the stream of a clean exchange
is its answer and nothing else, or empty while the device owes it (`OnlyItsAnswer`). `ReadLimit` is at least the four tokens of an
answer: the longest frame has 44 symbols, the limit of the code is 128.

**Frames** (`FormatProofs`; no assumptions):

- `BurstsAreNoticed`: two rows of symbols, of any length, whose CRCs fit and that differ within
  four successive symbols are the same row: the CRC finds every burst of up to sixteen bits
- `FramesReadBack`: `DecodeFrame` of `EncodeFrame` is the frame, for every address of 11 bits,
  either direction, every hash and every payload of up to 15 bytes
- `DamagedFramesAreRefused`: such a frame with a symbol changed or lost, two neighbours
  swapped or its end cut off is refused, or has lost its CR only and is read as sent
- `DamageHolds`: `FormatSpec => []DamageIsNoticed`

The argument. Each step of the CRC can be taken back: bit 0 of the polynomial is set, so bit 0
of the register tells whether the step added the polynomial (`StepBack`). A register fed with
its own bits runs empty (`RunsEmpty`), so a row whose CRC fits ends with an empty register
(`FitsToZero`). Two such rows that differ in one burst have the same register before it, as they begin
alike (`SameBeginning`), and behind it, taking the steps back from the end (`SameEnd`). In
between there are at most sixteen steps, and what two registers agree on in their lowest bits
shows, step for step backwards, that they made the same feedbacks: so they read the same bits
(`BurstsAreSeen`). Existence and range of the registers are shown on the least place where
they could fail (`HashesExist`, `HashesAre`), which needs no induction theorem.

A frame then is its shape: markers, header, hash, payload and CRC at their places (`FrameShape`),
and `DecodeFrame` refuses all else (`AcceptedIs`). A changed symbol or two swapped neighbours
are a burst, or touch a marker (`SameLengthIsSafe`). A frame without one of its symbols has an odd
number of them between the markers, unless the missing one is a marker (`LostSymbol`). A frame
cut off and given a new end has another length than its header says (`CutEnd`), for which the CRC
is not needed. A swap never restores a CR, as no symbol between the markers is one.

**Values** (`FormatProofs`; `RefusedAssumption`, that an error is no number):

- `StoredDotReadsBack`: of all numbers of up to three decimal places that can be encoded as
  stored_dot, exactly those of more than one byte read back as themselves; `stored_dot` (section 5) is the other half
- `IntegersReadBack`: all 16-bit integers read back, from payloads and registers
- `LongWritesHold`: `FormatSpec => []LongWritesReadBack`

They rest on division with remainder: `Split` takes a packed number apart, `PackUnpack` does it
for each of the three layouts.

**Process** (`LifecycleProofs`; `LinesAssumption`):

- `RunningIsComplete`: `LifeSpec => []AllLinesOrNone`
- `NoLeakStays`: `LifeSpec => []LeaksEndWithTheProcess`

`LifeInv` adds to types and the leak property that a process that is down has no port and no
task (`NothingDown`), that the ports of the started lines are open until the `finally`
(`StartedAreOpen`) and that in the running phase all lines are started and all tasks poll
(`AllPoll`); steps fall into a fresh start (`Afresh`), those that leave the process alone, and
those of `run()`.

**Acceptance and register blocks** (`ConfigProofs`; `MapAssumption`):

- `AcceptedPointsAreApart`: `MapSpec => []CellsAreApart`
- `RegistersHaveRoom`: `MapSpec => []EveryRegisterFits`

`MapInv` says that `occupied` is exactly what the accepted points of a block take, with the
reserved registers once there is one (`OccupiedIsExact`), that a refusal had its reason
(`RefusedWithReason`) and that accepted points are apart (`PointsApart`). The size of a block is
the greatest of the needs of finitely many points, so it exists (`GreatestExists`).

**Configuration tools** (`ConfigProofs`; `ConfigToolsAssumption`, `FirstDocumentsAssumption`):

- `ToolsTypesHold`: `Spec => []TypeOK`
- `FaultsAreForeseeable`: `Spec => []OnlyForeseeableFaults`
- `DevicesCanBeReached`: `Spec => []DevicesAreReachable`
- `MapIsOfTheFile`: `Spec => MapFollowsTheFile`
- `CommandsStayLocal`: `Spec => CommandsAreLocal`

`ToolsInv` says that the file and every document in memory are `Consistent`: well formed, the
points on lines the document has, the points of a device under one SlaveID and on
different channels. It holds for any number of editors, as the document that overwrites the
file is itself consistent. A new device gets the least number not taken, which exists since fewer numbers are
taken than there are (`LeastExists`). A consistent document has no fault but those of what was
entered (`ConsistentIsAccepted`). The last two theorems need a single editor
(`OneEditorInv`: the document in memory is the file's). `FirstDocumentsAssumption`: the tools
start with a file that is accepted or has no points.

Only model-checked. *Liveness* (`WritesAreAnswered`, `PollingGoesOn`, `Recovers`,
`ExchangesEnd`, `PollingResumes`): under fairness, whose proofs need `ENABLED`, which the proof
system does not reason about. The hashes and payloads of the tests: assumptions TLC evaluates.
All safety and action properties of the passing runs, and both refinements, are theorems.

## 5. What the code does otherwise than its documents say

| Run | What happens |
|---|---|
| `failed_status` | a confirmed write clears a failed point's failures but not its rest: the next cycles publish "failed" again and degrade the device |
| `unconfirmed` | two writes to one setpoint that both fail: the second restores the value of the first, which nothing ever confirmed |
| `slave_id_moves` | editing the channels of a device without channel 1 moves its base address and SlaveID |
| `stored_dot` | a setpoint whose mantissa is below 16, such as 0.0 or 1.1, is sent in one byte, which `decode_payload` reads as another value: the readback cannot confirm it |

Divergences without a run of their own, which the properties leave room for:

- `CHANGELOG_RU.md:7-8` says a write is confirmed by the actual value of the device. A readback
  is accepted whatever its parameter hash or address (`service.py:621-626`), so a late answer
  to another request can confirm a write the device refused. `ReadingsAreCurrent` and
  `ImplementsSetpoint` are therefore claimed under `NoStrayAnswers`; `ImplementsExchanges`
  bounds what a late answer can be.
- A poll compares the parameter hash and no address, so a late answer of
  another channel to the same parameter passes for this channel's (the `late` fault).
- `HR4` of SlaveID 1 is called the aggregated timeout counter; an I/O error
  (`service.py:361-364`) counts there and for no device. `CountersAgree` claims the sum only
  without I/O errors.
- A device that answers every request with a protocol error reads as `3`, "no answer", in the
  cycles in which all its points rest, as these count as failures and not as protocol failures
  (`service.py:199`, `380-383`). `StatusesAreDeserved` allows it.
- `MULTI_LINE_GATEWAY.md:3` speaks of up to four independent lines. `MAX_BUSES` is 2
  (`config.py:39`), and one adapter that is missing at the start keeps all lines down, at every
  restart (`service.py:126`): `AllLinesOrNone` says so, `PollingResumes` needs all adapters.
- A port that goes stale is not opened again by the gateway; until the watchdog looks, its
  line is reported as failing.
- The gateway writes OFFLINE to all its statuses on its way out (`service.py:153`), and a polling
  task that has not ended may publish over it while `run()` waits for the Modbus server.
- A Modbus port that cannot be bound ends the server's task unnoticed; the gateway then polls for
  nobody, and the watchdog, which looks at serial descriptors only, leaves it alone.
- The watchdog's unit has `Requires=` on the gateway: its timer starts a gateway the operator
  has stopped (`TimerFires`).
- `README.md:200-202` has the watchdog check once a minute and restart the gateway when needed.
  `gate-watchdog.sh:22,28` calls `systemctl restart`, which restarts every unit that has
  `Requires=` on the gateway, the watchdog's own among them
  (`owen-gateway-watchdog.service.template:3-4`). The script so looks again as soon as the
  gateway's process exists (`Type=simple`), finds no serial descriptor if no port is open yet, and
  restarts it, and so on until one start is fast enough or the start limit of systemd ends it;
  and the same after a minute, when the timer starts both units again. `PollingResumes` assumes
  that this comes to an end.
- `set_line` does not look for the legacy name of a line (`bus1` for `line1`), which the other
  tools accept (`tests/test_config_tools.py:408`): it adds a `line1` that hides the devices of
  `bus1` from them. `DevicesAreReachable` leaves such documents out.
- The tools save a document before they validate it (`cli.py:192-193`): one with, say, two
  devices of one SlaveID is saved, the gateway does not start with it, and the map beside it is
  the one of before. `MapFollowsTheFile` excepts such faults. A command that ends between
  the two leaves the map of before as well, until the next one.
- `set-line` checks nothing of what is entered for a line (`cli.py:55-65`, `325-336`):
  `--slave-base 1`, `--poll-interval-ms 0`, `--timeout-ms 0` or `--request-retries -1` is saved,
  and `validate_config` (`config.py:156-168`) refuses the file. `ForeseeableFault` counts it among
  the faults of what was entered.
- `add_trm138_device` refuses an OVEN address that another device of the line has;
  `update_trm138_channels` does not look, and neither does `validate_config`.
- `validate_config` reserves the status and telemetry registers and not HR48, so a point of a
  file written by hand may lie on the mask. `CellsAreApart` speaks of what is reserved.
- The channel status and the time mark of a point that is not published are written all
  the same, and `_calc_size` does not count them. `EveryRegisterFits` leaves them out.
- `validate_config` does not ask that point names differ, while the gateway keeps health and
  value of a point under its name (`service.py:81`): two points of one name would share them.
  The model has one point per name (`ListingAssumption`).

## 6. Plan

Done: `LogicUnits`, `GatewayService`, its properties, the abstract `Setpoint` with the refinement
checked and proved; `ConfigTools`; `RegisterMap`, `Lifecycle` with theorems; `SerialLine` with
its abstract `Exchanges`; `OwenFrame` and `StoredDot`, with theorems on the CRC and the formats.

All safety properties and action properties of the passing runs are theorems.

Next: documents with a single unnamed line.

## 7. What is not modelled

pymodbus and its TCP server, with coils, input registers and what it does with a port it
cannot bind; durations (a timeout is an outcome, a minute is a step); time marks; 32-bit
words, `float32` and raw payloads, which are what Python's `struct` makes of them; frames with a
parameter index beyond the payload bytes it adds; the Modbus RTU helper of the probe, the probe itself and
the parameter table, which keep no state and touch neither registers nor file; the
texts of summaries and maps, prompts and parsing of the command line; legacy documents with a
single unnamed line; `export-config`; a crash in the middle of a save (the program has no
recovery to check); the installer and the wrappers of the menus.

Of the gateway's exceptions, two are left out. A value that cannot be encoded is a protocol error
in the model; an infinity read for an integer register raises `OverflowError` in the code, which the
last `except` of a poll counts as an I/O error (`service.py:347-365`). And the end of a confirmed
write, after the point state has been cleared (`service.py:563-572`), is taken not to raise: in the
code, an exception of the publication or of the mask there goes to the handler's `except`, which
restores the registers of a write the device has obeyed.
