----------------------------- MODULE Lifecycle ------------------------------
(***************************************************************************)
(* The gateway as a process: run() of service.py from its start to the end *)
(* of asyncio.run, the serial ports it opens and closes, the adapters that *)
(* come and go, and the systemd units and the watchdog script that restart *)
(* it (deploy/linux).                                                      *)
(*                                                                         *)
(* What a poll does on a working line is GatewayService's; here a poll     *)
(* only reaches its line or does not.                                      *)
(***************************************************************************)
EXTENDS Integers, Sequences

CONSTANT Lines   \* config.buses, in its order

Buses == {Lines[i] : i \in DOMAIN Lines}

\* validate_config: there is a line, and no two have one name.
ASSUME LinesAssumption ==
  /\ Lines \in Seq(Buses) /\ Lines # <<>>
  /\ \A i, j \in DOMAIN Lines : Lines[i] = Lines[j] => i = j

VARIABLES
  adapter,   \* [Buses -> BOOLEAN]: the USB adapter of the line is plugged in
  wanted,    \* systemd keeps the service up: it was started, and neither stopped
             \* nor given up since
  phase,     \* of the process: "down"; "starting" up to the polling tasks;
             \* "running"; "closing": an exception reached the finally of run();
             \* "stopping": run() waits for the Modbus server to end
  opened,    \* len(started_buses): the first lines of the configuration
  port,      \* [Buses -> ...]: "closed", "open", or "stale": the adapter it was
             \* opened on has gone, its descriptor is one of a deleted device
  task,      \* [Buses -> ...]: polling task: "none", "polling", "ended"
  thread,    \* [Buses -> ...]: the exchange of its worker thread: "none", "busy",
             \* "answered", "raised"
  shown,     \* [Buses -> BOOLEAN]: the line status register says the line is up
  watch,     \* the watchdog's unit: "waiting" for its minute, "due", "looking"
  settled    \* not in the code: from now on the world outside is quiet

lifeVars == <<adapter, wanted, phase, opened, port, task, thread, shown, watch, settled>>

Everywhere(x) == [b \in Buses |-> x]
Process == <<phase, opened, port, task, thread, shown>>
Systemd == <<wanted, watch>>
World == <<adapter, settled>>

LifeInit ==
  /\ adapter \in [Buses -> BOOLEAN]
  /\ wanted = TRUE /\ phase = "down" /\ opened = 0
  /\ port = Everywhere("closed") /\ task = Everywhere("none") /\ thread = Everywhere("none")
  /\ shown = Everywhere(FALSE)
  /\ watch = "due" /\ settled = FALSE

\* The process is gone, and with it its descriptors, threads and registers.
Gone ==
  /\ phase' = "down" /\ opened' = 0
  /\ port' = Everywhere("closed") /\ task' = Everywhere("none") /\ thread' = Everywhere("none")
  /\ shown' = Everywhere(FALSE)

-----------------------------------------------------------------------------
(* The process *)

\* run() up to the first port: registers, all lines OFFLINE.
Started ==
  /\ phase' = "starting"
  /\ UNCHANGED <<opened, port, task, thread, shown>>

NextLine == Lines[opened + 1]

OpenPort ==
  /\ phase = "starting" /\ opened < Len(Lines) /\ adapter[NextLine]
  /\ port' = [port EXCEPT ![NextLine] = "open"]
  /\ opened' = opened + 1
  /\ UNCHANGED <<phase, task, thread, shown, Systemd, World>>

\* Faulty: a line without its adapter is left out.
LeaveLineOut ==
  /\ opened' = opened + 1
  /\ UNCHANGED <<phase, port>>

\* Faulty: the port is tried again, and again, beside the one left open.
KeepTrying ==
  /\ port' \in {port, [port EXCEPT ![NextLine] = "open"]}
  /\ UNCHANGED <<opened, phase>>

\* connect() raises: there is no such port; or it was opened and its buffers
\* cannot be reset, which leaves it open and not among the started ones.
ConnectRaises ==
  /\ phase' = "closing"
  /\ port' \in {port, [port EXCEPT ![NextLine] = "open"]}
  /\ UNCHANGED opened

OpenFails ==
  /\ phase = "starting" /\ opened < Len(Lines)
  /\ ~adapter[NextLine] \/ ~settled
  /\ ConnectRaises
  /\ adapter[NextLine] \/ port' = port
  /\ UNCHANGED <<task, thread, shown, Systemd, World>>

CreateTasks ==
  /\ phase = "starting" /\ opened = Len(Lines)
  /\ phase' = "running"
  /\ task' = Everywhere("polling")
  /\ UNCHANGED <<opened, port, thread, shown, Systemd, World>>

\* A polling task sends its exchange to a thread.  Tasks that have not ended go on
\* while run() closes down.
BeginExchange(b) ==
  /\ phase \in {"running", "stopping"} /\ task[b] = "polling" /\ thread[b] = "none"
  /\ thread' = [thread EXCEPT ![b] = "busy"]
  /\ UNCHANGED <<phase, opened, port, task, shown, Systemd, World>>

\* The thread ends by the timeout of the port at the latest.
ThreadEnds(b) ==
  /\ thread[b] = "busy"
  /\ thread' = [thread EXCEPT ![b] = IF port[b] = "open" THEN "answered" ELSE "raised"]
  /\ UNCHANGED <<phase, opened, port, task, shown, Systemd, World>>

\* The task publishes what came of the cycle, also when its port is closed.
Publish(b) ==
  /\ phase \in {"running", "stopping"} /\ task[b] = "polling"
  /\ thread[b] \in {"answered", "raised"}
  /\ shown' = [shown EXCEPT ![b] = (thread[b] = "answered")]
  /\ thread' = [thread EXCEPT ![b] = "none"]
  /\ UNCHANGED <<phase, opened, port, task, Systemd, World>>

\* An exception outside the handlers of a poll, as in the computation of a mask:
\* gather raises it in run(), and the other tasks are not cancelled.
TaskRaises(b) ==
  /\ ~settled /\ phase = "running" /\ task[b] = "polling"
  /\ thread[b] \in {"answered", "raised"}
  /\ task' = [task EXCEPT ![b] = "ended"]
  /\ thread' = [thread EXCEPT ![b] = "none"]
  /\ phase' = "closing"
  /\ UNCHANGED <<opened, port, shown, Systemd, World>>

\* The finally of run(), up to the wait for the Modbus server.
CloseDown ==
  /\ phase = "closing"
  /\ shown' = Everywhere(FALSE)
  /\ port' = [b \in Buses |-> IF \E i \in 1 .. opened : Lines[i] = b THEN "closed" ELSE port[b]]
  /\ phase' = "stopping"
  /\ UNCHANGED <<opened, task, thread, Systemd, World>>

\* asyncio.run cancels the tasks that are left and waits for their threads.
Exit ==
  /\ phase = "stopping" /\ \A b \in Buses : thread[b] # "busy"
  /\ Gone
  /\ UNCHANGED <<Systemd, World>>

-----------------------------------------------------------------------------
(* systemd, watchdog and operator *)

\* Restart=always, and the start at boot.
SystemdStarts ==
  /\ phase = "down" /\ wanted
  /\ Started
  /\ UNCHANGED <<Systemd, World>>

\* Too many starts in a few seconds: systemd gives the service up.
StartLimitHit ==
  /\ ~settled /\ phase = "down" /\ wanted
  /\ wanted' = FALSE
  /\ UNCHANGED <<Process, watch, World>>

\* The timer runs the watchdog's unit, which has Requires= and After= on the gateway:
\* one that is down is started first, and the script looks at it at once.
TimerFires ==
  /\ watch = "due"
  /\ watch' = "looking" /\ wanted' = TRUE
  /\ IF phase = "down" THEN Started ELSE UNCHANGED Process
  /\ UNCHANGED World

\* Faulty: only a gateway without any descriptor is restarted.
NoDescriptor == \A b \in Buses : port[b] = "closed"

\* What gate-watchdog.sh looks for: no serial descriptor, or a deleted one.
NeedsRestart == (\A b \in Buses : port[b] = "closed") \/ (\E b \in Buses : port[b] = "stale")

\* systemctl restart kills the gateway by SIGTERM, which no handler of run() sees, and
\* starts it.  It restarts the watchdog's unit as well, by its Requires=: the script
\* looks again, and may do so before the new process, started when it exists
\* (Type=simple), has opened a port.  Either unit may be started too often for systemd.
WatchdogRestarts ==
  /\ watch = "looking" /\ phase # "down" /\ NeedsRestart
  /\ \/ /\ phase' = "starting" /\ opened' = 0
        /\ port' = Everywhere("closed") /\ task' = Everywhere("none")
        /\ thread' = Everywhere("none") /\ shown' = Everywhere(FALSE)
        /\ watch' \in {"looking", "waiting"}
        /\ UNCHANGED wanted
     \/ /\ phase = "starting" \/ ~settled
        /\ Gone
        /\ wanted' = FALSE /\ watch' = "waiting"
  /\ UNCHANGED World

\* The gateway is not active, or its descriptors are healthy.
WatchdogPasses ==
  /\ watch = "looking" /\ (phase = "down" \/ ~NeedsRestart)
  /\ watch' = "waiting"
  /\ UNCHANGED <<Process, wanted, World>>

WatchdogChecks == WatchdogRestarts \/ WatchdogPasses

Minute ==
  /\ watch = "waiting"
  /\ watch' = "due"
  /\ UNCHANGED <<Process, wanted, World>>

\* systemctl stop, which by Requires= ends a run of the watchdog as well.
OperatorStops ==
  /\ ~settled /\ wanted
  /\ wanted' = FALSE
  /\ Gone
  /\ watch' = IF watch = "looking" THEN "waiting" ELSE watch
  /\ UNCHANGED World

OperatorStarts ==
  /\ ~settled /\ phase = "down" /\ ~wanted
  /\ wanted' = TRUE
  /\ Started
  /\ UNCHANGED <<watch, World>>

Unplug(b) ==
  /\ ~settled /\ adapter[b]
  /\ adapter' = [adapter EXCEPT ![b] = FALSE]
  /\ port' = [port EXCEPT ![b] = IF @ = "open" THEN "stale" ELSE @]
  /\ UNCHANGED <<phase, opened, task, thread, shown, Systemd, settled>>

Plug(b) ==
  /\ ~adapter[b]
  /\ adapter' = [adapter EXCEPT ![b] = TRUE]
  /\ UNCHANGED <<Process, Systemd, settled>>

Settle ==
  /\ ~settled /\ \A b \in Buses : adapter[b]
  /\ settled' = TRUE
  /\ UNCHANGED <<adapter, Process, Systemd>>

-----------------------------------------------------------------------------
RunStep == OpenPort \/ OpenFails \/ CreateTasks \/ CloseDown \/ Exit

LifeNext ==
  \/ RunStep
  \/ \E b \in Buses : BeginExchange(b) \/ ThreadEnds(b) \/ Publish(b) \/ TaskRaises(b)
  \/ SystemdStarts \/ StartLimitHit \/ TimerFires \/ WatchdogChecks \/ Minute
  \/ OperatorStops \/ OperatorStarts \/ Settle
  \/ \E b \in Buses : Unplug(b) \/ Plug(b)

LifeSpec == LifeInit /\ [][LifeNext]_lifeVars

\* run() and its tasks go on while they can, every exchange ends, systemd starts
\* the service, the watchdog's minutes pass, its timer fires and its script runs.
\* Adapters and operator owe nothing.
LifeFairSpec ==
  /\ LifeSpec
  /\ WF_lifeVars(RunStep) /\ WF_lifeVars(SystemdStarts)
  /\ WF_lifeVars(Minute) /\ WF_lifeVars(TimerFires) /\ WF_lifeVars(WatchdogChecks)
  /\ \A b \in Buses : /\ WF_lifeVars(BeginExchange(b)) /\ WF_lifeVars(ThreadEnds(b))
                      /\ WF_lifeVars(Publish(b))

-----------------------------------------------------------------------------
(* Properties *)

\* A gateway that runs polls every configured line on a port of its own: a start
\* that fails half-way, a task that ends, a restart at any moment never leave it
\* running with some of its lines (run(): the exception reaches the finally).
AllLinesOrNone ==
  phase = "running" => \A b \in Buses : task[b] = "polling" /\ port[b] # "closed"

\* The port of a line that is not among the started ones, which no shutdown
\* closes, is open only in a process on its way out: it does not outlive it, and
\* no start goes on beside it (connect(), started_buses of run()).
LeaksEndWithTheProcess ==
  \A i \in DOMAIN Lines :
    i > opened /\ port[Lines[i]] # "closed" => phase \in {"closing", "stopping"}

\* Every line is polled on a working port and reported up.
Polled == phase = "running" /\ \A b \in Buses : port[b] = "open" /\ shown[b]

\* The watchdog restarts a gateway that had no time yet to open a port.
CutsAStartShort == WatchdogRestarts /\ phase = "starting"

\* Once all adapters are there, and nothing more goes wrong, the gateway comes back
\* to polling every line for good, whatever was lost, half opened, crashed, stopped or
\* given up before: run() ends, systemd restarts, the watchdog finds ports of adapters
\* that came back.  Provided that the watchdog at last leaves a start its time: nothing
\* in the units sees to that, and without it the two may restart each other for ever.
PollingResumes == <>settled /\ <>[][~CutsAStartShort]_lifeVars => <>[]Polled
=============================================================================
