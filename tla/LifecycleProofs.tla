-------------------------- MODULE LifecycleProofs ---------------------------
(***************************************************************************)
(* Proofs about Lifecycle: which ports are open, for any number of lines.  *)
(***************************************************************************)
EXTENDS Lifecycle, TLAPS

LifeTypeOK ==
  /\ phase \in {"down", "starting", "running", "closing", "stopping"}
  /\ opened \in 0 .. Len(Lines)
  /\ port \in [Buses -> {"closed", "open", "stale"}]
  /\ task \in [Buses -> {"none", "polling", "ended"}]

\* The ports of the started lines are open until the process closes down.
StartedAreOpen ==
  phase \in {"starting", "running"} => \A i \in 1 .. opened : port[Lines[i]] # "closed"

\* All tasks are polling as long as none has raised.
AllPoll == phase = "running" => opened = Len(Lines) /\ \A b \in Buses : task[b] = "polling"

\* A process that is down has neither ports nor tasks.
NothingDown == phase = "down" => opened = 0 /\ port = Everywhere("closed")
                                 /\ task = Everywhere("none")

LifeInv == LifeTypeOK /\ NothingDown /\ StartedAreOpen /\ AllPoll /\ LeaksEndWithTheProcess

LEMMA LineNames ==
  /\ \A i \in 1 .. Len(Lines) : Lines[i] \in Buses
  /\ \A b \in Buses : \E i \in 1 .. Len(Lines) : b = Lines[i]
  /\ \A i, j \in 1 .. Len(Lines) : Lines[i] = Lines[j] => i = j
  /\ Len(Lines) \in Nat /\ DOMAIN Lines = 1 .. Len(Lines)
BY LinesAssumption DEF Buses

LEMMA LifeInvInit == LifeInit => LifeInv
<1> SUFFICES ASSUME LifeInit PROVE LifeInv  OBVIOUS
<1> USE LineNames DEF LifeInit, Everywhere
<1>1. LifeTypeOK  BY DEF LifeTypeOK
<1>2. NothingDown /\ StartedAreOpen /\ AllPoll  BY DEF NothingDown, StartedAreOpen, AllPoll
<1>3. LeaksEndWithTheProcess  BY DEF LeaksEndWithTheProcess
<1>4. QED  BY <1>1, <1>2, <1>3 DEF LifeInv

\* What every step to a fresh start, or to no process at all, leaves.
LEMMA Afresh ==
  ASSUME phase' \in {"down", "starting"}, opened' = 0,
         port' = Everywhere("closed"), task' = Everywhere("none")
  PROVE  LifeInv'
<1> USE LineNames DEF Everywhere
<1>1. LifeTypeOK'  BY DEF LifeTypeOK
<1>2. (NothingDown /\ StartedAreOpen /\ AllPoll)'  BY DEF NothingDown, StartedAreOpen, AllPoll
<1>3. LeaksEndWithTheProcess'  BY DEF LeaksEndWithTheProcess
<1>4. QED  BY <1>1, <1>2, <1>3 DEF LifeInv

LEMMA SameProcess ==
  ASSUME LifeInv, UNCHANGED <<phase, opened, port, task>>
  PROVE  LifeInv'
BY DEF LifeInv, LifeTypeOK, NothingDown, StartedAreOpen, AllPoll, LeaksEndWithTheProcess

\* Ports may go stale, which leaves them open.
LEMMA SameProcessOtherPorts ==
  ASSUME LifeInv, UNCHANGED <<phase, opened, task>>,
         port' \in [Buses -> {"closed", "open", "stale"}],
         \A b \in Buses : port'[b] = "closed" <=> port[b] = "closed"
  PROVE  LifeInv'
<1> USE LineNames DEF LifeInv
<1>1. LifeTypeOK'  BY DEF LifeTypeOK
<1>2. NothingDown'
  <2>1. CASE phase = "down"
    <3>1. opened = 0 /\ port = Everywhere("closed") /\ task = Everywhere("none")
      BY <2>1 DEF NothingDown
    <3>2. \A b \in Buses : port'[b] = "closed"  BY <3>1 DEF Everywhere
    <3>3. port' = Everywhere("closed")  BY <3>2 DEF Everywhere
    <3>4. QED  BY <3>1, <3>3 DEF NothingDown, Everywhere
  <2>2. CASE phase # "down"  BY <2>2 DEF NothingDown
  <2>3. QED  BY <2>1, <2>2
<1>3. StartedAreOpen' /\ AllPoll'
  <2>1. \A i \in 1 .. opened : Lines[i] \in Buses  BY DEF LifeTypeOK
  <2>2. StartedAreOpen'  BY <2>1 DEF StartedAreOpen
  <2>3. AllPoll'  BY DEF AllPoll
  <2>4. QED  BY <2>2, <2>3
<1>4. LeaksEndWithTheProcess'  BY DEF LeaksEndWithTheProcess
<1>5. QED  BY <1>1, <1>2, <1>3, <1>4

LEMMA OpenPortKeeps == LifeInv /\ OpenPort => LifeInv'
<1> SUFFICES ASSUME LifeInv, OpenPort PROVE LifeInv'  OBVIOUS
<1> USE LineNames DEF LifeInv, OpenPort, NextLine, World
<1>1. opened + 1 \in 1 .. Len(Lines)  BY DEF LifeTypeOK
<1>2. NextLine \in Buses  BY <1>1
<1>3. LifeTypeOK' /\ NothingDown' /\ AllPoll'  BY <1>1, <1>2 DEF LifeTypeOK, NothingDown, AllPoll
<1>4. \A i \in 1 .. Len(Lines) : port'[Lines[i]] = IF i = opened + 1 THEN "open" ELSE port[Lines[i]]
  BY <1>1, <1>2 DEF LifeTypeOK
<1>5. StartedAreOpen'  BY <1>1, <1>4 DEF LifeTypeOK, StartedAreOpen
<1>6. LeaksEndWithTheProcess'  BY <1>1, <1>4 DEF LifeTypeOK, LeaksEndWithTheProcess
<1>7. QED  BY <1>3, <1>5, <1>6

LEMMA OpenFailsKeeps == LifeInv /\ OpenFails => LifeInv'
<1> SUFFICES ASSUME LifeInv, OpenFails PROVE LifeInv'  OBVIOUS
<1> USE LineNames DEF LifeInv, OpenFails, ConnectRaises, NextLine, World
<1>1. opened + 1 \in 1 .. Len(Lines) /\ NextLine \in Buses  BY DEF LifeTypeOK
<1>2. port' \in [Buses -> {"closed", "open", "stale"}]  BY <1>1 DEF LifeTypeOK
<1>3. LifeTypeOK' /\ NothingDown' /\ StartedAreOpen' /\ AllPoll'
  BY <1>2 DEF LifeTypeOK, NothingDown, StartedAreOpen, AllPoll
<1>4. LeaksEndWithTheProcess'  BY DEF LeaksEndWithTheProcess
<1>5. QED  BY <1>3, <1>4

LEMMA CreateTasksKeeps == LifeInv /\ CreateTasks => LifeInv'
<1> SUFFICES ASSUME LifeInv, CreateTasks PROVE LifeInv'  OBVIOUS
<1> USE LineNames DEF LifeInv, CreateTasks, World, Everywhere
<1>1. LifeTypeOK' /\ NothingDown' /\ AllPoll'  BY DEF LifeTypeOK, NothingDown, AllPoll
<1>2. StartedAreOpen'  BY DEF StartedAreOpen
<1>3. LeaksEndWithTheProcess'  BY DEF LifeTypeOK, LeaksEndWithTheProcess
<1>4. QED  BY <1>1, <1>2, <1>3

LEMMA TaskRaisesKeeps == ASSUME NEW b \in Buses PROVE LifeInv /\ TaskRaises(b) => LifeInv'
<1> SUFFICES ASSUME LifeInv, TaskRaises(b) PROVE LifeInv'  OBVIOUS
<1> USE DEF LifeInv, TaskRaises, World
<1>1. LifeTypeOK' /\ NothingDown' /\ StartedAreOpen' /\ AllPoll'
  BY DEF LifeTypeOK, NothingDown, StartedAreOpen, AllPoll
<1>2. LeaksEndWithTheProcess'  BY DEF LeaksEndWithTheProcess
<1>3. QED  BY <1>1, <1>2

LEMMA CloseDownKeeps == LifeInv /\ CloseDown => LifeInv'
<1> SUFFICES ASSUME LifeInv, CloseDown PROVE LifeInv'  OBVIOUS
<1> USE DEF LifeInv, CloseDown, World
<1>1. LifeTypeOK' /\ NothingDown' /\ StartedAreOpen' /\ AllPoll'
  BY DEF LifeTypeOK, NothingDown, StartedAreOpen, AllPoll
<1>2. LeaksEndWithTheProcess'  BY DEF LeaksEndWithTheProcess
<1>3. QED  BY <1>1, <1>2

LEMMA StartKeeps == LifeInv /\ phase = "down" /\ Started => LifeInv'
<1> SUFFICES ASSUME LifeInv, phase = "down", Started PROVE LifeInv'  OBVIOUS
<1>1. opened' = 0 /\ port' = Everywhere("closed") /\ task' = Everywhere("none")
  BY DEF LifeInv, NothingDown, Started
<1>2. QED  BY <1>1, Afresh DEF Started

LEMMA TimerKeeps == LifeInv /\ TimerFires => LifeInv'
<1> SUFFICES ASSUME LifeInv, TimerFires PROVE LifeInv'  OBVIOUS
<1>1. CASE phase = "down"  BY <1>1, StartKeeps DEF TimerFires
<1>2. CASE phase # "down"  BY <1>2, SameProcess DEF TimerFires, Process
<1>3. QED  BY <1>1, <1>2

LEMMA WatchdogKeeps == LifeInv /\ WatchdogChecks => LifeInv'
<1> SUFFICES ASSUME LifeInv, WatchdogChecks PROVE LifeInv'  OBVIOUS
<1>1. CASE WatchdogRestarts  BY <1>1, Afresh DEF WatchdogRestarts, Gone
<1>2. CASE WatchdogPasses  BY <1>2, SameProcess DEF WatchdogPasses, Process
<1>3. QED  BY <1>1, <1>2 DEF WatchdogChecks

LEMMA UnplugKeeps == ASSUME NEW b \in Buses PROVE LifeInv /\ Unplug(b) => LifeInv'
<1> SUFFICES ASSUME LifeInv, Unplug(b) PROVE LifeInv'  OBVIOUS
<1>1. /\ port' \in [Buses -> {"closed", "open", "stale"}]
      /\ \A x \in Buses : port'[x] = "closed" <=> port[x] = "closed"
  BY DEF LifeInv, LifeTypeOK, Unplug
<1>2. QED  BY <1>1, SameProcessOtherPorts DEF Unplug

LEMMA LifeInvStep == LifeInv /\ [LifeNext]_lifeVars => LifeInv'
<1> SUFFICES ASSUME LifeInv, [LifeNext]_lifeVars PROVE LifeInv'  OBVIOUS
<1>1. CASE OpenPort  BY <1>1, OpenPortKeeps
<1>2. CASE OpenFails  BY <1>2, OpenFailsKeeps
<1>3. CASE CreateTasks  BY <1>3, CreateTasksKeeps
<1>4. CASE CloseDown  BY <1>4, CloseDownKeeps
<1>5. CASE Exit  BY <1>5, Afresh DEF Exit, Gone
<1>6. ASSUME NEW b \in Buses, BeginExchange(b) \/ ThreadEnds(b) \/ Publish(b) \/ Plug(b)
      PROVE  LifeInv'
  BY <1>6, SameProcess DEF BeginExchange, ThreadEnds, Publish, Plug, Process
<1>7. ASSUME NEW b \in Buses, TaskRaises(b) PROVE LifeInv'  BY <1>7, TaskRaisesKeeps
<1>8. ASSUME NEW b \in Buses, Unplug(b) PROVE LifeInv'  BY <1>8, UnplugKeeps
<1>9. CASE SystemdStarts  BY <1>9, StartKeeps DEF SystemdStarts
<1>10. CASE TimerFires  BY <1>10, TimerKeeps
<1>11. CASE WatchdogChecks  BY <1>11, WatchdogKeeps
<1>12. CASE OperatorStops  BY <1>12, Afresh DEF OperatorStops, Gone
<1>13. CASE OperatorStarts  BY <1>13, StartKeeps DEF OperatorStarts
<1>14. CASE StartLimitHit \/ Minute \/ Settle \/ UNCHANGED lifeVars
  BY <1>14, SameProcess DEF StartLimitHit, Minute, Settle, Process, lifeVars
<1>15. QED  BY <1>1, <1>2, <1>3, <1>4, <1>5, <1>6, <1>7, <1>8, <1>9, <1>10, <1>11, <1>12, <1>13,
               <1>14 DEF LifeNext, RunStep

LEMMA LifeInvariance == LifeSpec => []LifeInv
BY LifeInvInit, LifeInvStep, PTL DEF LifeSpec

\* A running gateway polls every line on an open port, however many lines there
\* are, and whatever failed, was unplugged or was restarted before (run()).
THEOREM RunningIsComplete == LifeSpec => []AllLinesOrNone
<1>1. LifeInv => AllLinesOrNone
  BY LineNames DEF LifeInv, AllPoll, StartedAreOpen, AllLinesOrNone
<1>2. QED  BY <1>1, LifeInvariance, PTL

\* A port that no shutdown closes lives no longer than a process that ends
\* (connect(), started_buses).
THEOREM NoLeakStays == LifeSpec => []LeaksEndWithTheProcess
<1>1. LifeInv => LeaksEndWithTheProcess  BY DEF LifeInv
<1>2. QED  BY <1>1, LifeInvariance, PTL
=============================================================================
