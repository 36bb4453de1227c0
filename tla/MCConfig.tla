------------------------------ MODULE MCConfig ------------------------------
(***************************************************************************)
(* The configuration, in one run: one editor, up to two lines, and a file  *)
(* that does not exist yet or comes from the version before this one,      *)
(* devices with two channels at most; or, before any command, a gateway    *)
(* that reads the points of a file written by hand one by one.             *)
(***************************************************************************)
EXTENDS ConfigTools, RegisterMap, TLC

Empty == [buses |-> <<>>, points |-> {}]

\* As owen_config.linux.json: one line under its legacy name, with a device.
Legacy == [buses |-> (LegacyName(1) :> [port |-> "ttyACM0", valid |-> TRUE]),
           points |-> {[bus |-> LegacyName(1), device |-> 1, modbus_slave_id |-> 3,
                        address |-> 3, channel |-> 1]}]

MCFirstDocuments == {Empty, Legacy}
MCChannelChoices == {{1}, {2}, {1, 2}}

MCConfigurable ==
  [name : {"a"}, device : {16}, type : {"holding"}, width : {1, 2}, at : 7 .. 9,
   mark : {None}, status : {None, 9, 11}, published : {TRUE}]
  \cup [name : {"b", "c"}, device : {16}, type : {"holding", "input"}, width : {2}, at : {5, 7, 8},
        mark : {None, 6, 10}, status : {None}, published : {TRUE}]
  \cup [name : {"d"}, device : {16}, type : {"holding"}, width : {2}, at : {7},
        mark : {None, 20}, status : {None}, published : {FALSE}]

MCReserved == StatusAndTelemetry
MCExtraRegisters == {10}   \* for 48: among the points, as 48 is

MaxSeen == 3   \* bound: how many points are accepted

NoCommand == \A e \in Editors : payload[e] = NotLoaded
NothingRead == seen = {} /\ refused = None

MCInit == Init /\ MapInit

MCNext ==
  \/ NothingRead /\ Next /\ UNCHANGED mapVars
  \/ /\ NoCommand /\ file = Empty /\ mapped /\ Cardinality(seen) < MaxSeen
     /\ MapNext
     /\ UNCHANGED vars

MCSpec == MCInit /\ [][MCNext]_<<vars, mapVars>>
=============================================================================
