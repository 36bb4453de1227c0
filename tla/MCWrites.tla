------------------------------ MODULE MCWrites ------------------------------
(***************************************************************************)
(* One device with one writable setpoint, and Modbus clients that write it *)
(* at the same time.                                                       *)
(***************************************************************************)
EXTENDS GatewayProperties, TLC

MCDevicesOn == [b \in {"line1"} |-> <<"trm1">>]
MCPointsOf  == [d \in {"trm1"} |-> <<"sp1">>]
MCBusOf     == [p \in {"sp1"} |-> "line1"]
MCParameter == [p \in {"sp1"} |-> "C.SP"]
MCChannel   == [p \in {"sp1"} |-> 0]
MCReadings  == [p \in {"sp1"} |-> {1, 2}]
MCRetries   == [b \in {"line1"} |-> 0]

\* Two good values, and registers nobody may write.
MCRequests == {ValueCell("sp1") :> 1, ValueCell("sp1") :> 2, StatusCell("sp1") :> Junk}

\* Writes of the two good values only.
MCGoodRequests == {ValueCell("sp1") :> 1, ValueCell("sp1") :> 2}

Symmetry == Permutations(WriteIds)
=============================================================================
