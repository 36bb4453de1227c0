------------------------------ MODULE MCHealth ------------------------------
(***************************************************************************)
(* One device with a measurement and its setpoint, both only read; a       *)
(* client writes to the channel status register of the setpoint; every     *)
(* fault of the line, retries and pauses, two failures to a failed point.  *)
(***************************************************************************)
EXTENDS GatewayProperties, TLC

MCDevicesOn == [b \in {"line1"} |-> <<"trm1">>]
MCPointsOf  == [d \in {"trm1"} |-> <<"t1", "sp1">>]
MCBusOf     == [p \in {"t1", "sp1"} |-> "line1"]
MCParameter == [p \in {"t1", "sp1"} |-> IF p = "t1" THEN "rEAd" ELSE "C.SP"]
MCChannel   == [p \in {"t1", "sp1"} |-> 0]
MCReadings  == [p \in {"t1", "sp1"} |-> IF p = "t1" THEN {1, 2} ELSE {1}]
MCRetries   == [b \in {"line1"} |-> 1]
MCRequests  == {StatusCell("sp1") :> Junk}
=============================================================================
