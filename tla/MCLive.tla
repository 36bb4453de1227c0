------------------------------- MODULE MCLive -------------------------------
(***************************************************************************)
(* One line with a measurement and a setpoint, and clients that write the  *)
(* setpoint: what must happen in the end.                                  *)
(***************************************************************************)
EXTENDS GatewayProperties, TLC

MCDevicesOn == [b \in {"line1"} |-> <<"trm1">>]
MCPointsOf  == [d \in {"trm1"} |-> <<"t1", "sp1">>]
MCBusOf     == [p \in {"t1", "sp1"} |-> "line1"]
MCParameter == [p \in {"t1", "sp1"} |-> IF p = "t1" THEN "rEAd" ELSE "C.SP"]
MCChannel   == [p \in {"t1", "sp1"} |-> 0]
MCReadings  == [p \in {"t1", "sp1"} |-> IF p = "t1" THEN {1} ELSE {1, 2}]
MCRetries   == [b \in {"line1"} |-> 1]
MCRequests  == {ValueCell("sp1") :> 1, ValueCell("sp1") :> 2, StatusCell("t1") :> Junk,
                MaskCell("trm1") :> Junk}
=============================================================================
