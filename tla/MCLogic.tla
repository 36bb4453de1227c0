------------------------------ MODULE MCLogic -------------------------------
(***************************************************************************)
(* The logic unit of one channel: a measured temperature, a setpoint       *)
(* Modbus clients write, a hysteresis and a characteristic whatever the    *)
(* operator set it to.                                                     *)
(***************************************************************************)
EXTENDS GatewayProperties, TLC

MCDevicesOn == [b \in {"line1"} |-> <<"trm1">>]
MCPointsOf  == [d \in {"trm1"} |-> <<"t1", "sp1", "hyst1", "alt1">>]
MCNames     == {"t1", "sp1", "hyst1", "alt1"}
MCBusOf     == [p \in MCNames |-> "line1"]
MCParameter == [p \in MCNames |-> CASE p = "t1"    -> "rEAd"
                                     [] p = "sp1"   -> "C.SP"
                                     [] p = "hyst1" -> "HYSt"
                                     [] p = "alt1"  -> "AL.t"]
MCChannel   == [p \in MCNames |-> 0]
MCReadings  == [p \in MCNames |-> CASE p = "t1"    -> {0, 2, 4}
                                     [] p = "sp1"   -> {2, 3}
                                     [] p = "hyst1" -> {1}
                                     [] p = "alt1"  -> {1, 4}]
MCRetries   == [b \in {"line1"} |-> 0]
MCRequests  == {ValueCell("sp1") :> 2, ValueCell("sp1") :> 3}
=============================================================================
