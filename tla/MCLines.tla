------------------------------ MODULE MCLines -------------------------------
(***************************************************************************)
(* Two lines polled at the same time, one device and one read-only point   *)
(* each, counters that wrap after a few steps, and a client that writes to *)
(* a line status register.                                                 *)
(***************************************************************************)
EXTENDS GatewayProperties, TLC

MCDevicesOn == [b \in {"line1", "line2"} |-> IF b = "line1" THEN <<"trm1">> ELSE <<"trm2">>]
MCPointsOf  == [d \in {"trm1", "trm2"} |-> IF d = "trm1" THEN <<"t1">> ELSE <<"t2">>]
MCBusOf     == [p \in {"t1", "t2"} |-> IF p = "t1" THEN "line1" ELSE "line2"]
MCParameter == [p \in {"t1", "t2"} |-> "rEAd"]
MCChannel   == [p \in {"t1", "t2"} |-> 0]
MCReadings  == [p \in {"t1", "t2"} |-> {1}]
MCRetries   == [b \in {"line1", "line2"} |-> 0]
MCRequests  == {LineCell("line1") :> Junk}
=============================================================================
