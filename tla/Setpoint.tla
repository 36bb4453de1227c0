------------------------------ MODULE Setpoint ------------------------------
(***************************************************************************)
(* What the gateway promises the clients that write setpoints, without     *)
(* tasks, locks, frames or attempts: a device stores a value, a register   *)
(* shows one, and a client asks for another.                               *)
(*                                                                         *)
(* The register follows a request at once and keeps the value only if the  *)
(* device is found to have it; else it shows what it showed before the     *)
(* request.  The device changes only to a value that was asked for, and    *)
(* while one request for a setpoint is with the device nobody else talks   *)
(* to it or refreshes its register.                                        *)
(***************************************************************************)
EXTENDS Integers

CONSTANTS
  Setpoints,
  Writes,     \* the writes clients may have under way
  Contents,   \* what a register may hold
  Sendable,   \* the contents that are a value for the device
  Tolerance   \* how far a stored value may be from the one asked for

VARIABLES
  stored,     \* [Setpoints -> Contents]: the value in the device
  shown,      \* [Setpoints -> Contents]: the register
  request     \* [Writes -> ...]: what was asked for, how far it got, and what
              \* the registers showed before

vars == <<stored, shown, request>>

NoSetpoint == [p \in {} |-> 0]
Nothing == [phase |-> "none", asks |-> NoSetpoint, before |-> NoSetpoint]

\* A request may cover registers of several setpoints, or of none.
Asking == UNION {[points -> Contents] : points \in SUBSET Setpoints}

Near(wanted, value) == wanted - value <= Tolerance /\ value - wanted <= Tolerance

Show(contents) ==
  shown' = [p \in Setpoints |-> IF p \in DOMAIN contents THEN contents[p] ELSE shown[p]]

Forget(w) == request' = [request EXCEPT ![w] = Nothing]

\* Some request for p is with the device.
Busy(p) == \E w \in Writes : request[w].phase = "sent" /\ p \in DOMAIN request[w].asks

Init ==
  /\ stored \in [Setpoints -> Contents]
  /\ shown \in [Setpoints -> Contents]
  /\ request = [w \in Writes |-> Nothing]

Ask(w) ==
  /\ request[w] = Nothing
  /\ \E asks \in Asking :
       /\ request' = [request EXCEPT ![w] =
            [phase |-> "asked", asks |-> asks, before |-> [p \in DOMAIN asks |-> shown[p]]]]
       /\ Show(asks)
  /\ UNCHANGED stored

Refuse(w) ==
  /\ request[w].phase = "asked"
  /\ Show(request[w].before)
  /\ Forget(w)
  /\ UNCHANGED stored

\* The device obeys, or does not.
Send(w) ==
  /\ request[w].phase = "asked"
  /\ \E p \in Setpoints :
       /\ DOMAIN request[w].asks = {p} /\ request[w].asks[p] \in Sendable
       /\ ~Busy(p)
       /\ stored' \in {stored, [stored EXCEPT ![p] = request[w].asks[p]]}
  /\ request' = [request EXCEPT ![w].phase = "sent"]
  /\ UNCHANGED shown

\* The device is found to have the value: the register shows what it found.
Confirm(w) ==
  /\ request[w].phase = "sent"
  /\ \A p \in DOMAIN request[w].asks : Near(request[w].asks[p], stored[p])
  /\ Show([p \in DOMAIN request[w].asks |-> stored[p]])
  /\ Forget(w)
  /\ UNCHANGED stored

GiveUp(w) ==
  /\ request[w].phase = "sent"
  /\ Show(request[w].before)
  /\ Forget(w)
  /\ UNCHANGED stored

\* Polling reads the device.
Refresh(p) ==
  /\ ~Busy(p)
  /\ shown' = [shown EXCEPT ![p] = stored[p]]
  /\ UNCHANGED <<stored, request>>

Next ==
  \/ \E w \in Writes : Ask(w) \/ Refuse(w) \/ Send(w) \/ Confirm(w) \/ GiveUp(w)
  \/ \E p \in Setpoints : Refresh(p)

Spec == Init /\ [][Next]_vars
=============================================================================
