----------------------------- MODULE Exchanges ------------------------------
(***************************************************************************)
(* What the serial client promises the gateway: exchanges one after the    *)
(* other, each of which ends with the answer to a request or with an       *)
(* error.  An answer is returned whole and at most once, to the request it *)
(* answers or, if that one was given up, to a later one.                   *)
(***************************************************************************)
EXTENDS Naturals

CONSTANT Failures   \* the ways an exchange may end without an answer

VARIABLES
  asked,       \* how many requests were sent
  waiting,     \* the last of them is under way
  unanswered,  \* the requests whose answer nobody has got
  outcome      \* of the last exchange: a failure, or <<"answer", request>>

vars == <<asked, waiting, unanswered, outcome>>

Init ==
  /\ asked = 0 /\ waiting = FALSE /\ unanswered = {}
  /\ outcome \in Failures

Begin ==
  /\ ~waiting
  /\ asked' = asked + 1 /\ waiting' = TRUE
  /\ unanswered' = unanswered \cup {asked + 1}
  /\ UNCHANGED outcome

Fail ==
  /\ waiting
  /\ waiting' = FALSE /\ outcome' \in Failures
  /\ UNCHANGED <<asked, unanswered>>

Return(m) ==
  /\ waiting /\ m \in unanswered
  /\ waiting' = FALSE /\ outcome' = <<"answer", m>>
  /\ unanswered' = unanswered \ {m}
  /\ UNCHANGED asked

Next == Begin \/ Fail \/ \E m \in unanswered : Return(m)

Spec == Init /\ [][Next]_vars
=============================================================================
