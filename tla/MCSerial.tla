------------------------------ MODULE MCSerial ------------------------------
(***************************************************************************)
(* What goes over a serial line, in one run: two exchanges, reads or       *)
(* writes, on a line that delays, damages, loses and invents bytes; or, on *)
(* a line nobody has used, one frame or one value of MCFormats, which are  *)
(* what the tokens of SerialLine stand for.                                *)
(***************************************************************************)
EXTENDS SerialLine, MCFormats

NothingSent == asked = 0 /\ buffer = <<>> /\ clean

Init == LineInit /\ FormatInit

Next ==
  \/ Unused /\ LineNext /\ UNCHANGED formatVars
  \/ NothingSent /\ FormatNext /\ UNCHANGED lineVars

FairSpec == Init /\ [][Next]_<<lineVars, formatVars>> /\ LineFairness

-----------------------------------------------------------------------------
(* Values the tests of the repository give (tests/test_owen_protocol.py) *)

ASSUME KnownHashes ==
  /\ HashName(<<20, 26, 26, 54>>) = <<9, 15, 6, 2>>     \* Addr
  /\ HashName(<<21, 42, 28, 46>>) = <<1, 14, 13, 2>>    \* A.Len
  /\ HashName(<<26, 28, 62>>) = <<13, 6, 8, 1>>         \* dev
  /\ HashName(<<62, 28, 54>>) = <<2, 13, 5, 11>>        \* ver

ASSUME KnownStoredDots ==
  /\ EncodeStoredDot(-10380) = <<164, 14>>
  /\ EncodeStoredDot(350000) = <<29, 172>>
  /\ EncodeStoredDot(410000) = <<16, 16, 4>>
  /\ EncodeStoredDot(0) = <<16>> /\ EncodeStoredDot(1100) = <<27>>
  /\ DecodeStoredDot(<<0, 75>>) = 75000 /\ DecodeStoredDot(<<1, 23>>) = 279000
  /\ DecodeStoredDot(<<43, 194>>) = 30100 /\ DecodeStoredDot(<<32, 36, 234>>) = 94500
=============================================================================
