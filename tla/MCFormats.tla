----------------------------- MODULE MCFormats ------------------------------
(***************************************************************************)
(* Conversions over bounded inputs: a state picks a frame and damages it   *)
(* on the line, or picks a value and writes it to a device that obeys and  *)
(* repeats the payload.                                                    *)
(***************************************************************************)
EXTENDS StoredDot, OwenFrame, TLC

VARIABLES
  sent,      \* the frame a device sends
  wire,      \* its symbols as they arrive
  written    \* [format, value, suffix]: a client's value, in thousandths if it
             \* is a stored_dot, and the service bytes behind the device's answer

formatVars == <<sent, wire, written>>

-----------------------------------------------------------------------------
(* Instances and inputs *)

Hashes == {HashName(<<54, 28, 20, 26>>)}   \* rEAd

Frames == {Frame(ExpandNetworkAddress(a[1], a[2]), request, hash, payload) :
             a \in {<<0, 8>>, <<16, 8>>, <<255, 8>>, <<2047, 11>>}, request \in BOOLEAN,
             hash \in Hashes, payload \in {<<>>, <<0, 1>>, <<4, 1, 4, 8>>}}

Values == [format : {"stored_dot"}, suffix : {<<>>},
           value : {100 * n : n \in -40 .. 40} \cup {10 * n : n \in -60 .. 60} \cup (-70 .. 70)
                   \cup {409500, 409600, 6553500, 6553600, 409, 4095, 4096, 65535, 65536}]
          \cup [format : {"int16", "uint16"}, suffix : {<<>>, <<0, 3>>},
                value : (-2 .. 2) \cup {127, 128, 255, 256, 32767, 32768, 65535, 65536, -32768, -32769}]

NoFrame == Frame(0, FALSE, <<0, 0, 0, 0>>, <<>>)
NoValue == [format |-> "uint16", suffix |-> <<>>, value |-> 0]

FormatInit ==
  /\ sent = NoFrame /\ wire = EncodeFrame(NoFrame)
  /\ written = NoValue

Unused == sent = NoFrame /\ written = NoValue

PickFrame ==
  /\ Unused
  /\ sent' \in Frames /\ wire' = EncodeFrame(sent')
  /\ UNCHANGED written

Intact == wire = EncodeFrame(sent)

\* One symbol arrives as another, or is lost; two neighbours change places; the
\* end is cut off.
DamageFrame ==
  /\ sent # NoFrame /\ Intact
  /\ \E i \in DOMAIN wire :
       \/ \E s \in Symbol : wire' = [wire EXCEPT ![i] = s]
       \/ wire' = SubSeq(wire, 1, i - 1) \o SubSeq(wire, i + 1, Len(wire))
       \/ i < Len(wire) /\ wire' = [wire EXCEPT ![i] = wire[i + 1], ![i + 1] = wire[i]]
       \/ wire' = SubSeq(wire, 1, i - 1)
  /\ UNCHANGED <<sent, written>>

PickValue ==
  /\ Unused
  /\ written' \in Values
  /\ UNCHANGED <<sent, wire>>

FormatNext == PickFrame \/ DamageFrame \/ PickValue

FormatSpec == FormatInit /\ [][FormatNext]_formatVars

-----------------------------------------------------------------------------
(* Properties *)

\* A frame comes back from the line as it was sent, with its address, direction,
\* parameter hash and payload, and a frame with a symbol changed, lost or moved
\* or with its end cut off is never taken for another one: it is refused, or
\* only its CR was lost and is restored (decode_frame, crc16,
\* _normalize_frame_response).
DamageIsNoticed ==
  sent # NoFrame =>
    LET got == DecodeFrame(NormalizeResponse(wire)) IN
      /\ Intact => got = sent
      /\ got \in {sent, NotAFrame}

\* What the device answers to the readback of a write it obeyed, decoded.
ReadBack(payload) ==
  IF written.format = "stored_dot" THEN DecodeStoredDot(payload)
  ELSE DecodeInteger(payload \o written.suffix, written.format)

Payload ==
  IF written.format = "stored_dot" THEN EncodeStoredDot(written.value)
  ELSE EncodeInteger(written.value, written.format)

\* The mantissa of a stored_dot fits the four bits of a payload of one byte.
InOneByte == written.format = "stored_dot" /\ Payload # Refused /\ Len(Payload) = 1

\* A value a client can write and the code can encode reads back as itself, to
\* the last place, from a device that obeys and answers in the same layout, and
\* gives the same Modbus register (encode_payload, decode_payload,
\* encode_registers, decode_registers).  Values whose stored_dot takes one byte
\* are excepted: see ObeyedWritesReadBack.
LongWritesReadBack ==
  written # NoValue /\ Payload # Refused /\ ~InOneByte =>
    /\ ReadBack(Payload) = written.value
    /\ written.format # "stored_dot" =>
         DecodeRegister(EncodeRegister(ReadBack(Payload), written.format), written.format)
           = written.value

\* Any value a client can write and the code can encode reads back as itself from
\* a device that obeys and answers in the same layout.  (False of the code: a
\* stored_dot of one byte has its exponent in the upper half, and decode_payload
\* takes the whole byte for the mantissa.)
ObeyedWritesReadBack == Payload # Refused => ReadBack(Payload) = written.value
=============================================================================
