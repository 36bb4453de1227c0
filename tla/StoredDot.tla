----------------------------- MODULE StoredDot ------------------------------
(***************************************************************************)
(* Values between Modbus registers and OVEN payloads: the stored_dot       *)
(* format of setpoints (protocol.py) and the 16-bit integers (protocol.py, *)
(* encoding.py).                                                           *)
(*                                                                         *)
(* A stored_dot number is a sign, a decimal exponent and a mantissa packed *)
(* into one, two or three bytes.  Floats are decimals with up to three     *)
(* places, in thousandths: the mantissas that fit have at most five        *)
(* digits, which the ".7g" of the code keeps and float noise is cut off    *)
(* from.  A payload is a sequence of bytes.                                *)
(***************************************************************************)
EXTENDS Integers, Sequences

CONSTANT Refused   \* what a conversion that raises returns

Byte == 0 .. 255

-----------------------------------------------------------------------------
(* stored_dot *)

MaxExponent == 7
MaxMantissa == 65535

ASSUME RefusedAssumption ==   \* an error is no number
  Refused \notin [sign : 0 .. 1, exponent : 0 .. MaxExponent, mantissa : 0 .. MaxMantissa]

\* _encode_stored_dot, from its mantissa on
PackStoredDot(sign, exponent, mantissa) ==
  CASE mantissa < 16 -> <<sign * 128 + exponent * 16 + mantissa>>
    [] mantissa >= 16 /\ mantissa < 4096 ->
         <<sign * 128 + exponent * 16 + mantissa \div 256, mantissa % 256>>
    [] mantissa >= 4096 ->
         <<sign * 128 + exponent * 16, mantissa \div 256, mantissa % 256>>

\* decode_payload: one byte is filled up to two with a zero in front.
UnpackStoredDot(payload) ==
  LET n == Len(payload)
      head == IF n = 1 THEN 0 ELSE payload[1]
  IN IF n \notin 1 .. 3 THEN Refused
     ELSE [sign |-> head \div 128, exponent |-> (head \div 16) % 8,
           mantissa |-> CASE n = 1 -> payload[1]
                          [] n = 2 -> (head % 16) * 256 + payload[2]
                          [] n = 3 -> payload[2] * 256 + payload[3]]

\* Faulty: the third place is cut off.
AtMostTwoPlaces(units) == IF units % 100 = 0 THEN 1 ELSE 2

\* The decimal of `units` thousandths: whole numbers are written with one
\* place, others with the places they need.
Places(units) ==
  IF units % 100 = 0 THEN 1 ELSE IF units % 10 = 0 THEN 2 ELSE 3

Power10(n) == CASE n = 0 -> 1 [] n = 1 -> 10 [] n = 2 -> 100 [] n = 3 -> 1000

Magnitude10(units) == IF units < 0 THEN -units ELSE units

EncodeStoredDot(units) ==
  LET places   == Places(Magnitude10(units))
      mantissa == Magnitude10(units) \div Power10(3 - places)
  IN IF places > MaxExponent \/ mantissa > MaxMantissa THEN Refused
     ELSE PackStoredDot(IF units < 0 THEN 1 ELSE 0, places, mantissa)

\* Thousandths, of a number with up to three places.
DecodeStoredDot(payload) ==
  LET d == UnpackStoredDot(payload) IN
  IF d = Refused THEN Refused
  ELSE (IF d.sign = 1 THEN -1 ELSE 1) * d.mantissa * Power10(3 - d.exponent)

-----------------------------------------------------------------------------
(* Integers: big-endian bytes, two's complement where signed *)

Low16(value) == value % 65536
Signed16(word) == IF word >= 32768 THEN word - 65536 ELSE word
Signed8(byte)  == IF byte >= 128 THEN byte - 256 ELSE byte

MaxInt16  == 32767
MaxUint16 == 65535
Range16(format) == IF format = "int16" THEN -(MaxInt16 + 1) .. MaxInt16 ELSE 0 .. MaxUint16

EncodeInteger(value, format) ==
  IF value \notin Range16(format) THEN Refused
  ELSE <<Low16(value) \div 256, Low16(value) % 256>>

\* One byte is the value; two service bytes may follow the value's two.
DecodeInteger(payload, format) ==
  LET word == payload[1] * 256 + payload[2] IN
  CASE Len(payload) = 1      -> IF format = "int16" THEN Signed8(payload[1]) ELSE payload[1]
    [] Len(payload) \in {2, 4} -> IF format = "int16" THEN Signed16(word) ELSE word
    [] OTHER                 -> Refused

\* encode_registers and decode_registers of the two 16-bit types
EncodeRegister(value, type) == IF value \in Range16(type) THEN Low16(value) ELSE Refused
DecodeRegister(word, type)  == IF type = "int16" THEN Signed16(word) ELSE word
=============================================================================
