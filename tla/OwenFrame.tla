----------------------------- MODULE OwenFrame ------------------------------
(***************************************************************************)
(* The frames of the OVEN protocol (protocol.py): a packed header, the     *)
(* hash of the parameter's name, the payload and a CRC, written as ASCII   *)
(* symbols of four bits each between '#' and CR.                           *)
(*                                                                         *)
(* A symbol is a number: 0..15 the letters G..V, then the markers and any  *)
(* other byte.  A CRC is the set of the positions of its one bits.         *)
(***************************************************************************)
EXTENDS Integers, SequencesExt

CONSTANT NotAFrame   \* what decode_frame that raises returns

Nibble == 0 .. 15
START_MARKER == 16
END_MARKER == 17
OtherSymbol == 18
Symbol == 0 .. OtherSymbol

\* A frame, with its payload and the hash in symbols.
Frame(address, request, hash, payload) ==
  [address |-> address, request |-> request, hash |-> hash, payload |-> payload]

-----------------------------------------------------------------------------
(* The hash of bits: CRC and parameter names *)

\* 0x8F57
POLYNOMIAL == {15, 11, 10, 9, 8, 6, 4, 2, 1, 0}

Shifted(crc) == {i + 1 : i \in crc \ {15}}

HashBit(crc, bit) ==
  IF (15 \in crc) # (bit = 1) THEN SymDiff(Shifted(crc), POLYNOMIAL) ELSE Shifted(crc)

Power2 == <<1, 2, 4, 8, 16, 32, 64>>

\* Numbers of `count` bits each as a row of bits, the highest of each first.
Bits(numbers, count) ==
  [k \in 1 .. count * Len(numbers) |->
     (numbers[(k - 1) \div count + 1] \div Power2[count - ((k - 1) % count)]) % 2]

\* The hash of a row of bits, bit by bit.
CrcOfBits(bits) ==
  LET crc[k \in 0 .. Len(bits)] == IF k = 0 THEN {} ELSE HashBit(crc[k - 1], bits[k])
  IN  crc[Len(bits)]

HashBits(numbers, count) == CrcOfBits(Bits(numbers, count))

\* Faulty: the header is not covered.
CrcOfBlock(symbols) == HashBits(SubSeq(symbols, 5, Len(symbols)), 4)

Crc16(symbols) == HashBits(symbols, 4)

\* A CRC in four symbols, its highest bits first.
CrcSymbols(crc) ==
  LET bit(b) == IF b \in crc THEN 1 ELSE 0
  IN  [i \in 1 .. 4 |-> 8 * bit(19 - 4 * i) + 4 * bit(18 - 4 * i)
                          + 2 * bit(17 - 4 * i) + bit(16 - 4 * i)]

\* hash_parameter_name, from the codes of a name (twice its place in the
\* alphabet, plus one before a dot): filled up with blanks to four.
BLANK == 39 * 2
HashName(codes) ==
  CrcSymbols(HashBits([i \in 1 .. 4 |-> IF i \in DOMAIN codes THEN codes[i] ELSE BLANK], 7))

-----------------------------------------------------------------------------
(* Encoding and decoding *)

\* An 8-bit address of a device is the upper part of the 11 bits of a frame.
ExpandNetworkAddress(address, addressBits) ==
  IF addressBits = 8 THEN address * 8 ELSE address

Header(address, request, size) ==
  <<address \div 128, (address \div 8) % 16,
    (address % 8) * 2 + (IF request THEN 1 ELSE 0), size>>

EncodeFrame(f) ==
  LET covered == Header(f.address, f.request, Len(f.payload) \div 2) \o f.hash \o f.payload
  IN <<START_MARKER>> \o covered \o CrcSymbols(Crc16(covered)) \o <<END_MARKER>>

DecodeFrame(symbols) ==
  LET body    == SubSeq(symbols, 2, Len(symbols) - 1)
      covered == SubSeq(body, 1, Len(body) - 4)
      block   == SubSeq(covered, 5, Len(covered))
  IN IF \/ symbols = <<>> \/ Head(symbols) # START_MARKER \/ Last(symbols) # END_MARKER
        \/ Len(body) % 2 # 0 \/ \E i \in DOMAIN body : body[i] \notin Nibble
        \/ Len(body) < 8
        \/ CrcSymbols(Crc16(covered)) # SubSeq(body, Len(body) - 3, Len(body))
        \/ Len(block) # 2 * (covered[4] + 2)
     THEN NotAFrame
     ELSE Frame(covered[1] * 128 + covered[2] * 8 + covered[3] \div 2, covered[3] % 2 = 1,
                SubSeq(block, 1, 4), SubSeq(block, 5, Len(block)))

\* _normalize_frame_response: adapters that swallow the CR
NormalizeResponse(symbols) ==
  IF symbols # <<>> /\ Head(symbols) = START_MARKER /\ Last(symbols) # END_MARKER
  THEN Append(symbols, END_MARKER) ELSE symbols
=============================================================================
