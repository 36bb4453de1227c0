----------------------------- MODULE SerialLine -----------------------------
(***************************************************************************)
(* One serial line as OwenSerialClient (serial_client.py) sees it: a       *)
(* request goes out, bytes come in whenever they come, and                 *)
(* _read_oven_response decides which of them are the answer.               *)
(*                                                                         *)
(* Bytes are tokens: the marker '#', the two halves of the body of one     *)
(* answer, CR, the 0x16 that ends a short acknowledgement, and anything    *)
(* else.  Markers of different answers are the same byte, bodies are not.  *)
(***************************************************************************)
EXTENDS Integers, SequencesExt

CONSTANTS
  ReadLimit,     \* tokens after which an answer is cut: 128 bytes in the code
  EmptyReads,    \* empty reads after which it is taken for complete: 2
  MaxExchanges,  \* bound: requests
  MaxWaiting,    \* bound: tokens in the input buffer
  MaxIncoming    \* bound: tokens on the line before another answer is sent

\* A whole answer, of four tokens, ends before the limit: the longest frame has
\* 44 bytes.
ASSUME LineAssumption ==
  /\ ReadLimit \in Nat /\ ReadLimit >= 4 /\ EmptyReads \in Nat \ {0}
  /\ MaxExchanges \in Nat /\ MaxWaiting \in Nat /\ MaxIncoming \in Nat

VARIABLES
  asked,     \* number of the last request
  kind,      \* of the last request: exchange reads, exchange_write writes
  pc,        \* where _read_oven_response is
  response,  \* what it has read
  empties,   \* empty_reads
  incoming,  \* answers on the line, token by token
  buffer,    \* the input buffer of the port
  pending,   \* requests devices may still answer, with their kinds
  taken,     \* requests whose answer an exchange has returned
  outcome,   \* how the last exchange ended
  clean      \* not in the code: nothing but this exchange was on the line
             \* since its request, and its answer came without a gap

lineVars == <<asked, kind, pc, response, empties, incoming, buffer, pending, taken, outcome,
              clean>>

-----------------------------------------------------------------------------
(* Tokens *)

START == <<"start">>
END == <<"end">>
ACK == <<"ack">>
NOISE == <<"noise">>
Half(i, request) == <<"body", i, request>>

Tokens == {START, END, ACK, NOISE} \cup {Half(i, r) : i \in {1, 2}, r \in 1 .. MaxExchanges}

\* What a device answers: a frame or, to a write, a short acknowledgement.
FrameOf(r) == <<START, Half(1, r), Half(2, r), END>>
ShortAckOf(r) == <<START, Half(1, r), ACK>>

\* _normalize_frame_response
Normalized(tokens) ==
  IF Head(tokens) = START /\ Last(tokens) # END THEN Append(tokens, END) ELSE tokens

\* Faulty: the CRC is not compared, and any part of a body passes.
DecodesAnyPart(tokens, r) == Half(1, r) \in Range(tokens) \/ Half(2, r) \in Range(tokens)

\* decode_frame: every frame but a whole one fails on a marker, a symbol, its
\* length or its CRC.
Decodes(tokens, r) == Normalized(tokens) = FrameOf(r)

NoAnswer == <<"none">>
TimedOut == <<"timeout">>
Undecodable == <<"error">>
PortError == <<"io">>
Opaque == <<"opaque">>   \* an acknowledgement of a write that is no frame
Failures == {NoAnswer, TimedOut, Undecodable, PortError, Opaque}
Answer(r) == <<"answer", r>>

-----------------------------------------------------------------------------
(* The client, in the worker thread of an exchange *)

LineInit ==
  /\ asked = 0 /\ kind = "read" /\ pc = "idle" /\ response = <<>> /\ empties = 0
  /\ incoming = <<>> /\ buffer = <<>> /\ pending = {} /\ taken = {}
  /\ outcome = NoAnswer /\ clean = TRUE

\* Faulty: the input buffer keeps what came since the last exchange.
BufferAtRequest == buffer

\* reset_input_buffer
ResetInputBuffer == <<>>

Begin ==
  /\ pc = "idle" /\ asked < MaxExchanges
  /\ asked' = asked + 1
  /\ kind' \in {"read", "write"}
  /\ pc' = "first"
  /\ buffer' = ResetInputBuffer
  /\ pending' = pending \cup {<<asked + 1, kind'>>}
  /\ clean' = (pending = {} /\ incoming = <<>>)
  /\ UNCHANGED <<response, empties, incoming, taken, outcome>>

Finish(how) ==
  /\ pc' = "idle" /\ outcome' = how
  /\ taken' = IF how \in Failures THEN taken ELSE taken \cup {how[2]}
  /\ response' = <<>> /\ empties' = 0
  /\ UNCHANGED <<asked, kind, incoming, buffer, pending, clean>>

\* The first byte, with the whole timeout.
ReadFirst ==
  /\ pc = "first" /\ buffer # <<>>
  /\ response' = <<Head(buffer)>> /\ buffer' = Tail(buffer)
  /\ pc' = "rest"
  /\ UNCHANGED <<asked, kind, empties, incoming, pending, taken, outcome, clean>>

NothingRead ==
  /\ pc = "first" /\ buffer = <<>>
  /\ Finish(TimedOut)

\* Faulty: an answer may have any length.
IsMarked == Last(response) \in {END, ACK}

\* The loop ends: at a last byte that ends an answer, or at the limit.
IsWhole == Last(response) \in {END, ACK} \/ Len(response) >= ReadLimit

\* What waited when the loop asked, or the one byte that came meanwhile; more
\* may have come since.
ReadChunk ==
  /\ pc = "rest" /\ ~IsWhole
  /\ \E n \in 1 .. Len(buffer) :
       /\ response' = response \o SubSeq(buffer, 1, n)
       /\ buffer' = SubSeq(buffer, n + 1, Len(buffer))
  /\ empties' = 0
  /\ UNCHANGED <<asked, kind, pc, incoming, pending, taken, outcome, clean>>

\* Faulty: empty reads are not counted.
ForgetEmptyRead == empties' = 0

CountEmptyRead == empties' = empties + 1

ReadNothing ==
  /\ pc = "rest" /\ ~IsWhole /\ buffer = <<>> /\ empties < EmptyReads
  /\ CountEmptyRead
  /\ clean' = FALSE
  /\ UNCHANGED <<asked, kind, pc, response, incoming, buffer, pending, taken, outcome>>

\* The answer is complete, and is decoded.  What is no frame is an error of a
\* read, and an acknowledgement to check by readback of a write.
DecodeResponse ==
  /\ pc = "rest" /\ (IsWhole \/ empties >= EmptyReads)
  /\ \/ \E r \in 1 .. MaxExchanges : Decodes(response, r) /\ Finish(Answer(r))
     \/ /\ \A r \in 1 .. MaxExchanges : ~Decodes(response, r)
        /\ Finish(IF kind = "write" THEN Opaque ELSE Undecodable)

\* Any call on the port may raise.
PortRaises ==
  /\ pc # "idle"
  /\ Finish(PortError)

ClientStep ==
  ReadFirst \/ NothingRead \/ ReadChunk \/ ReadNothing \/ DecodeResponse

-----------------------------------------------------------------------------
(* The devices and the line *)

\* A device answers a request, in time or not, in one piece.
DeviceAnswers(r, asks) ==
  /\ <<r, asks>> \in pending /\ Len(incoming) <= MaxIncoming
  /\ \/ incoming' = incoming \o FrameOf(r)
     \/ asks = "write" /\ incoming' = incoming \o ShortAckOf(r)
  /\ pending' = pending \ {<<r, asks>>}
  /\ UNCHANGED <<asked, kind, pc, response, empties, buffer, taken, outcome, clean>>

\* A byte arrives: whole, damaged or not at all.
Arrive ==
  /\ incoming # <<>> /\ Len(buffer) < MaxWaiting
  /\ \/ buffer' = Append(buffer, Head(incoming)) /\ UNCHANGED clean
     \/ buffer' \in {Append(buffer, NOISE), buffer} /\ clean' = FALSE
  /\ incoming' = Tail(incoming)
  /\ UNCHANGED <<asked, kind, pc, response, empties, pending, taken, outcome>>

\* A byte no device sent.
Disturb ==
  /\ Len(buffer) < MaxWaiting
  /\ buffer' = Append(buffer, NOISE)
  /\ clean' = FALSE
  /\ UNCHANGED <<asked, kind, pc, response, empties, incoming, pending, taken, outcome>>

LineNext ==
  \/ Begin \/ ClientStep \/ PortRaises
  \/ \E r \in pending : DeviceAnswers(r[1], r[2])
  \/ Arrive \/ Disturb

LineSpec == LineInit /\ [][LineNext]_lineVars

\* Reads of the port return by its timeout, with or without bytes.  Nothing is
\* assumed of devices and line.
LineFairness == WF_lineVars(ClientStep)

LineFairSpec == LineSpec /\ LineFairness

-----------------------------------------------------------------------------
(* Properties *)

LineTypeOK ==
  /\ asked \in 0 .. MaxExchanges /\ kind \in {"read", "write"}
  /\ pc \in {"idle", "first", "rest"}
  /\ response \in Seq(Tokens) /\ Len(response) < ReadLimit + MaxWaiting
  /\ pc = "rest" => response # <<>>
  /\ empties \in 0 .. EmptyReads
  /\ incoming \in Seq(Tokens) /\ buffer \in Seq(Tokens) /\ Len(buffer) <= MaxWaiting
  /\ pending \subseteq (1 .. asked) \X {"read", "write"} /\ taken \subseteq 1 .. asked
  /\ outcome \in Failures \cup {Answer(r) : r \in 1 .. asked}
  /\ clean \in BOOLEAN

E == INSTANCE Exchanges WITH
       waiting <- pc # "idle", unanswered <- (1 .. asked) \ taken

\* To the gateway the line is a row of exchanges, each with an answer or an
\* error: bytes of two answers never make a third, and no answer is returned
\* twice, however late, cut, damaged or mixed with the next one the bytes come
\* (_read_oven_response, _normalize_frame_response, reset_input_buffer).
ImplementsExchanges == E!Spec

\* Whatever earlier exchanges left behind in the input buffer, one with nothing
\* else on the line and no gap in its answer gets it: the frame, or the short
\* acknowledgement of a write.
CleanExchangesSucceed ==
  [][pc = "rest" /\ pc' = "idle" /\ clean =>
       \/ outcome' \in {Answer(asked), PortError}
       \/ kind = "write" /\ outcome' = Opaque]_lineVars

\* Every exchange ends, whatever comes on the line and for however long: noise
\* without end does not keep the worker thread, and with it the line.
ExchangesEnd == (pc # "idle") ~> (pc = "idle")
=============================================================================
