--------------------------- MODULE SerialLineProofs --------------------------
(***************************************************************************)
(* Proofs about one serial line: for any number of requests and bytes, and *)
(* whatever the line does to them, its client makes a row of exchanges as  *)
(* Exchanges.tla has it, and a clean one succeeds.                         *)
(***************************************************************************)
EXTENDS SerialLine, TLAPS, SequenceTheorems

-----------------------------------------------------------------------------
(* Tokens: what tells the second half of one answer from everything else   *)

Second(r) == Half(2, r)

LEMMA TokensDiffer ==
  /\ \A i, r, j, q : Half(i, r) = Half(j, q) => i = j /\ r = q
  /\ \A i, r : /\ Half(i, r) # START /\ Half(i, r) # END
               /\ Half(i, r) # ACK /\ Half(i, r) # NOISE
  /\ START # END /\ START # ACK /\ END # ACK
<1>1. /\ START[1] = "start" /\ END[1] = "end" /\ ACK[1] = "ack" /\ NOISE[1] = "noise"
      /\ \A i, r : Half(i, r)[1] = "body" /\ Half(i, r)[2] = i /\ Half(i, r)[3] = r
  BY DEF START, END, ACK, NOISE, Half
<1>2. QED  BY <1>1

LEMMA OutcomesDiffer ==
  /\ \A r : Answer(r) \notin Failures /\ Answer(r)[2] = r
  /\ \A r, q : Answer(r) = Answer(q) => r = q
  /\ PortError # Opaque /\ PortError \in Failures
<1>1. /\ NoAnswer[1] = "none" /\ TimedOut[1] = "timeout" /\ Undecodable[1] = "error"
      /\ PortError[1] = "io" /\ Opaque[1] = "opaque"
      /\ \A r : Answer(r)[1] = "answer" /\ Answer(r)[2] = r
  BY DEF NoAnswer, TimedOut, Undecodable, PortError, Opaque, Answer
<1>2. QED  BY <1>1 DEF Failures

LEMMA AnswersAreTokens ==
  ASSUME NEW r \in 1 .. MaxExchanges
  PROVE  FrameOf(r) \in Seq(Tokens) /\ ShortAckOf(r) \in Seq(Tokens)
<1>1. /\ START \in Tokens /\ END \in Tokens /\ ACK \in Tokens
      /\ Half(1, r) \in Tokens /\ Half(2, r) \in Tokens
  BY DEF Tokens
<1>2. QED  BY <1>1 DEF FrameOf, ShortAckOf

-----------------------------------------------------------------------------
(* Sequences of tokens in pieces *)

\* The second half of the answer to r is in s; it is there once at most.
Has(s, r)  == \E i \in DOMAIN s : s[i] = Second(r)
Once(s, r) == \A i, j \in DOMAIN s : s[i] = Second(r) /\ s[j] = Second(r) => i = j

LEMMA ConcatHas ==
  ASSUME NEW s \in Seq(Tokens), NEW t \in Seq(Tokens), NEW r
  PROVE  /\ s \o t \in Seq(Tokens)
         /\ Has(s \o t, r) <=> Has(s, r) \/ Has(t, r)
         /\ Once(s \o t, r) <=> Once(s, r) /\ Once(t, r) /\ ~ (Has(s, r) /\ Has(t, r))
<1> DEFINE u == s \o t
           m == Len(s)
           n == Len(t)
<1>1. /\ m \in Nat /\ n \in Nat /\ DOMAIN s = 1 .. m /\ DOMAIN t = 1 .. n
      /\ u \in Seq(Tokens) /\ DOMAIN u = 1 .. m + n
      /\ \A i \in 1 .. m + n : u[i] = IF i <= m THEN s[i] ELSE t[i - m]
  BY LenProperties, ConcatProperties
<1> HIDE DEF u, m, n
<1>2. /\ \A i \in 1 .. m : i \in 1 .. m + n /\ u[i] = s[i]
      /\ \A i \in 1 .. n : i + m \in 1 .. m + n /\ u[i + m] = t[i]
  BY <1>1
<1>3. \A i \in 1 .. m + n : \/ i \in 1 .. m /\ u[i] = s[i]
                            \/ i - m \in 1 .. n /\ u[i] = t[i - m] /\ i \notin 1 .. m
  BY <1>1
<1>4. Has(u, r) <=> Has(s, r) \/ Has(t, r)
  <2>1. Has(u, r) => Has(s, r) \/ Has(t, r)  BY <1>1, <1>3 DEF Has
  <2>2. Has(s, r) => Has(u, r)  BY <1>1, <1>2 DEF Has
  <2>3. Has(t, r) => Has(u, r)  BY <1>1, <1>2 DEF Has
  <2>4. QED  BY <2>1, <2>2, <2>3
<1>5. ASSUME Once(u, r) PROVE Once(s, r) /\ Once(t, r) /\ ~ (Has(s, r) /\ Has(t, r))
  <2>1. Once(s, r)  BY <1>1, <1>2, <1>5 DEF Once
  <2>2. ASSUME NEW i \in 1 .. n, NEW j \in 1 .. n, t[i] = Second(r), t[j] = Second(r)
        PROVE  i = j
    <3>1. i + m = j + m  BY <1>1, <1>2, <1>5, <2>2 DEF Once
    <3>2. QED  BY <1>1, <3>1
  <2>3. ASSUME NEW i \in 1 .. m, NEW j \in 1 .. n, s[i] = Second(r), t[j] = Second(r)
        PROVE  FALSE
    <3>1. i = j + m  BY <1>1, <1>2, <1>5, <2>3 DEF Once
    <3>2. QED  BY <1>1, <3>1
  <2>4. QED  BY <1>1, <2>1, <2>2, <2>3 DEF Once, Has
<1>6. ASSUME Once(s, r), Once(t, r), ~ (Has(s, r) /\ Has(t, r)) PROVE Once(u, r)
  <2> SUFFICES ASSUME NEW i \in 1 .. m + n, NEW j \in 1 .. m + n,
                      u[i] = Second(r), u[j] = Second(r)
               PROVE  i = j
    BY <1>1 DEF Once
  <2>1. CASE i \in 1 .. m /\ j \in 1 .. m  BY <1>1, <1>2, <1>6, <2>1 DEF Once
  <2>2. CASE i \notin 1 .. m /\ j \notin 1 .. m
    <3>1. i - m \in 1 .. n /\ j - m \in 1 .. n /\ t[i - m] = Second(r) /\ t[j - m] = Second(r)
      BY <1>3, <2>2
    <3>2. i - m = j - m  BY <1>1, <1>6, <3>1 DEF Once
    <3>3. QED  BY <1>1, <3>2
  <2>3. CASE i \in 1 .. m /\ j \notin 1 .. m
    <3>1. Has(s, r)  BY <1>1, <1>2, <2>3 DEF Has
    <3>2. Has(t, r)  BY <1>1, <1>3, <2>3 DEF Has
    <3>3. QED  BY <1>6, <3>1, <3>2
  <2>4. CASE i \notin 1 .. m /\ j \in 1 .. m
    <3>1. Has(s, r)  BY <1>1, <1>2, <2>4 DEF Has
    <3>2. Has(t, r)  BY <1>1, <1>3, <2>4 DEF Has
    <3>3. QED  BY <1>6, <3>1, <3>2
  <2>5. QED  BY <2>1, <2>2, <2>3, <2>4
<1>7. QED  BY <1>1, <1>4, <1>5, <1>6 DEF u

LEMMA AnswerHas ==
  ASSUME NEW r, NEW q
  PROVE  /\ Has(FrameOf(r), q) => q = r
         /\ Once(FrameOf(r), q) /\ ~Has(ShortAckOf(r), q) /\ Once(ShortAckOf(r), q)
<1>1. /\ DOMAIN FrameOf(r) = 1 .. 4 /\ FrameOf(r)[1] = START /\ FrameOf(r)[2] = Half(1, r)
      /\ FrameOf(r)[3] = Second(r) /\ FrameOf(r)[4] = END
      /\ DOMAIN ShortAckOf(r) = 1 .. 3 /\ ShortAckOf(r)[1] = START
      /\ ShortAckOf(r)[2] = Half(1, r) /\ ShortAckOf(r)[3] = ACK
  BY DEF FrameOf, ShortAckOf, Second
<1>2. \A i \in 1 .. 4 : FrameOf(r)[i] = Second(q) => i = 3 /\ q = r
  <2>1. ASSUME NEW i \in 1 .. 4 PROVE i = 1 \/ i = 2 \/ i = 3 \/ i = 4  OBVIOUS
  <2>2. QED  BY <1>1, <2>1, TokensDiffer DEF Second
<1>3. \A i \in 1 .. 3 : ShortAckOf(r)[i] # Second(q)
  <2>1. ASSUME NEW i \in 1 .. 3 PROVE i = 1 \/ i = 2 \/ i = 3  OBVIOUS
  <2>2. QED  BY <1>1, <2>1, TokensDiffer DEF Second
<1>4. QED  BY <1>1, <1>2, <1>3 DEF Has, Once

LEMMA NoiseHas ==
  /\ <<NOISE>> \in Seq(Tokens) /\ <<>> \in Seq(Tokens)
  /\ \A r : ~Has(<<NOISE>>, r) /\ Once(<<NOISE>>, r) /\ ~Has(<<>>, r) /\ Once(<<>>, r)
<1>1. <<NOISE>> \in Seq(Tokens) /\ <<>> \in Seq(Tokens)  BY DEF Tokens
<1>2. \A i \in DOMAIN <<NOISE>> : i = 1 /\ <<NOISE>>[i] = NOISE  OBVIOUS
<1>3. QED  BY <1>1, <1>2, TokensDiffer DEF Has, Once, Second

LEMMA HeadAndTail ==
  ASSUME NEW s \in Seq(Tokens), s # <<>>
  PROVE  /\ <<Head(s)>> \in Seq(Tokens) /\ Tail(s) \in Seq(Tokens)
         /\ s = <<Head(s)>> \o Tail(s)
OBVIOUS

LEMMA FirstAndLast ==
  ASSUME NEW s \in Seq(Tokens), NEW n \in 1 .. Len(s)
  PROVE  /\ SubSeq(s, 1, n) \in Seq(Tokens) /\ SubSeq(s, n + 1, Len(s)) \in Seq(Tokens)
         /\ Len(SubSeq(s, 1, n)) = n
         /\ s = SubSeq(s, 1, n) \o SubSeq(s, n + 1, Len(s))
OBVIOUS

-----------------------------------------------------------------------------
(* The bytes of a line in their order: read, waiting, still to come        *)

Stream == (response \o buffer) \o incoming

\* Shapes of the variables that need no knowledge of the tokens.
Shape ==
  /\ asked \in 0 .. MaxExchanges /\ kind \in {"read", "write"}
  /\ pc \in {"idle", "first", "rest"}
  /\ response \in Seq(Tokens) /\ Len(response) < ReadLimit + MaxWaiting
  /\ pc = "rest" => response # <<>>
  /\ pc # "rest" => response = <<>> /\ empties = 0
  /\ empties \in 0 .. EmptyReads
  /\ incoming \in Seq(Tokens) /\ buffer \in Seq(Tokens) /\ Len(buffer) <= MaxWaiting
  /\ pending \subseteq (1 .. asked) \X {"read", "write"}
  /\ clean \in BOOLEAN
  /\ pc # "idle" => asked # 0

LEMMA StreamHas ==
  ASSUME Shape, NEW r
  PROVE  /\ Stream \in Seq(Tokens)
         /\ Has(Stream, r) <=> Has(response, r) \/ Has(buffer, r) \/ Has(incoming, r)
         /\ Once(Stream, r) =>
              /\ Once(buffer, r) /\ Once(incoming, r)
              /\ ~ (Has(buffer, r) /\ Has(incoming, r))
              /\ ~ (Has(response, r) /\ (Has(buffer, r) \/ Has(incoming, r)))
<1>1. response \in Seq(Tokens) /\ buffer \in Seq(Tokens) /\ incoming \in Seq(Tokens)
  BY DEF Shape
<1>2. response \o buffer \in Seq(Tokens)  BY <1>1, ConcatHas
<1>3. QED  BY <1>1, <1>2, ConcatHas DEF Stream

LEMMA PlainSequences ==
  ASSUME NEW s \in Seq(Tokens)
  PROVE  <<>> \o s = s /\ s \o <<>> = s
OBVIOUS

LEMMA AppendNoise ==
  ASSUME NEW s \in Seq(Tokens)
  PROVE  Append(s, NOISE) = s \o <<NOISE>> /\ Append(s, NOISE) \in Seq(Tokens)
BY NoiseHas DEF Tokens

LEMMA InPieces ==
  ASSUME NEW s \in Seq(Tokens), NEW t \in Seq(Tokens), NEW u \in Seq(Tokens)
  PROVE  (s \o t) \o u = s \o (t \o u)
BY ConcatAssociative

LEMMA OneLonger ==
  ASSUME NEW s \in Seq(Tokens), NEW t \in Seq(Tokens), Len(t) = 1
  PROVE  s \o t \in Seq(Tokens) /\ Len(s \o t) = Len(s) + 1 /\ Len(s) \in Nat
BY ConcatProperties

\* What a step does to the stream: everything but an answer of a device leaves
\* no second half that was not there, or there once more.
Fewer(new, old) == \A r : /\ Has(new, r) => Has(old, r)
                          /\ Once(old, r) => Once(new, r)

LEMMA FewerParts ==
  ASSUME NEW a \in Seq(Tokens), NEW b \in Seq(Tokens), NEW c \in Seq(Tokens), NEW d \in Seq(Tokens),
         Fewer(a, c), Fewer(b, d)
  PROVE  Fewer(a \o b, c \o d)
<1> SUFFICES ASSUME NEW r
             PROVE  /\ Has(a \o b, r) => Has(c \o d, r)
                    /\ Once(c \o d, r) => Once(a \o b, r)
  BY DEF Fewer
<1>1. /\ Has(a \o b, r) <=> Has(a, r) \/ Has(b, r)
      /\ Once(a \o b, r) <=> Once(a, r) /\ Once(b, r) /\ ~ (Has(a, r) /\ Has(b, r))
  BY ConcatHas
<1>2. /\ Has(c \o d, r) <=> Has(c, r) \/ Has(d, r)
      /\ Once(c \o d, r) <=> Once(c, r) /\ Once(d, r) /\ ~ (Has(c, r) /\ Has(d, r))
  BY ConcatHas
<1>3. QED  BY <1>1, <1>2 DEF Fewer

LEMMA FewerSame ==
  ASSUME NEW s \in Seq(Tokens)
  PROVE  Fewer(s, s) /\ Fewer(s \o <<NOISE>>, s)
<1>1. Fewer(s, s)  BY DEF Fewer
<1>2. ASSUME NEW r
      PROVE  /\ Has(s \o <<NOISE>>, r) => Has(s, r)
             /\ Once(s, r) => Once(s \o <<NOISE>>, r)
  <2>1. <<NOISE>> \in Seq(Tokens) /\ ~Has(<<NOISE>>, r) /\ Once(<<NOISE>>, r)  BY NoiseHas
  <2>2. QED  BY <2>1, ConcatHas
<1>3. QED  BY <1>1, <1>2 DEF Fewer

LEMMA FewerOfTail ==
  ASSUME NEW s \in Seq(Tokens), s # <<>>
  PROVE  Tail(s) \in Seq(Tokens) /\ Fewer(Tail(s), s)
<1>1. PICK h, t : h = <<Head(s)>> /\ t = Tail(s)  OBVIOUS
<1>2. h \in Seq(Tokens) /\ t \in Seq(Tokens) /\ s = h \o t  BY <1>1, HeadAndTail
<1>3. Fewer(t, s)  BY <1>2, ConcatHas DEF Fewer
<1>4. QED  BY <1>1, <1>2, <1>3

LEMMA BeginShape ==
  ASSUME Shape, Begin
  PROVE  Shape' /\ Stream' = incoming /\ Fewer(Stream', Stream)
<1>1. response = <<>> /\ buffer' = <<>> /\ response' = <<>> /\ incoming' = incoming
  BY DEF Begin, Shape, ResetInputBuffer
<1>2. incoming \in Seq(Tokens) /\ <<>> \in Seq(Tokens)  BY DEF Shape
<1>3. Stream' = incoming  BY <1>1, <1>2, PlainSequences DEF Stream
<1>4. Fewer(Stream', Stream)  BY <1>3, StreamHas DEF Fewer
<1>5. pending' \subseteq (1 .. asked') \X {"read", "write"}
  BY DEF Begin, Shape
<1>6. buffer' \in Seq(Tokens) /\ Len(buffer') <= MaxWaiting
  BY <1>1, LineAssumption
<1>7. asked' \in 0 .. MaxExchanges /\ asked' # 0  BY LineAssumption DEF Begin, Shape
<1>8. clean' \in BOOLEAN  BY DEF Begin
<1>9. Shape'  BY <1>1, <1>5, <1>6, <1>7, <1>8 DEF Shape, Begin
<1>10. QED  BY <1>3, <1>4, <1>9

LEMMA FinishShape ==
  ASSUME Shape, NEW how, Finish(how)
  PROVE  Shape' /\ Stream' = buffer \o incoming /\ Fewer(Stream', Stream)
         /\ \A r : Once(Stream, r) /\ Has(response, r) => ~Has(Stream', r)
<1>1. response' = <<>> /\ buffer' = buffer /\ incoming' = incoming  BY DEF Finish
<1>2. buffer \in Seq(Tokens) /\ incoming \in Seq(Tokens)  BY DEF Shape
<1>3. Stream' = buffer \o incoming  BY <1>1, <1>2, PlainSequences DEF Stream
<1>4. Fewer(Stream', Stream) /\ \A r : Once(Stream, r) /\ Has(response, r) => ~Has(Stream', r)
  BY <1>2, <1>3, ConcatHas, StreamHas DEF Fewer
<1>5. Len(response') < ReadLimit + MaxWaiting /\ response' \in Seq(Tokens)
  BY <1>1, LineAssumption
<1>6. Shape'  BY <1>1, <1>5, LineAssumption DEF Shape, Finish
<1>7. QED  BY <1>3, <1>4, <1>6

LEMMA ReadFirstShape ==
  ASSUME Shape, ReadFirst
  PROVE  Shape' /\ Stream' = Stream
<1>1. /\ response = <<>> /\ buffer # <<>> /\ response' = <<Head(buffer)>>
      /\ buffer' = Tail(buffer) /\ incoming' = incoming
  BY DEF ReadFirst, Shape
<1>2. buffer \in Seq(Tokens) /\ incoming \in Seq(Tokens)  BY DEF Shape
<1>3. /\ response' \in Seq(Tokens) /\ buffer' \in Seq(Tokens)
      /\ buffer = response' \o buffer'
  BY <1>1, <1>2, HeadAndTail
<1>4. Stream' = Stream  BY <1>1, <1>2, <1>3, PlainSequences DEF Stream
<1>5. Len(buffer) \in Nat \ {0} /\ Len(buffer') = Len(buffer) - 1  BY <1>1, <1>2
<1>6. Len(response') = 1 /\ response' # <<>>  BY <1>1
<1>7. Len(response') < ReadLimit + MaxWaiting /\ Len(buffer') <= MaxWaiting
  BY <1>5, <1>6, LineAssumption DEF Shape
<1>8. Shape'  BY <1>3, <1>6, <1>7 DEF Shape, ReadFirst
<1>9. QED  BY <1>4, <1>8

LEMMA ReadChunkShape ==
  ASSUME Shape, ReadChunk
  PROVE  Shape' /\ Stream' = Stream
<1>1. PICK n \in 1 .. Len(buffer) :
        /\ response' = response \o SubSeq(buffer, 1, n)
        /\ buffer' = SubSeq(buffer, n + 1, Len(buffer))
  BY DEF ReadChunk
<1>2. /\ response \in Seq(Tokens) /\ buffer \in Seq(Tokens) /\ incoming \in Seq(Tokens)
      /\ incoming' = incoming /\ response # <<>>
  BY DEF Shape, ReadChunk
<1> DEFINE first == SubSeq(buffer, 1, n)
           rest  == SubSeq(buffer, n + 1, Len(buffer))
<1>3. /\ first \in Seq(Tokens) /\ rest \in Seq(Tokens) /\ Len(first) = n
      /\ buffer = first \o rest
  BY <1>2, FirstAndLast
<1>4. n \in Nat /\ Len(rest) <= MaxWaiting /\ n <= MaxWaiting
  <2>1. Len(buffer) \in Nat /\ Len(buffer) <= MaxWaiting  BY <1>2 DEF Shape
  <2>2. Len(buffer) = Len(first) + Len(rest)  BY <1>3, ConcatProperties
  <2>3. Len(rest) \in Nat  BY <1>3
  <2>4. QED  BY <1>3, <2>1, <2>2, <2>3, LineAssumption
<1> HIDE DEF first, rest
<1>5. response' = response \o first /\ buffer' = rest  BY <1>1 DEF first, rest
<1>6. Stream' = Stream
  <2>1. (response \o first) \o rest = response \o (first \o rest)
    BY <1>2, <1>3, ConcatAssociative
  <2>2. QED  BY <1>2, <1>3, <1>5, <2>1 DEF Stream
<1>7. /\ response' \in Seq(Tokens) /\ Len(response') = Len(response) + n
  BY <1>2, <1>3, <1>5, ConcatProperties
<1>8. Len(response) \in Nat /\ Len(response) # 0 /\ Len(response) < ReadLimit
  BY <1>2, LineAssumption DEF ReadChunk, IsWhole
<1>9. Len(response') < ReadLimit + MaxWaiting /\ response' # <<>>
  BY <1>4, <1>7, <1>8, LineAssumption
<1>10. empties' \in 0 .. EmptyReads  BY LineAssumption DEF ReadChunk
<1>11. Shape'  BY <1>3, <1>4, <1>5, <1>7, <1>9, <1>10 DEF Shape, ReadChunk
<1>12. QED  BY <1>6, <1>11

LEMMA ReadNothingShape ==
  ASSUME Shape, ReadNothing
  PROVE  Shape' /\ Stream' = Stream
<1>1. empties' \in 0 .. EmptyReads
  BY LineAssumption DEF ReadNothing, CountEmptyRead, Shape
<1>2. QED  BY <1>1 DEF ReadNothing, Shape, Stream

LEMMA AnswersShape ==
  ASSUME Shape, NEW r, NEW asks, DeviceAnswers(r, asks)
  PROVE  /\ Shape' /\ r \in 1 .. asked /\ asks \in {"read", "write"}
         /\ \/ Stream' = Stream \o FrameOf(r)
            \/ asks = "write" /\ Stream' = Stream \o ShortAckOf(r)
         /\ FrameOf(r) \in Seq(Tokens) /\ ShortAckOf(r) \in Seq(Tokens)
<1>1. r \in 1 .. asked /\ asks \in {"read", "write"}  BY DEF DeviceAnswers, Shape
<1>2. FrameOf(r) \in Seq(Tokens) /\ ShortAckOf(r) \in Seq(Tokens)
  <2>1. r \in 1 .. MaxExchanges  BY <1>1, LineAssumption DEF Shape
  <2>2. QED  BY <2>1, AnswersAreTokens
<1>3. PICK answer \in Seq(Tokens) :
        /\ incoming' = incoming \o answer
        /\ \/ answer = FrameOf(r)
           \/ asks = "write" /\ answer = ShortAckOf(r)
  BY <1>2 DEF DeviceAnswers
<1>4. /\ response \o buffer \in Seq(Tokens) /\ incoming \in Seq(Tokens)
      /\ response' = response /\ buffer' = buffer
  BY ConcatHas DEF Shape, DeviceAnswers
<1>5. Stream' = Stream \o answer
  <2>1. \A u \in Seq(Tokens) : (u \o incoming) \o answer = u \o (incoming \o answer)
    BY <1>3, <1>4, ConcatAssociative
  <2>2. QED  BY <1>3, <1>4, <2>1 DEF Stream
<1>6. incoming' \in Seq(Tokens)  BY <1>3, <1>4, ConcatHas
<1>7. Shape'  BY <1>6 DEF Shape, DeviceAnswers
<1>8. QED  BY <1>1, <1>2, <1>3, <1>5, <1>7

LEMMA ArriveShape ==
  ASSUME Shape, Arrive
  PROVE  /\ Shape' /\ Fewer(Stream', Stream)
         /\ Stream' = Stream \/ clean' = FALSE
<1>1. PICK h, t : h = <<Head(incoming)>> /\ t = Tail(incoming)  OBVIOUS
<1>2. /\ response \in Seq(Tokens) /\ buffer \in Seq(Tokens) /\ incoming \in Seq(Tokens)
      /\ response' = response /\ incoming' = t /\ incoming # <<>> /\ Len(buffer) < MaxWaiting
  BY <1>1 DEF Shape, Arrive
<1>3. /\ h \in Seq(Tokens) /\ t \in Seq(Tokens) /\ incoming = h \o t
      /\ Head(incoming) \in Tokens /\ NOISE \in Tokens
  BY <1>1, <1>2, HeadAndTail DEF Tokens
<1>4. \/ buffer' = buffer \o h /\ UNCHANGED clean
      \/ clean' = FALSE /\ buffer' = buffer \o <<NOISE>>
      \/ clean' = FALSE /\ buffer' = buffer
  BY <1>1, <1>2, <1>3, AppendIsConcat DEF Arrive
<1>5. Len(h) = 1 /\ <<NOISE>> \in Seq(Tokens) /\ Len(<<NOISE>>) = 1  BY <1>1, NoiseHas
<1>6. /\ buffer' \in Seq(Tokens) /\ Len(buffer) \in Nat
      /\ Len(buffer') = Len(buffer) + 1 \/ Len(buffer') = Len(buffer)
  <2>1. CASE buffer' = buffer \o h  BY <1>2, <1>3, <1>5, <2>1, OneLonger
  <2>2. CASE buffer' = buffer \o <<NOISE>>  BY <1>2, <1>5, <2>2, OneLonger
  <2>3. CASE buffer' = buffer  BY <1>2, <2>3
  <2>4. QED  BY <1>4, <2>1, <2>2, <2>3
<1>7. Len(buffer') <= MaxWaiting
  BY <1>2, <1>6, LineAssumption
<1>8. clean' \in BOOLEAN  BY <1>4 DEF Shape
<1>9. Shape'  BY <1>2, <1>3, <1>6, <1>7, <1>8 DEF Shape, Arrive
<1>10. CASE buffer' = buffer \o h /\ UNCHANGED clean
  <2>1. response \o (buffer \o h) = (response \o buffer) \o h  
    <3>1. response \in Seq(Tokens) /\ buffer \in Seq(Tokens) /\ h \in Seq(Tokens)  BY <1>2, <1>3
    <3>2. QED  BY <3>1, InPieces
  <2>2. response \o buffer \in Seq(Tokens)  BY <1>2, ConcatHas
  <2>3. ((response \o buffer) \o h) \o t = (response \o buffer) \o (h \o t)
    BY <1>3, <2>2, InPieces
  <2>4. Stream' = Stream  BY <1>2, <1>3, <1>10, <2>1, <2>3 DEF Stream
  <2>5. QED  BY <1>9, <2>4 DEF Fewer
<1>11. CASE clean' = FALSE /\ buffer' \in {buffer \o <<NOISE>>, buffer}
  <2>1. Fewer(response, response) /\ Fewer(buffer', buffer)  BY <1>2, <1>11, FewerSame
  <2>2. Fewer(t, incoming)  BY <1>1, <1>2, FewerOfTail
  <2>3. Fewer(response \o buffer', response \o buffer)  BY <1>2, <1>6, <2>1, FewerParts
  <2>4. response \o buffer' \in Seq(Tokens) /\ response \o buffer \in Seq(Tokens)
    BY <1>2, <1>6, ConcatHas
  <2>5. Fewer((response \o buffer') \o t, (response \o buffer) \o incoming)
    BY <1>2, <1>3, <2>2, <2>3, <2>4, FewerParts
  <2>6. Fewer(Stream', Stream)  BY <1>2, <2>5 DEF Stream
  <2>7. QED  BY <1>9, <1>11, <2>6
<1>12. QED  BY <1>4, <1>10, <1>11

LEMMA DisturbShape ==
  ASSUME Shape, Disturb
  PROVE  Shape' /\ Fewer(Stream', Stream) /\ clean' = FALSE
<1>1. /\ response \in Seq(Tokens) /\ buffer \in Seq(Tokens) /\ incoming \in Seq(Tokens)
      /\ response' = response /\ incoming' = incoming /\ Len(buffer) < MaxWaiting
      /\ buffer' = Append(buffer, NOISE)
  BY DEF Shape, Disturb
<1>2. buffer' = buffer \o <<NOISE>> /\ Len(buffer') = Len(buffer) + 1 /\ buffer' \in Seq(Tokens)
  BY <1>1, AppendNoise
<1>3. Len(buffer) \in Nat /\ Len(buffer') <= MaxWaiting  BY <1>1, <1>2, LineAssumption
<1>4. Shape'  BY <1>1, <1>2, <1>3 DEF Shape, Disturb
<1>5. Fewer(response, response) /\ Fewer(buffer', buffer) /\ Fewer(incoming, incoming)
  BY <1>1, <1>2, FewerSame
<1>6. response \o buffer' \in Seq(Tokens) /\ response \o buffer \in Seq(Tokens)
  BY <1>1, <1>2, ConcatHas
<1>7. Fewer(response \o buffer', response \o buffer)  BY <1>1, <1>2, <1>5, FewerParts
<1>8. Fewer((response \o buffer') \o incoming, (response \o buffer) \o incoming)
  BY <1>1, <1>5, <1>6, <1>7, FewerParts
<1>9. Fewer(Stream', Stream)  BY <1>1, <1>8 DEF Stream
<1>10. QED  BY <1>4, <1>9 DEF Disturb

-----------------------------------------------------------------------------
(* Whose answer is still somewhere: each with its device, on the line or   *)
(* with the client, once, and never again after an exchange returned it    *)

Owes(r) == <<r, "read">> \in pending \/ <<r, "write">> \in pending

SaneRequest(r) ==
  /\ ~ (<<r, "read">> \in pending /\ <<r, "write">> \in pending)
  /\ Once(Stream, r)
  /\ ~ (Owes(r) /\ Has(Stream, r))
  /\ (Owes(r) \/ Has(Stream, r)) => r \in 1 .. asked /\ r \notin taken

TokenInv ==
  /\ Shape
  /\ \A r \in 1 .. MaxExchanges : SaneRequest(r)
  /\ taken \subseteq 1 .. asked
  /\ outcome \in Failures \cup {Answer(r) : r \in 1 .. asked}

LEMMA InitTokens ==
  ASSUME LineInit
  PROVE  TokenInv /\ Stream = <<>>
<1>1. response = <<>> /\ buffer = <<>> /\ incoming = <<>> /\ <<>> \in Seq(Tokens)
  BY DEF LineInit
<1>2. Stream = <<>>
  <2>1. <<>> \o <<>> = <<>>  BY <1>1, PlainSequences
  <2>2. QED  BY <1>1, <2>1 DEF Stream
<1>3. Shape
  BY <1>1, LineAssumption DEF LineInit, Shape
<1>4. ASSUME NEW r PROVE SaneRequest(r)
  <2>1. Once(Stream, r) /\ ~Has(Stream, r)  BY <1>2, NoiseHas
  <2>2. ~Owes(r)  BY DEF Owes, LineInit
  <2>3. QED  BY <2>1, <2>2 DEF SaneRequest, LineInit
<1>5. QED  BY <1>2, <1>3, <1>4 DEF TokenInv, LineInit, Failures

\* A step that asks nothing, answers nothing and returns nothing.
LEMMA QuietTokens ==
  ASSUME TokenInv, Shape', Fewer(Stream', Stream),
         UNCHANGED <<asked, pending, taken>>, outcome' \in {outcome} \cup Failures
  PROVE  TokenInv'
<1>1. ASSUME NEW r \in 1 .. MaxExchanges PROVE SaneRequest(r)'
  <2>1. SaneRequest(r)  BY DEF TokenInv
  <2>2. Owes(r)' <=> Owes(r)  BY DEF Owes
  <2>3. /\ Has(Stream', r) => Has(Stream, r)
        /\ Once(Stream, r) => Once(Stream', r)
    BY DEF Fewer
  <2>4. QED  BY <2>1, <2>2, <2>3 DEF SaneRequest
<1>2. QED  BY <1>1 DEF TokenInv

LEMMA BeginTokens ==
  ASSUME TokenInv, Begin
  PROVE  TokenInv'
<1>1. Shape' /\ Fewer(Stream', Stream)  BY BeginShape DEF TokenInv
<1>2. PICK k \in {"read", "write"} : kind' = k /\ pending' = pending \cup {<<asked + 1, k>>}
  BY DEF Begin
<1>3. asked' = asked + 1 /\ taken' = taken /\ outcome' = outcome /\ asked \in Nat
  BY LineAssumption DEF Begin, TokenInv, Shape
<1>4. ASSUME NEW r \in 1 .. MaxExchanges PROVE SaneRequest(r)'
  <2>1. SaneRequest(r)  BY DEF TokenInv
  <2>2. /\ Has(Stream', r) => Has(Stream, r)
        /\ Once(Stream, r) => Once(Stream', r)
    BY <1>1 DEF Fewer
  <2>3. CASE r = asked + 1
    <3>1. ~Has(Stream', r) /\ ~Owes(r)
      BY <1>3, <2>1, <2>2, <2>3 DEF SaneRequest
    <3>2. r \notin taken  BY <1>3, <2>3 DEF TokenInv
    <3>3. ~ (<<r, "read">> \in pending' /\ <<r, "write">> \in pending')
      BY <1>2, <3>1 DEF Owes
    <3>4. r \in 1 .. asked'  BY <1>3, <2>3
    <3>5. QED  BY <1>3, <2>1, <2>2, <3>1, <3>2, <3>3, <3>4 DEF SaneRequest
  <2>4. CASE r # asked + 1
    <3>1. \A a \in {"read", "write"} : <<r, a>> \in pending' <=> <<r, a>> \in pending
      BY <1>2, <2>4
    <3>2. Owes(r)' <=> Owes(r)  BY <3>1 DEF Owes
    <3>3. r \in 1 .. asked => r \in 1 .. asked'  BY <1>3
    <3>4. QED  BY <1>3, <2>1, <2>2, <3>1, <3>2, <3>3 DEF SaneRequest
  <2>5. QED  BY <2>3, <2>4
<1>5. 1 .. asked \subseteq 1 .. asked'  BY <1>3
<1>6. taken' \subseteq 1 .. asked' /\ outcome' \in Failures \cup {Answer(r) : r \in 1 .. asked'}
  BY <1>3, <1>5 DEF TokenInv
<1>7. QED  BY <1>1, <1>4, <1>6 DEF TokenInv

LEMMA AnswersTokens ==
  ASSUME TokenInv, NEW q, NEW asks, DeviceAnswers(q, asks)
  PROVE  TokenInv'
<1>1. /\ Shape' /\ q \in 1 .. asked /\ asks \in {"read", "write"}
      /\ FrameOf(q) \in Seq(Tokens) /\ ShortAckOf(q) \in Seq(Tokens)
  BY AnswersShape DEF TokenInv
<1>2. PICK answer \in {FrameOf(q), ShortAckOf(q)} : Stream' = Stream \o answer
  BY AnswersShape DEF TokenInv
<1>3. answer \in Seq(Tokens)  BY <1>1
<1>4. /\ <<q, asks>> \in pending /\ pending' = pending \ {<<q, asks>>}
      /\ asked' = asked /\ taken' = taken /\ outcome' = outcome
  BY DEF DeviceAnswers
<1>5. ASSUME NEW r \in 1 .. MaxExchanges PROVE SaneRequest(r)'
  <2>1. SaneRequest(r)  BY DEF TokenInv
  <2>2. /\ Stream \in Seq(Tokens) /\ Once(answer, r)
        /\ Has(answer, r) => r = q
    BY <1>2, AnswerHas, StreamHas DEF TokenInv
  <2>3. /\ Has(Stream', r) <=> Has(Stream, r) \/ Has(answer, r)
        /\ Once(Stream', r) <=> Once(Stream, r) /\ Once(answer, r)
                                /\ ~ (Has(Stream, r) /\ Has(answer, r))
    BY <1>2, <1>3, <2>2, ConcatHas
  <2>4. CASE r = q
    <3>1. Owes(r)  BY <1>1, <1>4, <2>4 DEF Owes
    <3>2. ~Has(Stream, r) /\ Once(Stream, r) /\ r \in 1 .. asked /\ r \notin taken
          /\ ~ (<<r, "read">> \in pending /\ <<r, "write">> \in pending)
      BY <2>1, <3>1 DEF SaneRequest
    <3>3. ~ Owes(r)'  BY <1>1, <1>4, <2>4, <3>2 DEF Owes
    <3>4. QED  BY <1>4, <2>2, <2>3, <3>2, <3>3 DEF SaneRequest, Owes
  <2>5. CASE r # q
    <3>1. \A a \in {"read", "write"} : <<r, a>> \in pending' <=> <<r, a>> \in pending
      BY <1>4, <2>5
    <3>2. Owes(r)' <=> Owes(r)  BY <3>1 DEF Owes
    <3>3. Has(Stream', r) <=> Has(Stream, r)  BY <2>2, <2>3, <2>5
    <3>4. Once(Stream', r) <=> Once(Stream, r)  BY <2>2, <2>3, <2>5
    <3>5. QED  BY <1>4, <2>1, <3>1, <3>2, <3>3, <3>4 DEF SaneRequest
  <2>6. QED  BY <2>4, <2>5
<1>6. QED  BY <1>1, <1>4, <1>5 DEF TokenInv

-----------------------------------------------------------------------------
(* An exchange that ends *)

\* What decodes as the answer to a request holds the second half of its body.
LEMMA DecodedHas ==
  ASSUME NEW s \in Seq(Tokens), s # <<>>, NEW r, Decodes(s, r)
  PROVE  Has(s, r)
<1>1. /\ Normalized(s) = FrameOf(r)
      /\ Normalized(s) = s \/ Normalized(s) = Append(s, END)
  BY DEF Decodes, Normalized
<1>2. FrameOf(r)[3] = Second(r) /\ Len(FrameOf(r)) = 4 /\ DOMAIN FrameOf(r) = 1 .. 4
  BY DEF FrameOf, Second
<1>3. CASE Normalized(s) = s  BY <1>1, <1>2, <1>3 DEF Has
<1>4. CASE Normalized(s) = Append(s, END)
  <2>1. Len(s) \in Nat /\ DOMAIN s = 1 .. Len(s)  BY LenProperties
  <2>2. END \in Tokens  BY DEF Tokens
  <2>3. Len(Append(s, END)) = Len(s) + 1 /\ \A i \in 1 .. Len(s) : Append(s, END)[i] = s[i]
    BY <2>1, <2>2, AppendProperties
  <2>4. Len(s) = 3  BY <1>1, <1>2, <1>4, <2>1, <2>3
  <2>5. s[3] = Second(r) /\ 3 \in DOMAIN s  BY <1>1, <1>2, <1>4, <2>1, <2>3, <2>4
  <2>6. QED  BY <2>5 DEF Has
<1>5. QED  BY <1>1, <1>3, <1>4

LEMMA FailTokens ==
  ASSUME TokenInv, NEW how \in Failures, Finish(how)
  PROVE  TokenInv'
<1>1. Shape' /\ Fewer(Stream', Stream)  BY FinishShape DEF TokenInv
<1>2. UNCHANGED <<asked, pending, taken>> /\ outcome' \in Failures  BY DEF Finish
<1>3. QED  BY <1>1, <1>2, QuietTokens

LEMMA ReturnTokens ==
  ASSUME TokenInv, NEW q \in 1 .. MaxExchanges, pc = "rest", Decodes(response, q),
         Finish(Answer(q))
  PROVE  /\ TokenInv' /\ q \in (1 .. asked) \ taken
         /\ taken' = taken \cup {q} /\ outcome' = Answer(q)
<1>1. Shape' /\ Fewer(Stream', Stream)
      /\ \A r : Once(Stream, r) /\ Has(response, r) => ~Has(Stream', r)
  BY FinishShape DEF TokenInv
<1>2. Has(response, q)  BY DecodedHas DEF TokenInv, Shape
<1>3. Has(Stream, q) /\ Once(Stream, q) /\ SaneRequest(q)
  BY <1>2, StreamHas DEF TokenInv, SaneRequest
<1>4. q \in (1 .. asked) \ taken /\ ~Owes(q) /\ ~Has(Stream', q)
  BY <1>1, <1>2, <1>3 DEF SaneRequest
<1>5. /\ taken' = taken \cup {q} /\ outcome' = Answer(q)
      /\ UNCHANGED <<asked, pending>>
  BY OutcomesDiffer DEF Finish
<1>6. ASSUME NEW r \in 1 .. MaxExchanges PROVE SaneRequest(r)'
  <2>1. SaneRequest(r)  BY DEF TokenInv
  <2>2. Owes(r)' <=> Owes(r)  BY <1>5 DEF Owes
  <2>3. /\ Has(Stream', r) => Has(Stream, r)
        /\ Once(Stream, r) => Once(Stream', r)
    BY <1>1 DEF Fewer
  <2>4. CASE r = q  BY <1>4, <1>5, <2>1, <2>2, <2>3, <2>4 DEF SaneRequest
  <2>5. CASE r # q  BY <1>5, <2>1, <2>2, <2>3, <2>5 DEF SaneRequest
  <2>6. QED  BY <2>4, <2>5
<1>7. QED  BY <1>1, <1>4, <1>5, <1>6 DEF TokenInv

\* How an exchange ends: with a failure, or with an answer that decodes.
LEMMA Endings ==
  ASSUME Shape, NothingRead \/ DecodeResponse \/ PortRaises
  PROVE  /\ pc # "idle" /\ pc' = "idle"
         /\ \/ \E how \in Failures : Finish(how)
            \/ /\ pc = "rest"
               /\ \E r \in 1 .. MaxExchanges : Decodes(response, r) /\ Finish(Answer(r))
BY DEF NothingRead, DecodeResponse, PortRaises, Finish, Failures

\* Every step keeps the invariant, and is a step of Exchanges or a stutter.
LEMMA TokenStep ==
  ASSUME TokenInv, [LineNext]_lineVars
  PROVE  /\ TokenInv'
         /\ [E!Next]_(E!vars)
<1> USE DEF E!Next, E!vars
<1>1. asked \in Nat  BY LineAssumption DEF TokenInv, Shape
<1>2. CASE Begin
  <2>1. TokenInv'  BY <1>2, BeginTokens
  <2>2. asked + 1 \notin taken  BY <1>1 DEF TokenInv
  <2>3. (1 .. asked') \ taken' = ((1 .. asked) \ taken) \cup {asked + 1}
    BY <1>1, <1>2, <2>2 DEF Begin
  <2>4. E!Begin  BY <1>2, <2>3 DEF Begin, E!Begin
  <2>5. QED  BY <2>1, <2>4
<1>3. CASE NothingRead \/ DecodeResponse \/ PortRaises
  <2>1. Shape /\ pc # "idle" /\ pc' = "idle"  BY <1>3, Endings DEF TokenInv
  <2>2. CASE \E how \in Failures : Finish(how)
    <3>1. PICK how \in Failures : Finish(how)  BY <2>2
    <3>2. TokenInv'  BY <3>1, FailTokens
    <3>3. E!Fail  BY <2>1, <3>1 DEF Finish, E!Fail
    <3>4. QED  BY <3>2, <3>3
  <2>3. CASE /\ pc = "rest"
             /\ \E r \in 1 .. MaxExchanges : Decodes(response, r) /\ Finish(Answer(r))
    <3>1. PICK q \in 1 .. MaxExchanges : Decodes(response, q) /\ Finish(Answer(q))  BY <2>3
    <3>2. /\ TokenInv' /\ q \in (1 .. asked) \ taken
          /\ taken' = taken \cup {q} /\ outcome' = Answer(q)
      BY <2>3, <3>1, ReturnTokens
    <3>3. asked' = asked  BY <3>1 DEF Finish
    <3>4. (1 .. asked') \ taken' = ((1 .. asked) \ taken) \ {q}  BY <3>2, <3>3
    <3>5. E!Return(q)  BY <2>1, <3>2, <3>3, <3>4 DEF E!Return, Answer
    <3>6. QED  BY <3>2, <3>5
  <2>4. QED  BY <1>3, <2>1, <2>2, <2>3, Endings
<1>4. CASE ReadFirst \/ ReadChunk \/ ReadNothing \/ Arrive \/ Disturb
  <2>1. Shape' /\ Fewer(Stream', Stream)
    <3>1. CASE ReadFirst  BY <3>1, ReadFirstShape DEF TokenInv, Fewer
    <3>2. CASE ReadChunk  BY <3>2, ReadChunkShape DEF TokenInv, Fewer
    <3>3. CASE ReadNothing  BY <3>3, ReadNothingShape DEF TokenInv, Fewer
    <3>4. CASE Arrive  BY <3>4, ArriveShape DEF TokenInv
    <3>5. CASE Disturb  BY <3>5, DisturbShape DEF TokenInv
    <3>6. QED  BY <1>4, <3>1, <3>2, <3>3, <3>4, <3>5
  <2>2. /\ UNCHANGED <<asked, pending, taken, outcome>>
        /\ (pc' # "idle") = (pc # "idle")
    BY <1>4 DEF ReadFirst, ReadChunk, ReadNothing, Arrive, Disturb
  <2>3. TokenInv'  BY <2>1, <2>2, QuietTokens
  <2>4. QED  BY <2>2, <2>3
<1>5. CASE \E r \in pending : DeviceAnswers(r[1], r[2])
  <2>1. PICK r \in pending : DeviceAnswers(r[1], r[2])  BY <1>5
  <2>2. TokenInv'  BY <2>1, AnswersTokens
  <2>3. UNCHANGED <<asked, pc, taken, outcome>>  BY <2>1 DEF DeviceAnswers
  <2>4. QED  BY <2>2, <2>3
<1>6. CASE UNCHANGED lineVars
  <2>1. TokenInv'
    BY <1>6 DEF lineVars, TokenInv, Shape, SaneRequest, Owes, Stream
  <2>2. QED  BY <1>6, <2>1 DEF lineVars
<1>7. QED  BY <1>2, <1>3, <1>4, <1>5, <1>6 DEF LineNext, ClientStep

\* For any bounds: what the client and its port hold stays within them, requests
\* are owed, answered and returned within those sent, and the empty reads that
\* are counted never pass the limit (_read_oven_response).
THEOREM LineTypesHold == LineSpec => []LineTypeOK
<1>1. LineInit => TokenInv  BY InitTokens
<1>2. TokenInv /\ [LineNext]_lineVars => TokenInv'  BY TokenStep
<1>3. TokenInv => LineTypeOK  BY DEF TokenInv, Shape, LineTypeOK
<1>4. QED  BY <1>1, <1>2, <1>3, PTL DEF LineSpec

\* For any number of requests, limits and bytes: each exchange returns a whole
\* answer nobody has got, or an error; no answer is returned twice, and two
\* never make a third (_read_oven_response, reset_input_buffer).
THEOREM ExchangesImplemented == LineSpec => ImplementsExchanges
<1>1. LineInit => TokenInv /\ E!Init
  <2>1. LineInit => E!Init
    BY LineAssumption DEF LineInit, E!Init, Failures
  <2>2. QED  BY <2>1, InitTokens
<1>2. TokenInv /\ [LineNext]_lineVars => TokenInv' /\ [E!Next]_(E!vars)  BY TokenStep
<1>3. QED  BY <1>1, <1>2, PTL DEF LineSpec, ImplementsExchanges, E!Spec

-----------------------------------------------------------------------------
(* A clean exchange: the answer to its request is owed, or it is all that  *)
(* was read, waits or comes                                                *)

OnlyItsAnswer ==
  \/ pending = {<<asked, kind>>} /\ Stream = <<>>
  \/ pending = {} /\ Stream = FrameOf(asked)
  \/ pending = {} /\ kind = "write" /\ Stream = ShortAckOf(asked)

CleanInv ==
  /\ TokenInv
  /\ clean => empties = 0
  /\ clean /\ pc # "idle" => OnlyItsAnswer

\* A step during an exchange that leaves the bytes in their order.
LEMMA SameStreamStaysClean ==
  ASSUME CleanInv, TokenInv', pc # "idle", UNCHANGED <<asked, kind, pending>>,
         clean' => clean /\ empties' = 0 /\ Stream' = Stream
  PROVE  CleanInv'
<1> SUFFICES ASSUME clean' PROVE empties' = 0 /\ OnlyItsAnswer'  BY DEF CleanInv
<1>1. OnlyItsAnswer /\ Stream' = Stream /\ empties' = 0  BY DEF CleanInv
<1>2. QED  BY <1>1 DEF OnlyItsAnswer

LEMMA CleanStep ==
  ASSUME CleanInv, [LineNext]_lineVars
  PROVE  CleanInv'
<1>1. TokenInv /\ TokenInv'  BY TokenStep DEF CleanInv
<1>2. CASE Begin
  <2>1. Stream' = incoming  BY <1>1, <1>2, BeginShape DEF TokenInv
  <2>2. empties' = 0  BY <1>1, <1>2 DEF Begin, TokenInv, Shape
  <2>3. clean' => pending' = {<<asked', kind'>>} /\ Stream' = <<>>
    BY <1>2, <2>1 DEF Begin
  <2>4. QED  BY <1>1, <2>2, <2>3 DEF CleanInv, OnlyItsAnswer
<1>3. CASE NothingRead \/ DecodeResponse \/ PortRaises
  <2>1. pc' = "idle"  BY <1>1, <1>3, Endings DEF TokenInv
  <2>2. empties' = 0  BY <1>3 DEF NothingRead, DecodeResponse, PortRaises, Finish
  <2>3. QED  BY <1>1, <2>1, <2>2 DEF CleanInv
<1>4. CASE ReadFirst \/ ReadChunk
  <2>1. Stream' = Stream
    BY <1>1, <1>4, ReadFirstShape, ReadChunkShape DEF TokenInv
  <2>2. /\ pc # "idle" /\ UNCHANGED <<asked, kind, pending, clean>>
        /\ empties' \in {empties, 0}
    BY <1>4 DEF ReadFirst, ReadChunk
  <2>3. clean => empties' = 0  BY <2>2 DEF CleanInv
  <2>4. QED  BY <1>1, <2>1, <2>2, <2>3, SameStreamStaysClean
<1>5. CASE ReadNothing \/ Disturb
  <2>1. clean' = FALSE  BY <1>5 DEF ReadNothing, Disturb
  <2>2. QED  BY <1>1, <2>1 DEF CleanInv
<1>6. CASE Arrive
  <2>1. clean' => clean /\ Stream' = Stream
    BY <1>1, <1>6, ArriveShape DEF TokenInv, Arrive
  <2>2. UNCHANGED <<asked, kind, pc, pending, empties>>  BY <1>6 DEF Arrive
  <2>3. CASE pc # "idle"
    <3>1. clean' => empties' = 0  BY <2>1, <2>2 DEF CleanInv
    <3>2. QED  BY <1>1, <2>1, <2>2, <2>3, <3>1, SameStreamStaysClean
  <2>4. CASE pc = "idle"  BY <1>1, <2>1, <2>2, <2>4 DEF CleanInv
  <2>5. QED  BY <2>3, <2>4
<1>7. CASE \E r \in pending : DeviceAnswers(r[1], r[2])
  <2>1. PICK r \in pending : DeviceAnswers(r[1], r[2])  BY <1>7
  <2>2. /\ <<r[1], r[2]>> \in pending /\ pending' = pending \ {<<r[1], r[2]>>}
        /\ UNCHANGED <<asked, kind, pc, empties, clean>>
    BY <2>1 DEF DeviceAnswers
  <2>3. CASE clean /\ pc # "idle"
    <3>1. pending = {<<asked, kind>>} /\ Stream = <<>>
      BY <2>2, <2>3 DEF CleanInv, OnlyItsAnswer
    <3>2. r[1] = asked /\ r[2] = kind /\ pending' = {}  BY <2>2, <3>1
    <3>3. /\ \/ Stream' = Stream \o FrameOf(asked)
             \/ kind = "write" /\ Stream' = Stream \o ShortAckOf(asked)
          /\ FrameOf(asked) \in Seq(Tokens) /\ ShortAckOf(asked) \in Seq(Tokens)
      <4>1. DeviceAnswers(asked, kind)  BY <2>1, <3>2
      <4>2. QED  BY <1>1, <4>1, AnswersShape DEF TokenInv
    <3>4. \/ Stream' = FrameOf(asked)
          \/ kind = "write" /\ Stream' = ShortAckOf(asked)
      BY <3>1, <3>3, PlainSequences
    <3>5. OnlyItsAnswer'  BY <2>2, <3>2, <3>4 DEF OnlyItsAnswer, FrameOf, ShortAckOf
    <3>6. QED  BY <1>1, <2>2, <3>5 DEF CleanInv
  <2>4. CASE ~ (clean /\ pc # "idle")  BY <1>1, <2>2, <2>4 DEF CleanInv
  <2>5. QED  BY <2>3, <2>4
<1>8. CASE UNCHANGED lineVars
  BY <1>1, <1>8 DEF lineVars, CleanInv, OnlyItsAnswer, Stream
<1>9. QED  BY <1>2, <1>3, <1>4, <1>5, <1>6, <1>7, <1>8 DEF LineNext, ClientStep

\* The loop ends nowhere in an answer but at its end.
LEMMA WholeIsAll ==
  ASSUME NEW s \in Seq(Tokens), NEW t \in Seq(Tokens), NEW r, s # <<>>,
         Last(s) \in {END, ACK} \/ Len(s) >= 4
  PROVE  s \o t = FrameOf(r) => s = FrameOf(r)
<1> SUFFICES ASSUME s \o t = FrameOf(r) PROVE s = FrameOf(r)  OBVIOUS
<1>1. /\ Len(s) \in Nat \ {0} /\ Len(t) \in Nat /\ Len(s) + Len(t) = Len(FrameOf(r))
      /\ \A i \in 1 .. Len(s) : s[i] = FrameOf(r)[i]
  BY ConcatProperties
<1>2. /\ Len(FrameOf(r)) = 4 /\ FrameOf(r)[1] = START /\ FrameOf(r)[2] = Half(1, r)
      /\ FrameOf(r)[3] = Half(2, r) /\ FrameOf(r)[4] = END
  BY DEF FrameOf
<1>3. Len(s) = 4
  <2>1. CASE Len(s) >= 4  BY <1>1, <1>2, <2>1
  <2>2. CASE Last(s) \in {END, ACK}
    <3>1. FrameOf(r)[Len(s)] \in {END, ACK}  BY <1>1, <2>2 DEF Last
    <3>2. \A m, n \in Nat : m + n = 4 /\ m # 0 => m \in {1, 2, 3, 4}  OBVIOUS
    <3>3. Len(s) \in {1, 2, 3, 4}  BY <1>1, <1>2, <3>2
    <3>4. QED  BY <1>2, <3>1, <3>3, TokensDiffer
  <2>3. QED  BY <2>1, <2>2
<1>4. Len(t) = 0  BY <1>1, <1>2, <1>3
<1>5. t = <<>>  BY <1>4, EmptySeq
<1>6. QED  BY <1>5, PlainSequences

LEMMA FrameDecodes == ASSUME NEW r PROVE Decodes(FrameOf(r), r)
<1>1. Last(FrameOf(r)) = END  BY DEF Last, FrameOf
<1>2. QED  BY <1>1 DEF Decodes, Normalized

\* For any number of requests, limits and bytes: whatever earlier exchanges left
\* behind in the input buffer, one with nothing else on the line and no gap in
\* its answer gets it (_read_oven_response, reset_input_buffer).
THEOREM CleanHolds == LineSpec => CleanExchangesSucceed
<1>1. LineInit => CleanInv
  BY InitTokens DEF CleanInv, LineInit
<1>2. CleanInv /\ [LineNext]_lineVars => CleanInv'  BY CleanStep
<1>3. ASSUME CleanInv, LineNext, pc = "rest", pc' = "idle", clean
      PROVE  \/ outcome' \in {Answer(asked), PortError}
             \/ kind = "write" /\ outcome' = Opaque
  <2>1. CASE PortRaises  BY <2>1 DEF PortRaises, Finish
  <2>2. CASE DecodeResponse
    <3>1. /\ response \in Seq(Tokens) /\ response # <<>>
          /\ buffer \in Seq(Tokens) /\ incoming \in Seq(Tokens)
          /\ empties = 0
      BY <1>3 DEF CleanInv, TokenInv, Shape
    <3>2. Last(response) \in {END, ACK} \/ Len(response) >= 4
      <4>1. IsWhole  BY <2>2, <3>1, LineAssumption DEF DecodeResponse
      <4>2. Len(response) \in Nat  BY <3>1
      <4>3. QED  BY <4>1, <4>2, LineAssumption DEF IsWhole
    <3>3. ASSUME NEW q \in 1 .. MaxExchanges, Decodes(response, q)
          PROVE  Has(Stream, q)
      BY <1>3, <3>1, <3>3, DecodedHas, StreamHas DEF CleanInv, TokenInv
    <3>4. OnlyItsAnswer /\ asked \in 1 .. MaxExchanges
      BY <1>3, LineAssumption DEF CleanInv, TokenInv, Shape
    <3>5. CASE pending = {<<asked, kind>>} /\ Stream = <<>>
      <4>1. Len(response \o buffer) = Len(response) + Len(buffer) /\ response \o buffer \in Seq(Tokens)
        BY <3>1, ConcatProperties
      <4>2. Len(Stream) = Len(response \o buffer) + Len(incoming)
        BY <3>1, <4>1, ConcatProperties DEF Stream
      <4>3. Len(response) \in Nat \ {0} /\ Len(buffer) \in Nat /\ Len(incoming) \in Nat  BY <3>1
      <4>4. Len(Stream) = 0  BY <3>5
      <4>5. \A m \in Nat \ {0}, n, k \in Nat : (m + n) + k # 0  OBVIOUS
      <4>6. (Len(response) + Len(buffer)) + Len(incoming) = 0  BY <4>1, <4>2, <4>4
      <4>7. FALSE  BY <4>3, <4>5, <4>6
      <4>8. QED  BY <4>7
    <3>6. CASE Stream = FrameOf(asked)
      <4>1. response \o (buffer \o incoming) = FrameOf(asked) /\ buffer \o incoming \in Seq(Tokens)
        <5>1. buffer \o incoming \in Seq(Tokens)  BY <3>1, ConcatHas
        <5>2. Stream = response \o (buffer \o incoming)  BY <3>1, InPieces DEF Stream
        <5>3. QED  BY <3>6, <5>1, <5>2
      <4>2. response = FrameOf(asked)  BY <3>1, <3>2, <4>1, WholeIsAll
      <4>3. Decodes(response, asked)  BY <4>2, FrameDecodes
      <4>4. PICK q \in 1 .. MaxExchanges : Decodes(response, q) /\ Finish(Answer(q))
        BY <2>2, <3>4, <4>3 DEF DecodeResponse
      <4>5. q = asked  BY <3>3, <3>6, <4>4, AnswerHas
      <4>6. QED  BY <4>4, <4>5 DEF Finish
    <3>7. CASE kind = "write" /\ Stream = ShortAckOf(asked)
      <4>1. \A q \in 1 .. MaxExchanges : ~Decodes(response, q)  BY <3>3, <3>7, AnswerHas
      <4>2. Finish(Opaque)  BY <2>2, <3>7, <4>1 DEF DecodeResponse
      <4>3. QED  BY <3>7, <4>2 DEF Finish
    <3>8. QED  BY <3>4, <3>5, <3>6, <3>7 DEF OnlyItsAnswer
  <2>3. /\ ~Begin /\ ~ReadFirst /\ ~NothingRead /\ ~ReadChunk /\ ~ReadNothing
        /\ ~Arrive /\ ~Disturb /\ \A r, asks : ~DeviceAnswers(r, asks)
    BY <1>3 DEF Begin, ReadFirst, NothingRead, ReadChunk, ReadNothing,
                DeviceAnswers, Arrive, Disturb
  <2>4. PortRaises \/ DecodeResponse  BY <1>3, <2>3 DEF LineNext, ClientStep
  <2>5. QED  BY <2>1, <2>2, <2>4
<1>4. CleanInv /\ [LineNext]_lineVars =>
        [pc = "rest" /\ pc' = "idle" /\ clean =>
           \/ outcome' \in {Answer(asked), PortError}
           \/ kind = "write" /\ outcome' = Opaque]_lineVars
  BY <1>3
<1>5. QED  BY <1>1, <1>2, <1>4, PTL DEF LineSpec, CleanExchangesSucceed

=============================================================================
