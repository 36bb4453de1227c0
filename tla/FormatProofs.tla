---------------------------- MODULE FormatProofs -----------------------------
(***************************************************************************)
(* Proofs about the formats of what goes over a serial line: the CRC finds *)
(* every burst of up to sixteen bits in a frame of any length; every frame *)
(* reads back as it was sent, and a damaged one as that or not at all; and *)
(* what a number reads back as after it has gone over the line and back.   *)
(***************************************************************************)
EXTENDS MCFormats, NumberLemmas, SequenceTheorems

-----------------------------------------------------------------------------
(* One step of the CRC, forward and back *)

Register == SUBSET (0 .. 15)

\* The step adds the polynomial.
Feedback(crc, bit) == (15 \in crc) # (bit = 1)

LEMMA HashBitHas ==
  ASSUME NEW crc \in Register, NEW bit
  PROVE  /\ HashBit(crc, bit) \in Register
         /\ \A i \in 0 .. 15 :
              /\ ~Feedback(crc, bit) => (i \in HashBit(crc, bit) <=> i # 0 /\ i - 1 \in crc)
              /\ Feedback(crc, bit) =>
                   (i \in HashBit(crc, bit) <=> ~(i # 0 /\ i - 1 \in crc <=> i \in POLYNOMIAL))
<1>1. Shifted(crc) \in Register /\ \A i \in 0 .. 15 : i \in Shifted(crc) <=> i # 0 /\ i - 1 \in crc
  <2>1. ASSUME NEW i \in 0 .. 15 PROVE i + 1 \in 0 .. 15 \/ i = 15  OBVIOUS
  <2>2. Shifted(crc) \in Register  BY <2>1 DEF Shifted, Register
  <2>3. ASSUME NEW i \in 0 .. 15 PROVE i \in Shifted(crc) <=> i # 0 /\ i - 1 \in crc
    <3>1. ASSUME i \in Shifted(crc) PROVE i # 0 /\ i - 1 \in crc
      <4>1. PICK j \in crc \ {15} : i = j + 1  BY <3>1 DEF Shifted
      <4>2. j \in 0 .. 15 /\ i - 1 = j  BY <4>1 DEF Register
      <4>3. QED  BY <4>1, <4>2
    <3>2. ASSUME i # 0, i - 1 \in crc PROVE i \in Shifted(crc)
      <4>1. i - 1 # 15 /\ i = (i - 1) + 1  OBVIOUS
      <4>2. QED  BY <3>2, <4>1 DEF Shifted
    <3>3. QED  BY <3>1, <3>2
  <2>4. QED  BY <2>2, <2>3
<1>2. POLYNOMIAL \in Register  BY DEF POLYNOMIAL, Register
<1>3. HashBit(crc, bit) = IF Feedback(crc, bit) THEN SymDiff(Shifted(crc), POLYNOMIAL) ELSE Shifted(crc)
  BY Zenon DEF HashBit, Feedback
<1>4. CASE Feedback(crc, bit)
  <2>1. HashBit(crc, bit) = SymDiff(Shifted(crc), POLYNOMIAL)  BY <1>3, <1>4
  <2>2. HashBit(crc, bit) \in Register  BY <1>1, <1>2, <2>1 DEF SymDiff, Register
  <2>3. \A i : i \in HashBit(crc, bit) <=> ~(i \in Shifted(crc) <=> i \in POLYNOMIAL)
    BY <2>1 DEF SymDiff
  <2>4. QED  BY <1>1, <1>4, <2>2, <2>3
<1>5. CASE ~Feedback(crc, bit)
  <2>1. HashBit(crc, bit) = Shifted(crc)  BY <1>3, <1>5
  <2>2. QED  BY <1>1, <1>5, <2>1
<1>6. QED  BY <1>4, <1>5

\* Two registers agree on their m lowest bits.
Agree(c, d, m) == \A i \in 0 .. m - 1 : i \in c <=> i \in d

\* What two registers agree on after a step tells that the step was of the same
\* kind, and what they agreed on before: bit 0 is set by a feedback only.
LEMMA StepBack ==
  ASSUME NEW c \in Register, NEW d \in Register, NEW bit, NEW other, NEW m \in 1 .. 16,
         Agree(HashBit(c, bit), HashBit(d, other), m)
  PROVE  /\ Feedback(c, bit) <=> Feedback(d, other)
         /\ Agree(c, d, m - 1)
<1>1. 0 \in POLYNOMIAL  BY DEF POLYNOMIAL
<1>2. 0 \in HashBit(c, bit) <=> 0 \in HashBit(d, other)  BY DEF Agree
<1>3. (0 \in HashBit(c, bit) <=> Feedback(c, bit)) /\ (0 \in HashBit(d, other) <=> Feedback(d, other))
  BY <1>1, HashBitHas
<1>4. Feedback(c, bit) <=> Feedback(d, other)  BY <1>2, <1>3
<1>5. ASSUME NEW i \in 0 .. (m - 1) - 1 PROVE i \in c <=> i \in d
  <2>1. i + 1 \in 0 .. 15 /\ i + 1 \in 0 .. m - 1 /\ i + 1 # 0 /\ (i + 1) - 1 = i  OBVIOUS
  <2>2. i + 1 \in HashBit(c, bit) <=> i + 1 \in HashBit(d, other)  BY <2>1 DEF Agree
  <2>3. CASE Feedback(c, bit)  BY <1>4, <2>1, <2>2, <2>3, HashBitHas
  <2>4. CASE ~Feedback(c, bit)  BY <1>4, <2>1, <2>2, <2>4, HashBitHas
  <2>5. QED  BY <2>3, <2>4
<1>6. QED  BY <1>4, <1>5 DEF Agree

LEMMA AgreeIsEqual ==
  ASSUME NEW c \in Register, NEW d \in Register, Agree(c, d, 16)
  PROVE  c = d
<1>1. \A i \in 0 .. 15 : i \in c <=> i \in d
  <2>1. 16 - 1 = 15  OBVIOUS
  <2>2. QED  BY <2>1 DEF Agree
<1>2. c \subseteq 0 .. 15 /\ d \subseteq 0 .. 15  BY DEF Register
<1>3. \A i : i \in c <=> i \in d  BY <1>1, <1>2
<1>4. QED  BY <1>3

\* A step with the same bit can be taken back.
LEMMA StepTakenBack ==
  ASSUME NEW c \in Register, NEW d \in Register, NEW bit, HashBit(c, bit) = HashBit(d, bit)
  PROVE  c = d
<1>1. Agree(HashBit(c, bit), HashBit(d, bit), 16)  BY DEF Agree
<1>2. (Feedback(c, bit) <=> Feedback(d, bit)) /\ Agree(c, d, 16 - 1)
  BY <1>1, StepBack
<1>3. 15 \in c <=> 15 \in d
  <2> DEFINE p == 15 \in c
             q == 15 \in d
             r == bit = 1
  <2>1. (p # r) <=> (q # r)  BY <1>2 DEF Feedback
  <2>2. p \in BOOLEAN /\ q \in BOOLEAN /\ r \in BOOLEAN  OBVIOUS
  <2> HIDE DEF p, q, r
  <2>3. p = q  BY <2>1, <2>2
  <2>4. QED  BY <2>3 DEF p, q
<1>4. Agree(c, d, 16)
  <2>1. \A i \in 0 .. 16 - 1 : i \in 0 .. (16 - 1) - 1 \/ i = 15  OBVIOUS
  <2>2. QED  BY <1>2, <1>3, <2>1 DEF Agree
<1>5. QED  BY <1>4, AgreeIsEqual

\* The bits are the same if the registers and the kinds of step are.
LEMMA SameBit ==
  ASSUME NEW c, NEW bit \in 0 .. 1, NEW other \in 0 .. 1, Feedback(c, bit) <=> Feedback(c, other)
  PROVE  bit = other
<1> DEFINE p == 15 \in c
           q == bit = 1
           r == other = 1
<1>1. (p # q) <=> (p # r)  BY DEF Feedback
<1>2. p \in BOOLEAN /\ q \in BOOLEAN /\ r \in BOOLEAN  OBVIOUS
<1> HIDE DEF p, q, r
<1>3. q = r  BY <1>1, <1>2
<1>4. QED  BY <1>3 DEF q, r

-----------------------------------------------------------------------------
(* The register after every bit of a row *)

\* c holds the registers after the bits of b, up to the n-th.
RegistersOf(c, b, n) == c = [k \in 0 .. n |-> IF k = 0 THEN {} ELSE HashBit(c[k - 1], b[k])]

\* There are such registers for every n, as there is no least n for which there
\* are none.
LEMMA HashesExist ==
  ASSUME NEW b, NEW n \in Nat
  PROVE  \E c : RegistersOf(c, b, n)
<1> DEFINE Bad == {m \in Nat : ~ \E c : RegistersOf(c, b, m)}
<1>1. \E c : RegistersOf(c, b, 0)
  <2> DEFINE c == [k \in 0 .. 0 |-> {}]
  <2>1. c = [k \in 0 .. 0 |-> IF k = 0 THEN {} ELSE HashBit(c[k - 1], b[k])]  OBVIOUS
  <2>2. QED  BY <2>1 DEF RegistersOf
<1>2. ASSUME NEW m \in Nat, NEW c, RegistersOf(c, b, m) PROVE \E d : RegistersOf(d, b, m + 1)
  <2> DEFINE d == [k \in 0 .. m + 1 |-> IF k = m + 1 THEN HashBit(c[m], b[m + 1]) ELSE c[k]]
  <2>1. ASSUME NEW k \in 0 .. m + 1
        PROVE  d[k] = IF k = 0 THEN {} ELSE HashBit(d[k - 1], b[k])
    <3>1. CASE k = m + 1
      <4>1. k # 0 /\ k - 1 = m /\ m \in 0 .. m + 1 /\ m # m + 1  BY <3>1
      <4>2. d[k - 1] = c[m]  BY <4>1
      <4>3. d[k] = HashBit(c[m], b[m + 1])  BY <3>1
      <4>4. QED  BY <3>1, <4>1, <4>2, <4>3
    <3>2. CASE k # m + 1
      <4>1. k \in 0 .. m  BY <3>2
      <4>2. d[k] = c[k]  BY <3>2
      <4>3. c[k] = IF k = 0 THEN {} ELSE HashBit(c[k - 1], b[k])  BY <1>2, <4>1 DEF RegistersOf
      <4>4. k # 0 => k - 1 \in 0 .. m + 1 /\ k - 1 # m + 1  BY <4>1
      <4>5. k # 0 => d[k - 1] = c[k - 1]  BY <4>4
      <4>6. QED  BY <4>2, <4>3, <4>5
    <3>3. QED  BY <3>1, <3>2
  <2>2. d = [k \in 0 .. m + 1 |-> d[k]]  OBVIOUS
  <2> HIDE DEF d
  <2>3. d = [k \in 0 .. m + 1 |-> IF k = 0 THEN {} ELSE HashBit(d[k - 1], b[k])]
    BY <2>1, <2>2
  <2>4. QED  BY <2>3 DEF RegistersOf
<1>3. ASSUME Bad # {} PROVE FALSE
  <2>1. PICK m \in Bad : \A l \in Bad : m <= l
    <3>1. Bad \subseteq Nat  OBVIOUS
    <3> HIDE DEF Bad
    <3>2. QED  BY <1>3, <3>1, LeastExists
  <2>2. m \in Nat /\ m # 0  BY <1>1
  <2>3. m - 1 \in Nat /\ ~(m <= m - 1) /\ (m - 1) + 1 = m  BY <2>2
  <2>4. m - 1 \notin Bad  BY <2>1, <2>3
  <2>5. PICK c : RegistersOf(c, b, m - 1)  BY <2>3, <2>4
  <2>6. \E d : RegistersOf(d, b, m)  BY <1>2, <2>3, <2>5
  <2>7. QED  BY <2>1, <2>6
<1>4. QED  BY <1>3

LEMMA HashesAre ==
  ASSUME NEW b, NEW n \in Nat, NEW c, RegistersOf(c, b, n)
  PROVE  /\ c[0] = {}
         /\ \A k \in 0 .. n : c[k] \in Register
         /\ \A k \in 1 .. n : c[k] = HashBit(c[k - 1], b[k])
<1>1. \A k \in 0 .. n : c[k] = IF k = 0 THEN {} ELSE HashBit(c[k - 1], b[k])
  BY DEF RegistersOf
<1>2. c[0] = {}  BY <1>1
<1>3. \A k \in 1 .. n : c[k] = HashBit(c[k - 1], b[k])  BY <1>1
<1> DEFINE Bad == {k \in 0 .. n : c[k] \notin Register}
<1>4. ASSUME Bad # {} PROVE FALSE
  <2>1. PICK k \in Bad : \A l \in Bad : k <= l
    <3>1. Bad \subseteq Nat  OBVIOUS
    <3> HIDE DEF Bad
    <3>2. QED  BY <1>4, <3>1, LeastExists
  <2>2. k \in 0 .. n /\ k # 0  BY <1>2 DEF Register
  <2>3. k \in 1 .. n /\ k - 1 \in 0 .. n /\ ~(k <= k - 1)  BY <2>2
  <2>4. c[k - 1] \in Register  BY <2>1, <2>3
  <2>5. c[k] \in Register  BY <1>3, <2>3, <2>4, HashBitHas
  <2>6. QED  BY <2>1, <2>5
<1>5. QED  BY <1>2, <1>3, <1>4

\* The hash of a row is the last of its registers, and that of a beginning of
\* it is the one reached by then.
LEMMA CrcIsRegister ==
  ASSUME NEW b, Len(b) \in Nat
  PROVE  \E c : RegistersOf(c, b, Len(b)) /\ CrcOfBits(b) = c[Len(b)]
<1> DEFINE c == CHOOSE c : RegistersOf(c, b, Len(b))
<1>1. RegistersOf(c, b, Len(b))  BY HashesExist
<1>2. CrcOfBits(b) = c[Len(b)]  BY Zenon DEF CrcOfBits, RegistersOf
<1>3. QED  BY <1>1, <1>2

\* Rows that begin alike have the same registers for as long.
LEMMA SameBeginning ==
  ASSUME NEW b, NEW n \in Nat, NEW c, RegistersOf(c, b, n),
         NEW e, NEW m \in Nat, NEW d, RegistersOf(d, e, m),
         NEW p \in Nat, p <= n, p <= m, \A k \in 1 .. p : b[k] = e[k]
  PROVE  c[p] = d[p]
<1> DEFINE Bad == {k \in 0 .. p : c[k] # d[k]}
<1>1. c[0] = d[0]  BY HashesAre
<1>2. \A k \in 1 .. p : c[k] = HashBit(c[k - 1], b[k]) /\ d[k] = HashBit(d[k - 1], e[k])
  <2>1. \A k \in 1 .. p : k \in 1 .. n /\ k \in 1 .. m  OBVIOUS
  <2>2. QED  BY <2>1, HashesAre
<1>3. ASSUME Bad # {} PROVE FALSE
  <2>1. PICK k \in Bad : \A l \in Bad : k <= l
    <3>1. Bad \subseteq Nat  OBVIOUS
    <3> HIDE DEF Bad
    <3>2. QED  BY <1>3, <3>1, LeastExists
  <2>2. k \in 0 .. p /\ k # 0  BY <1>1
  <2>3. k \in 1 .. p /\ k - 1 \in 0 .. p /\ ~(k <= k - 1)  BY <2>2
  <2>4. c[k - 1] = d[k - 1]  BY <2>1, <2>3
  <2>5. c[k] = d[k]  BY <1>2, <2>3, <2>4
  <2>6. QED  BY <2>1, <2>5
<1>4. p \in 0 .. p  OBVIOUS
<1>5. QED  BY <1>3, <1>4

\* Rows that end alike, and with the same register, had the same register
\* before: a step can be taken back.
LEMMA SameEnd ==
  ASSUME NEW n \in Nat, NEW b, NEW c, RegistersOf(c, b, n), NEW e, NEW d, RegistersOf(d, e, n),
         c[n] = d[n], NEW q \in 0 .. n,
         \A k \in q + 1 .. n : b[k] = e[k]
  PROVE  c[q] = d[q]
<1> DEFINE Bad == {j \in 0 .. n - q : c[n - j] # d[n - j]}
<1>1. 0 \notin Bad  OBVIOUS
<1>2. ASSUME Bad # {} PROVE FALSE
  <2>1. PICK j \in Bad : \A l \in Bad : j <= l
    <3>1. Bad \subseteq Nat  OBVIOUS
    <3> HIDE DEF Bad
    <3>2. QED  BY <1>2, <3>1, LeastExists
  <2>2. j \in 0 .. n - q /\ j # 0  BY <1>1
  <2>3. j - 1 \in 0 .. n - q /\ ~(j <= j - 1)  BY <2>2
  <2> DEFINE k == n - (j - 1)
  <2>4. c[k] = d[k]  BY <2>1, <2>3
  <2>5. k \in q + 1 .. n /\ k \in 1 .. n /\ k - 1 = n - j /\ k - 1 \in 0 .. n  BY <2>2
  <2> HIDE DEF k
  <2>6. c[k] = HashBit(c[k - 1], b[k]) /\ d[k] = HashBit(d[k - 1], b[k])
    <3>1. b[k] = e[k]  BY <2>5
    <3>2. QED  BY <2>5, <3>1, HashesAre
  <2>7. c[k - 1] \in Register /\ d[k - 1] \in Register  BY <2>5, HashesAre
  <2>8. c[k - 1] = d[k - 1]  BY <2>4, <2>6, <2>7, StepTakenBack
  <2>9. QED  BY <2>1, <2>5, <2>8
<1>3. n - q \in 0 .. n - q /\ n - (n - q) = q  OBVIOUS
<1>4. QED  BY <1>2, <1>3

\* Both rows have bits behind p up to q.
AreBits(b, e, p, q) == \A k \in p + 1 .. q : b[k] \in 0 .. 1 /\ e[k] \in 0 .. 1

\* Two rows with the same register before and after up to 16 bits do not differ
\* in those.
LEMMA BurstsAreSeen ==
  ASSUME NEW n \in Nat, NEW b, NEW c, RegistersOf(c, b, n), NEW e, NEW d, RegistersOf(d, e, n),
         NEW p \in 0 .. n, NEW q \in p .. n, q <= p + 16, c[p] = d[p], c[q] = d[q],
         AreBits(b, e, p, q)
  PROVE  \A k \in p + 1 .. q : b[k] = e[k]
<1> DEFINE Agrees(j) == Agree(c[q - j], d[q - j], 16 - j)
           Bad == {j \in 0 .. q - p : ~Agrees(j)}
<1>1. ASSUME NEW j \in 0 .. q - p, j # q - p, Agrees(j)
      PROVE  /\ Feedback(c[q - j - 1], b[q - j]) <=> Feedback(d[q - j - 1], e[q - j])
             /\ Agrees(j + 1)
  <2> DEFINE k == q - j
  <2> HIDE DEF Agrees
  <2>1. k \in 1 .. n /\ k - 1 \in 0 .. n /\ 16 - j \in 1 .. 16
        /\ q - (j + 1) = k - 1 /\ 16 - (j + 1) = (16 - j) - 1
    <3>1. j \in Nat /\ j < q - p /\ p \in Nat /\ q \in Nat /\ q <= n  BY <1>1
    <3>2. QED  BY <3>1
  <2> USE DEF Agrees
  <2> HIDE DEF k
  <2>2. /\ c[k] = HashBit(c[k - 1], b[k]) /\ d[k] = HashBit(d[k - 1], e[k])
        /\ c[k - 1] \in Register /\ d[k - 1] \in Register
    BY <2>1, HashesAre
  <2>3. Agree(HashBit(c[k - 1], b[k]), HashBit(d[k - 1], e[k]), 16 - j)
    BY <1>1, <2>2 DEF k
  <2>4. /\ Feedback(c[k - 1], b[k]) <=> Feedback(d[k - 1], e[k])
        /\ Agree(c[k - 1], d[k - 1], (16 - j) - 1)
    BY <2>1, <2>2, <2>3, StepBack
  <2>5. QED  BY <2>1, <2>4 DEF k
<1>2. ASSUME Bad # {} PROVE FALSE
  <2>1. PICK j \in Bad : \A l \in Bad : j <= l
    <3>1. Bad \subseteq Nat  OBVIOUS
    <3> HIDE DEF Bad
    <3>2. QED  BY <1>2, <3>1, LeastExists
  <2>2. Agrees(0)
    <3>1. q - 0 = q  OBVIOUS
    <3>2. QED  BY <3>1 DEF Agree
  <2>3. j \in 0 .. q - p /\ j # 0 /\ ~Agrees(j)  BY <2>1, <2>2
  <2> HIDE DEF Agrees
  <2>4. j - 1 \in 0 .. q - p /\ j - 1 # q - p /\ ~(j <= j - 1) /\ (j - 1) + 1 = j  BY <2>3
  <2>5. Agrees(j - 1)  BY <2>1, <2>4
  <2>6. Agrees((j - 1) + 1)  BY <1>1, <2>4, <2>5
  <2>7. QED  BY <2>3, <2>4, <2>6
<1>3. ASSUME NEW k \in p + 1 .. q PROVE Feedback(c[k - 1], b[k]) <=> Feedback(d[k - 1], e[k])
  <2>1. q - k \in 0 .. q - p /\ q - k # q - p /\ q - (q - k) = k  OBVIOUS
  <2>2. Agrees(q - k)  BY <1>2, <2>1
  <2> HIDE DEF Agrees
  <2>3. Feedback(c[q - (q - k) - 1], b[q - (q - k)]) <=> Feedback(d[q - (q - k) - 1], e[q - (q - k)])
    BY <1>1, <2>1, <2>2
  <2>4. QED  BY <2>1, <2>3
<1> DEFINE Differs == {k \in p .. q : c[k] # d[k]}
<1>4. ASSUME Differs # {} PROVE FALSE
  <2>1. PICK k \in Differs : \A l \in Differs : k <= l
    <3>1. Differs \subseteq Nat  OBVIOUS
    <3> HIDE DEF Differs
    <3>2. QED  BY <1>4, <3>1, LeastExists
  <2>2. k \in p .. q /\ k # p  OBVIOUS
  <2>3. k - 1 \in p .. q /\ ~(k <= k - 1) /\ k \in p + 1 .. q /\ k \in 1 .. n  BY <2>2
  <2>4. c[k - 1] = d[k - 1]  BY <2>1, <2>3
  <2>5. Feedback(c[k - 1], b[k]) <=> Feedback(c[k - 1], e[k])  BY <1>3, <2>3, <2>4
  <2>6. b[k] = e[k]  BY <2>3, <2>5, SameBit DEF AreBits
  <2>7. c[k] = HashBit(c[k - 1], b[k]) /\ d[k] = HashBit(d[k - 1], e[k])  BY <2>3, HashesAre
  <2>8. QED  BY <2>1, <2>4, <2>6, <2>7
<1>5. ASSUME NEW k \in p + 1 .. q PROVE b[k] = e[k]
  <2>1. k - 1 \in p .. q  OBVIOUS
  <2>2. c[k - 1] = d[k - 1]  BY <1>4, <2>1
  <2>3. Feedback(c[k - 1], b[k]) <=> Feedback(c[k - 1], e[k])  BY <1>3, <2>2
  <2>4. QED  BY <2>3, SameBit DEF AreBits
<1>6. QED  BY <1>5

\* A register fed with its own bits, highest first, runs empty: none of the
\* steps has a feedback.
LEMMA RunsEmpty ==
  ASSUME NEW n \in Nat, NEW b, NEW c, RegistersOf(c, b, n), NEW p \in 0 .. n, p + 16 <= n,
         \A k \in 1 .. 16 : b[p + k] = 1 <=> 16 - k \in c[p]
  PROVE  c[p + 16] = {}
<1> DEFINE Moved(k) == \A i \in 0 .. 15 : i \in c[p + k] <=> i >= k /\ i - k \in c[p]
           Bad == {k \in 0 .. 16 : ~Moved(k)}
<1>1. ASSUME Bad # {} PROVE FALSE
  <2>1. PICK k \in Bad : \A l \in Bad : k <= l
    <3>1. Bad \subseteq Nat  OBVIOUS
    <3> HIDE DEF Bad
    <3>2. QED  BY <1>1, <3>1, LeastExists
  <2>2. Moved(0)
    <3>1. p + 0 = p /\ \A i \in 0 .. 15 : i - 0 = i  OBVIOUS
    <3>2. QED  BY <3>1
  <2>3. k \in 1 .. 16 /\ k - 1 \in 0 .. 16 /\ ~(k <= k - 1)
    <3>1. k \in 0 .. 16 /\ k # 0  BY <2>2
    <3>2. QED  BY <3>1
  <2>4. Moved(k - 1)  BY <2>1, <2>3
  <2>5. p + k \in 1 .. n /\ (p + k) - 1 = p + (k - 1) /\ p + (k - 1) \in 0 .. n  BY <2>3
  <2>6. c[p + k] = HashBit(c[p + (k - 1)], b[p + k]) /\ c[p + (k - 1)] \in Register
    BY <2>5, HashesAre
  <2>7. ~Feedback(c[p + (k - 1)], b[p + k])
    <3>1. 15 \in c[p + (k - 1)] <=> 15 - (k - 1) \in c[p]  BY <2>3, <2>4
    <3>2. 15 - (k - 1) = 16 - k  BY <2>3
    <3>3. 15 \in c[p + (k - 1)] <=> b[p + k] = 1  BY <2>3, <3>1, <3>2
    <3> DEFINE x == 15 \in c[p + (k - 1)]
               y == b[p + k] = 1
    <3>4. x \in BOOLEAN /\ y \in BOOLEAN /\ (x <=> y)  BY <3>3
    <3> HIDE DEF x, y
    <3>5. ~(x # y)  BY <3>4
    <3>6. QED  BY <3>5 DEF x, y, Feedback
  <2>8. ASSUME NEW i \in 0 .. 15 PROVE i \in c[p + k] <=> i >= k /\ i - k \in c[p]
    <3>1. i \in c[p + k] <=> i # 0 /\ i - 1 \in c[p + (k - 1)]  BY <2>6, <2>7, HashBitHas
    <3>2. CASE i = 0  BY <2>3, <3>1, <3>2
    <3>3. CASE i # 0
      <4>1. i - 1 \in 0 .. 15 /\ (i - 1) - (k - 1) = i - k /\ (i - 1 >= k - 1 <=> i >= k)
        BY <2>3, <3>3
      <4>2. i - 1 \in c[p + (k - 1)] <=> i - 1 >= k - 1 /\ (i - 1) - (k - 1) \in c[p]
        BY <2>4, <4>1
      <4>3. QED  BY <3>1, <3>3, <4>1, <4>2
    <3>4. QED  BY <3>2, <3>3
  <2>9. QED  BY <2>1, <2>8
<1>2. Moved(16)  BY <1>1
<1>3. \A i \in 0 .. 15 : i \notin c[p + 16]  BY <1>2
<1>4. p + 16 \in 0 .. n  OBVIOUS
<1>5. c[p + 16] \in Register  BY <1>4, HashesAre
<1>6. QED  BY <1>3, <1>5 DEF Register

-----------------------------------------------------------------------------
(* Symbols and their bits *)

Symbols == Seq(Nibble)

LEMMA FourBits ==
  ASSUME NEW x \in Symbols
  PROVE  /\ Len(x) \in Nat /\ Len(Bits(x, 4)) = 4 * Len(x)
         /\ \A j \in 1 .. Len(x) :
              /\ Bits(x, 4)[4 * j - 3] = (x[j] \div 8) % 2
              /\ Bits(x, 4)[4 * j - 2] = (x[j] \div 4) % 2
              /\ Bits(x, 4)[4 * j - 1] = (x[j] \div 2) % 2
              /\ Bits(x, 4)[4 * j]     = x[j] % 2
<1> DEFINE n == Len(x)
<1>1. n \in Nat /\ \A j \in 1 .. n : x[j] \in Nat  BY DEF Symbols, Nibble
<1>2. Bits(x, 4) = [k \in 1 .. 4 * n |->
                      (x[((k - 1) \div 4) + 1] \div Power2[4 - ((k - 1) % 4)]) % 2]
  BY DEF Bits
<1>3. Power2[4] = 8 /\ Power2[3] = 4 /\ Power2[2] = 2 /\ Power2[1] = 1  BY DEF Power2
<1> HIDE DEF n
<1>4. Len(Bits(x, 4)) = 4 * n
  <2>1. 4 * n \in Nat  BY <1>1
  <2>2. QED  BY <1>2, <2>1
<1>5. ASSUME NEW j \in 1 .. n
      PROVE  /\ Bits(x, 4)[4 * j - 3] = (x[j] \div 8) % 2
             /\ Bits(x, 4)[4 * j - 2] = (x[j] \div 4) % 2
             /\ Bits(x, 4)[4 * j - 1] = (x[j] \div 2) % 2
             /\ Bits(x, 4)[4 * j]     = x[j] % 2
  <2>1. /\ j \in Int /\ 4 * j - 3 \in 1 .. 4 * n /\ 4 * j - 2 \in 1 .. 4 * n
        /\ 4 * j - 1 \in 1 .. 4 * n /\ 4 * j \in 1 .. 4 * n
    BY <1>1
  <2>2. (((4 * j - 3) - 1) \div 4) + 1 = j /\ 4 - (((4 * j - 3) - 1) % 4) = 4  BY <2>1
  <2>3. (((4 * j - 2) - 1) \div 4) + 1 = j /\ 4 - (((4 * j - 2) - 1) % 4) = 3  BY <2>1
  <2>4. (((4 * j - 1) - 1) \div 4) + 1 = j /\ 4 - (((4 * j - 1) - 1) % 4) = 2  BY <2>1
  <2>5. (((4 * j) - 1) \div 4) + 1 = j /\ 4 - (((4 * j) - 1) % 4) = 1  BY <2>1
  <2>6. x[j] \div 1 = x[j]  BY <1>1
  <2>7. Bits(x, 4)[4 * j - 3] = (x[j] \div 8) % 2  BY <1>2, <1>3, <2>1, <2>2
  <2>8. Bits(x, 4)[4 * j - 2] = (x[j] \div 4) % 2  BY <1>2, <1>3, <2>1, <2>3
  <2>9. Bits(x, 4)[4 * j - 1] = (x[j] \div 2) % 2  BY <1>2, <1>3, <2>1, <2>4
  <2>10. Bits(x, 4)[4 * j] = x[j] % 2
    <3>1. Bits(x, 4)[4 * j] = (x[j] \div 1) % 2  BY <1>2, <1>3, <2>1, <2>5
    <3>2. QED  BY <2>6, <3>1
  <2>11. QED  BY <2>7, <2>8, <2>9, <2>10
<1>6. QED  BY <1>1, <1>4, <1>5 DEF n

\* Every bit of a row is one of the four of a symbol.
LEMMA BitHasSymbol ==
  ASSUME NEW k \in Nat \ {0}
  PROVE  \E j \in Nat \ {0} : /\ k \in {4 * j - 3, 4 * j - 2, 4 * j - 1, 4 * j}
                              /\ \A n \in Nat : k <= 4 * n <=> j <= n
<1> DEFINE j == ((k - 1) \div 4) + 1
<1>1. j \in Nat \ {0} /\ 4 * j - 3 <= k /\ k <= 4 * j  OBVIOUS
<1> HIDE DEF j
<1>2. k \in {4 * j - 3, 4 * j - 2, 4 * j - 1, 4 * j}  BY <1>1
<1>3. ASSUME NEW n \in Nat PROVE k <= 4 * n <=> j <= n  BY <1>1
<1>4. QED  BY <1>1, <1>2, <1>3

LEMMA BitsAreBits ==
  ASSUME NEW x \in Symbols, NEW k \in 1 .. 4 * Len(x)
  PROVE  Bits(x, 4)[k] \in 0 .. 1
<1>1. Len(x) \in Nat /\ \A j \in 1 .. Len(x) : x[j] \in Nat  BY DEF Symbols, Nibble
<1>2. PICK j \in Nat \ {0} : /\ k \in {4 * j - 3, 4 * j - 2, 4 * j - 1, 4 * j}
                             /\ \A n \in Nat : k <= 4 * n <=> j <= n
  <2>1. k \in Nat \ {0}  BY <1>1
  <2>2. QED  BY <2>1, BitHasSymbol
<1>3. j \in 1 .. Len(x)
  <2>1. k <= 4 * Len(x)  BY <1>1
  <2>2. j <= Len(x)  BY <1>1, <1>2, <2>1
  <2>3. QED  BY <1>1, <2>2
<1>4. /\ (x[j] \div 8) % 2 \in 0 .. 1 /\ (x[j] \div 4) % 2 \in 0 .. 1
      /\ (x[j] \div 2) % 2 \in 0 .. 1 /\ x[j] % 2 \in 0 .. 1
  <2>1. PICK s \in Nat : s = x[j]  BY <1>1, <1>3
  <2>2. ASSUME NEW i \in Nat PROVE i % 2 \in 0 .. 1  OBVIOUS
  <2>3. s \div 8 \in Nat /\ s \div 4 \in Nat /\ s \div 2 \in Nat  OBVIOUS
  <2>4. QED  BY <2>1, <2>2, <2>3
<1>5. /\ Bits(x, 4)[4 * j - 3] \in 0 .. 1 /\ Bits(x, 4)[4 * j - 2] \in 0 .. 1
      /\ Bits(x, 4)[4 * j - 1] \in 0 .. 1 /\ Bits(x, 4)[4 * j] \in 0 .. 1
  BY <1>3, <1>4, FourBits
<1>6. QED  BY <1>2, <1>5

\* Equal symbols have equal bits, and equal bits make equal symbols.
LEMMA BitsOfEqual ==
  ASSUME NEW x \in Symbols, NEW y \in Symbols, NEW p \in Nat, NEW q \in Nat,
         q <= Len(x), q <= Len(y), \A j \in p + 1 .. q : x[j] = y[j]
  PROVE  \A k \in 4 * p + 1 .. 4 * q : Bits(x, 4)[k] = Bits(y, 4)[k]
<1> SUFFICES ASSUME NEW k \in 4 * p + 1 .. 4 * q PROVE Bits(x, 4)[k] = Bits(y, 4)[k]
  OBVIOUS
<1>1. k \in Nat \ {0} /\ k <= 4 * q /\ ~(k <= 4 * p)  OBVIOUS
<1>2. PICK j \in Nat \ {0} : /\ k \in {4 * j - 3, 4 * j - 2, 4 * j - 1, 4 * j}
                             /\ \A n \in Nat : k <= 4 * n <=> j <= n
  BY <1>1, BitHasSymbol
<1>3. j <= q /\ ~(j <= p)  BY <1>1, <1>2
<1>4. j \in p + 1 .. q  BY <1>3
<1>5. x[j] = y[j] /\ j \in 1 .. Len(x) /\ j \in 1 .. Len(y)
  <2>1. Len(x) \in Nat /\ Len(y) \in Nat  BY DEF Symbols
  <2>2. QED  BY <1>4, <2>1
<1>6. /\ Bits(x, 4)[4 * j - 3] = Bits(y, 4)[4 * j - 3]
      /\ Bits(x, 4)[4 * j - 2] = Bits(y, 4)[4 * j - 2]
      /\ Bits(x, 4)[4 * j - 1] = Bits(y, 4)[4 * j - 1]
      /\ Bits(x, 4)[4 * j] = Bits(y, 4)[4 * j]
  BY <1>5, FourBits
<1>7. QED  BY <1>2, <1>6

LEMMA EqualByBits ==
  ASSUME NEW x \in Symbols, NEW y \in Symbols, NEW p \in Nat, NEW q \in Nat,
         q <= Len(x), q <= Len(y), \A k \in 4 * p + 1 .. 4 * q : Bits(x, 4)[k] = Bits(y, 4)[k]
  PROVE  \A j \in p + 1 .. q : x[j] = y[j]
<1> SUFFICES ASSUME NEW j \in p + 1 .. q PROVE x[j] = y[j]  OBVIOUS
<1>1. /\ j \in 1 .. Len(x) /\ j \in 1 .. Len(y) /\ x[j] \in Nibble /\ y[j] \in Nibble
  BY DEF Symbols
<1>2. /\ 4 * j - 3 \in 4 * p + 1 .. 4 * q /\ 4 * j - 2 \in 4 * p + 1 .. 4 * q
      /\ 4 * j - 1 \in 4 * p + 1 .. 4 * q /\ 4 * j \in 4 * p + 1 .. 4 * q
  OBVIOUS
<1>3. /\ (x[j] \div 8) % 2 = (y[j] \div 8) % 2 /\ (x[j] \div 4) % 2 = (y[j] \div 4) % 2
      /\ (x[j] \div 2) % 2 = (y[j] \div 2) % 2 /\ x[j] % 2 = y[j] % 2
  BY <1>1, <1>2, FourBits
<1>4. PICK a \in Nibble, d \in Nibble : a = x[j] /\ d = y[j]  BY <1>1
<1>5. /\ (a \div 8) % 2 = (d \div 8) % 2 /\ (a \div 4) % 2 = (d \div 4) % 2
      /\ (a \div 2) % 2 = (d \div 2) % 2 /\ a % 2 = d % 2
  BY <1>3, <1>4
<1>6. a = d  BY <1>5 DEF Nibble
<1>7. QED  BY <1>4, <1>6

-----------------------------------------------------------------------------
(* A row of symbols with its CRC behind it                                 *)

LEMMA Pieces ==
  ASSUME NEW S, NEW x \in Seq(S), NEW m \in 1 .. Len(x) + 1, NEW n \in 0 .. Len(x), m <= n + 1
  PROVE  /\ SubSeq(x, m, n) \in Seq(S) /\ Len(SubSeq(x, m, n)) = n - m + 1
         /\ DOMAIN SubSeq(x, m, n) = 1 .. n - m + 1
         /\ \A i \in 1 .. n - m + 1 : SubSeq(x, m, n)[i] = x[m + i - 1]
<1>1. Len(x) \in Nat /\ \A i \in 1 .. Len(x) : x[i] \in S  BY LenProperties
<1>2. m \in Int /\ n \in Int /\ \A i \in m .. n : i \in 1 .. Len(x)  BY <1>1
<1>3. \A i \in m .. n : x[i] \in S  BY <1>1, <1>2
<1>4. /\ SubSeq(x, m, n) \in Seq(S)
      /\ Len(SubSeq(x, m, n)) = IF m <= n THEN n - m + 1 ELSE 0
      /\ \A i \in 1 .. n - m + 1 : SubSeq(x, m, n)[i] = x[m + i - 1]
  BY <1>2, <1>3, SubSeqProperties
<1>5. Len(SubSeq(x, m, n)) = n - m + 1  BY <1>2, <1>4
<1>6. QED  BY <1>4, <1>5, LenProperties

CrcFits(x) == CrcSymbols(Crc16(SubSeq(x, 1, Len(x) - 4))) = SubSeq(x, Len(x) - 3, Len(x))

\* The four symbols of a CRC are its sixteen bits.
LEMMA CrcInSymbols ==
  ASSUME NEW crc \in Register
  PROVE  /\ CrcSymbols(crc) \in Symbols /\ Len(CrcSymbols(crc)) = 4
         /\ \A k \in 1 .. 16 : Bits(CrcSymbols(crc), 4)[k] = 1 <=> 16 - k \in crc
<1> DEFINE bit(b) == IF b \in crc THEN 1 ELSE 0
           x == CrcSymbols(crc)
<1>1. \A b : bit(b) \in 0 .. 1 /\ (bit(b) = 1 <=> b \in crc)  OBVIOUS
<1>2. x = [i \in 1 .. 4 |-> 8 * bit(19 - 4 * i) + 4 * bit(18 - 4 * i)
                              + 2 * bit(17 - 4 * i) + bit(16 - 4 * i)]
  BY Zenon DEF CrcSymbols
<1> HIDE DEF bit, x
<1>3. ASSUME NEW a \in 0 .. 1, NEW b \in 0 .. 1, NEW c \in 0 .. 1, NEW d \in 0 .. 1
      PROVE  LET n == 8 * a + 4 * b + 2 * c + d IN
             /\ n \in Nibble /\ (n \div 8) % 2 = a /\ (n \div 4) % 2 = b
             /\ (n \div 2) % 2 = c /\ n % 2 = d
  BY DEF Nibble
<1>4. ASSUME NEW i \in 1 .. 4
      PROVE  /\ x[i] \in Nibble
             /\ (x[i] \div 8) % 2 = bit(19 - 4 * i) /\ (x[i] \div 4) % 2 = bit(18 - 4 * i)
             /\ (x[i] \div 2) % 2 = bit(17 - 4 * i) /\ x[i] % 2 = bit(16 - 4 * i)
  <2>1. x[i] = 8 * bit(19 - 4 * i) + 4 * bit(18 - 4 * i) + 2 * bit(17 - 4 * i) + bit(16 - 4 * i)
    BY <1>2
  <2>2. /\ bit(19 - 4 * i) \in 0 .. 1 /\ bit(18 - 4 * i) \in 0 .. 1
        /\ bit(17 - 4 * i) \in 0 .. 1 /\ bit(16 - 4 * i) \in 0 .. 1
    BY <1>1
  <2>3. QED  BY <1>3, <2>1, <2>2
<1>5. x \in Symbols /\ Len(x) = 4
  <2>1. x = [i \in 1 .. 4 |-> x[i]] /\ DOMAIN x = 1 .. 4  BY <1>2
  <2>2. x \in [1 .. 4 -> Nibble]  BY <1>4, <2>1
  <2>3. QED  BY <2>1, <2>2 DEF Symbols
<1>6. ASSUME NEW k \in 1 .. 16 PROVE Bits(x, 4)[k] = 1 <=> 16 - k \in crc
  <2>1. PICK i \in 1 .. 4 : k \in {4 * i - 3, 4 * i - 2, 4 * i - 1, 4 * i}
    <3>1. \/ k \in {4 * 1 - 3, 4 * 1 - 2, 4 * 1 - 1, 4 * 1}
          \/ k \in {4 * 2 - 3, 4 * 2 - 2, 4 * 2 - 1, 4 * 2}
          \/ k \in {4 * 3 - 3, 4 * 3 - 2, 4 * 3 - 1, 4 * 3}
          \/ k \in {4 * 4 - 3, 4 * 4 - 2, 4 * 4 - 1, 4 * 4}
      OBVIOUS
    <3>2. QED  BY <3>1
  <2>2. /\ Bits(x, 4)[4 * i - 3] = bit(19 - 4 * i) /\ Bits(x, 4)[4 * i - 2] = bit(18 - 4 * i)
        /\ Bits(x, 4)[4 * i - 1] = bit(17 - 4 * i) /\ Bits(x, 4)[4 * i] = bit(16 - 4 * i)
    BY <1>4, <1>5, FourBits
  <2>3. Bits(x, 4)[k] = bit(16 - k)
    <3>1. /\ 16 - (4 * i - 3) = 19 - 4 * i /\ 16 - (4 * i - 2) = 18 - 4 * i
          /\ 16 - (4 * i - 1) = 17 - 4 * i
      OBVIOUS
    <3>2. QED  BY <2>1, <2>2, <3>1
  <2>4. QED  BY <1>1, <2>3
<1>7. QED  BY <1>5, <1>6 DEF x

\* With its CRC behind it a row has the hash zero.
LEMMA FitsToZero ==
  ASSUME NEW x \in Symbols, Len(x) >= 4, CrcFits(x),
         NEW c, RegistersOf(c, Bits(x, 4), 4 * Len(x))
  PROVE  c[4 * Len(x)] = {}
<1> DEFINE n == Len(x) - 4
           covered == SubSeq(x, 1, n)
           tail == SubSeq(x, Len(x) - 3, Len(x))
           p == 4 * n
<1>1. Len(x) \in Nat /\ n \in Nat /\ p \in Nat /\ p + 16 = 4 * Len(x) /\ Len(x) = n + 4
  BY DEF Symbols
<1>2. covered \in Symbols /\ Len(covered) = n /\ \A i \in 1 .. n : covered[i] = x[i]
  <2>1. 1 \in 1 .. Len(x) + 1 /\ n \in 0 .. Len(x) /\ 1 <= n + 1 /\ n - 1 + 1 = n
        /\ \A i \in 1 .. n : 1 + i - 1 = i
    BY <1>1
  <2> HIDE DEF n
  <2>2. QED  BY <2>1, Pieces DEF Symbols
<1>3. tail \in Symbols /\ Len(tail) = 4 /\ \A i \in 1 .. 4 : tail[i] = x[n + i]
  <2>1. /\ Len(x) - 3 \in 1 .. Len(x) + 1 /\ Len(x) \in 0 .. Len(x)
        /\ Len(x) - 3 <= Len(x) + 1 /\ Len(x) - (Len(x) - 3) + 1 = 4
        /\ \A i \in 1 .. 4 : (Len(x) - 3) + i - 1 = n + i
    BY <1>1
  <2> HIDE DEF n
  <2>2. QED  BY <2>1, Pieces DEF Symbols
<1> HIDE DEF covered, tail, n, p
<1>4. PICK d : RegistersOf(d, Bits(covered, 4), p) /\ Crc16(covered) = d[p]
  <2>1. Len(Bits(covered, 4)) = p  BY <1>2, FourBits DEF p
  <2>2. PICK d : RegistersOf(d, Bits(covered, 4), Len(Bits(covered, 4)))
                 /\ CrcOfBits(Bits(covered, 4)) = d[Len(Bits(covered, 4))]
    BY <1>1, <2>1, CrcIsRegister
  <2>3. QED  BY <2>1, <2>2 DEF Crc16, HashBits
<1>5. c[p] = d[p]
  <2>1. PICK o \in Nat : o = 0  OBVIOUS
  <2>2. \A k \in 4 * o + 1 .. 4 * n : Bits(covered, 4)[k] = Bits(x, 4)[k]
    <3>1. \A j \in o + 1 .. n : covered[j] = x[j]  BY <1>2, <2>1
    <3>2. n \in Nat /\ n <= Len(covered) /\ n <= Len(x)  BY <1>1, <1>2
    <3>3. QED  BY <1>2, <3>1, <3>2, BitsOfEqual
  <2>3. \A k \in 1 .. p : Bits(covered, 4)[k] = Bits(x, 4)[k]
    <3>1. \A k \in 1 .. p : k \in 4 * o + 1 .. 4 * n  BY <1>1, <2>1 DEF p
    <3>2. QED  BY <2>2, <3>1
  <2>4. 4 * Len(x) \in Nat /\ p <= p /\ p <= 4 * Len(x)  BY <1>1
  <2>5. QED  BY <1>1, <1>4, <2>3, <2>4, SameBeginning
<1>6. d[p] \in Register
  <2>1. p \in 0 .. p  BY <1>1
  <2>2. QED  BY <1>1, <1>4, <2>1, HashesAre
<1>7. tail = CrcSymbols(d[p])  BY <1>4 DEF CrcFits, covered, tail, n
<1>8. ASSUME NEW k \in 1 .. 16 PROVE Bits(x, 4)[p + k] = 1 <=> 16 - k \in c[p]
  <2>1. Bits(tail, 4)[k] = 1 <=> 16 - k \in c[p]  BY <1>5, <1>6, <1>7, CrcInSymbols
  <2>2. PICK j \in Nat \ {0} : /\ k \in {4 * j - 3, 4 * j - 2, 4 * j - 1, 4 * j}
                               /\ \A m \in Nat : k <= 4 * m <=> j <= m
    <3>1. k \in Nat \ {0}  OBVIOUS
    <3>2. QED  BY <3>1, BitHasSymbol
  <2>3. j \in 1 .. 4
    <3>1. k <= 4 * 4  OBVIOUS
    <3>2. j <= 4  BY <2>2, <3>1
    <3>3. QED  BY <3>2
  <2>4. j + n \in 1 .. Len(x) /\ tail[j] = x[j + n]
    <3>1. j + n \in 1 .. Len(x) /\ j + n = n + j  BY <1>1, <2>3
    <3>2. QED  BY <1>3, <2>3, <3>1
  <2>5. /\ Bits(x, 4)[4 * (j + n) - 3] = Bits(tail, 4)[4 * j - 3]
        /\ Bits(x, 4)[4 * (j + n) - 2] = Bits(tail, 4)[4 * j - 2]
        /\ Bits(x, 4)[4 * (j + n) - 1] = Bits(tail, 4)[4 * j - 1]
        /\ Bits(x, 4)[4 * (j + n)] = Bits(tail, 4)[4 * j]
    <3>1. /\ Bits(tail, 4)[4 * j - 3] = (tail[j] \div 8) % 2
          /\ Bits(tail, 4)[4 * j - 2] = (tail[j] \div 4) % 2
          /\ Bits(tail, 4)[4 * j - 1] = (tail[j] \div 2) % 2
          /\ Bits(tail, 4)[4 * j]     = tail[j] % 2
      BY <1>3, <2>3, FourBits
    <3>2. PICK l \in 1 .. Len(x) : l = j + n  BY <2>4
    <3>3. /\ Bits(x, 4)[4 * l - 3] = (x[l] \div 8) % 2
          /\ Bits(x, 4)[4 * l - 2] = (x[l] \div 4) % 2
          /\ Bits(x, 4)[4 * l - 1] = (x[l] \div 2) % 2
          /\ Bits(x, 4)[4 * l]     = x[l] % 2
      BY FourBits
    <3>4. QED  BY <2>4, <3>1, <3>2, <3>3
  <2>6. /\ 4 * (j + n) - 3 = p + (4 * j - 3) /\ 4 * (j + n) - 2 = p + (4 * j - 2)
        /\ 4 * (j + n) - 1 = p + (4 * j - 1) /\ 4 * (j + n) = p + 4 * j
    BY <1>1 DEF p
  <2>7. Bits(x, 4)[p + k] = Bits(tail, 4)[k]  BY <2>2, <2>5, <2>6
  <2>8. QED  BY <2>1, <2>7
<1>9. c[p + 16] = {}
  <2>1. 4 * Len(x) \in Nat /\ p \in 0 .. 4 * Len(x) /\ p + 16 <= 4 * Len(x)  BY <1>1
  <2>2. QED  BY <1>8, <2>1, RunsEmpty
<1>10. QED  BY <1>1, <1>9

\* Two rows of symbols whose CRCs fit, and which differ in no more than four
\* symbols in a row, anywhere and the CRC included, are the same: the CRC finds
\* every burst of up to sixteen bits, in a frame of any length (crc16, _hash_byte).
THEOREM BurstsAreNoticed ==
  ASSUME NEW x \in Symbols, NEW y \in Symbols, Len(x) = Len(y), CrcFits(x), CrcFits(y),
         NEW p \in 0 .. Len(x) - 4,
         \A i \in 1 .. Len(x) : x[i] # y[i] => i \in p + 1 .. p + 4
  PROVE  x = y
<1> DEFINE n == 4 * Len(x)
<1>1. PICK q \in Nat : q = p + 4 /\ q <= Len(x) /\ q <= Len(y)
  <2>1. Len(x) \in Nat /\ p \in Int /\ 0 <= p /\ p <= Len(x) - 4  BY DEF Symbols
  <2>2. QED  BY <2>1
<1>2. /\ Len(x) \in Nat /\ Len(x) >= 4 /\ p \in Nat /\ n \in Nat
      /\ 4 * p \in 0 .. n /\ 4 * q \in 4 * p .. n /\ 4 * q \in 0 .. n /\ 4 * q <= 4 * p + 16
  <2>1. Len(x) \in Nat /\ p \in Int /\ 0 <= p /\ p <= Len(x) - 4  BY DEF Symbols
  <2>2. QED  BY <1>1, <2>1
<1>3. PICK c : RegistersOf(c, Bits(x, 4), n)  BY <1>2, HashesExist
<1>4. PICK d : RegistersOf(d, Bits(y, 4), n)  BY <1>2, HashesExist
<1>5. c[n] = {} /\ d[n] = {}
  <2>1. c[n] = {}  BY <1>2, <1>3, FitsToZero
  <2>2. n = 4 * Len(y)  OBVIOUS
  <2>3. d[n] = {}  BY <1>2, <1>4, <2>2, FitsToZero
  <2>4. QED  BY <2>1, <2>3
<1>6. \A k \in 1 .. 4 * p : Bits(x, 4)[k] = Bits(y, 4)[k]
  <2>1. PICK o \in Nat : o = 0  OBVIOUS
  <2>2. \A j \in o + 1 .. p : x[j] = y[j]  BY <1>2, <2>1
  <2>3. p \in Nat /\ p <= Len(x) /\ p <= Len(y)  BY <1>1, <1>2
  <2>4. \A k \in 4 * o + 1 .. 4 * p : Bits(x, 4)[k] = Bits(y, 4)[k]
    BY <2>2, <2>3, BitsOfEqual
  <2>5. \A k \in 1 .. 4 * p : k \in 4 * o + 1 .. 4 * p  BY <1>2, <2>1
  <2>6. QED  BY <2>4, <2>5
<1>7. \A k \in 4 * q + 1 .. 4 * Len(x) : Bits(x, 4)[k] = Bits(y, 4)[k]
  <2>1. \A j \in q + 1 .. Len(x) : x[j] = y[j]  BY <1>1, <1>2
  <2>2. Len(x) \in Nat /\ Len(x) <= Len(x) /\ Len(x) <= Len(y)  BY <1>2
  <2>3. QED  BY <1>1, <2>1, <2>2, BitsOfEqual
<1>8. c[4 * p] = d[4 * p]
  <2>1. 4 * p \in Nat /\ 4 * p <= n  BY <1>2
  <2> HIDE DEF n
  <2>2. QED  BY <1>2, <1>3, <1>4, <1>6, <2>1, SameBeginning
<1>9. c[4 * q] = d[4 * q]
  <2>1. PICK r \in 0 .. n : r = 4 * q  BY <1>2
  <2>2. \A k \in r + 1 .. n : Bits(x, 4)[k] = Bits(y, 4)[k]  BY <1>7, <2>1
  <2>3. n \in Nat /\ c[n] = d[n]  BY <1>2, <1>5
  <2> HIDE DEF n
  <2>4. c[r] = d[r]  BY <1>3, <1>4, <2>2, <2>3, SameEnd
  <2>5. QED  BY <2>1, <2>4
<1>10. \A k \in 4 * p + 1 .. 4 * q : Bits(x, 4)[k] \in 0 .. 1 /\ Bits(y, 4)[k] \in 0 .. 1
  <2>1. \A k \in 4 * p + 1 .. 4 * q : k \in 1 .. 4 * Len(x) /\ k \in 1 .. 4 * Len(y)
    BY <1>1, <1>2
  <2>2. QED  BY <2>1, BitsAreBits
<1>11. \A k \in 4 * p + 1 .. 4 * q : Bits(x, 4)[k] = Bits(y, 4)[k]
  <2>1. PICK l \in 0 .. n, r \in 0 .. n : l = 4 * p /\ r = 4 * q /\ r \in l .. n  BY <1>2
  <2>2. n \in Nat /\ r <= l + 16 /\ c[l] = d[l] /\ c[r] = d[r]  BY <1>2, <1>8, <1>9, <2>1
  <2>3. PICK b, e : b = Bits(x, 4) /\ e = Bits(y, 4)  OBVIOUS
  <2>4. AreBits(b, e, l, r)  BY <1>10, <2>1, <2>3 DEF AreBits
  <2> HIDE DEF n
  <2>5. RegistersOf(c, b, n) /\ RegistersOf(d, e, n)  BY <1>3, <1>4, <2>3
  <2>6. \A k \in l + 1 .. r : b[k] = e[k]  BY <2>1, <2>2, <2>4, <2>5, BurstsAreSeen
  <2>7. QED  BY <2>1, <2>3, <2>6
<1>12. \A i \in p + 1 .. q : x[i] = y[i]
  <2>1. p \in Nat /\ q \in Nat /\ q <= Len(x) /\ q <= Len(y)  BY <1>1, <1>2
  <2>2. QED  BY <1>11, <2>1, EqualByBits, Zenon
<1>13. \A i \in 1 .. Len(x) : x[i] = y[i]  BY <1>1, <1>12
<1>14. QED  BY <1>13, SeqEqual DEF Symbols

-----------------------------------------------------------------------------
(* Frames *)

\* What encode_frame is given: an address of 11 bits, and up to 15 bytes behind
\* the hash.
MaxAddress == 2047
IsFrame(f) ==
  \E address \in 0 .. MaxAddress, request \in BOOLEAN, hash \in Symbols, payload \in Symbols :
    /\ Len(hash) = 4 /\ Len(payload) <= 30 /\ Len(payload) % 2 = 0
    /\ f = Frame(address, request, hash, payload)

\* The symbols x between the markers of w.
Framed(w, x) ==
  /\ w \in Seq(Symbol) /\ Len(w) = Len(x) + 2
  /\ w[1] = START_MARKER /\ w[Len(x) + 2] = END_MARKER
  /\ \A i \in 1 .. Len(x) : w[i + 1] = x[i]

\* x is the header, hash and payload of f with their CRC.
IsBody(x, f) ==
  /\ x \in Symbols /\ CrcFits(x) /\ Len(x) = Len(f.payload) + 12
  /\ \A i \in 1 .. 4 : x[i] = Header(f.address, f.request, Len(f.payload) \div 2)[i]
  /\ \A i \in 1 .. 4 : x[4 + i] = f.hash[i]
  /\ \A i \in 1 .. Len(f.payload) : x[8 + i] = f.payload[i]

\* c is a and b behind it.
Joins(S, c, a, b) ==
  /\ c \in Seq(S) /\ Len(a) \in Nat /\ Len(b) \in Nat /\ Len(c) = Len(a) + Len(b)
  /\ \A i \in 1 .. Len(a) : c[i] = a[i]
  /\ \A i \in 1 .. Len(b) : c[Len(a) + i] = b[i]

LEMMA Joined ==
  ASSUME NEW S, NEW a \in Seq(S), NEW b \in Seq(S)
  PROVE  Joins(S, a \o b, a, b)
<1> DEFINE c == a \o b
           m == Len(a)
           n == Len(b)
<1>1. /\ m \in Nat /\ n \in Nat /\ c \in Seq(S) /\ Len(c) = m + n
      /\ \A i \in 1 .. m + n : c[i] = IF i <= m THEN a[i] ELSE b[i - m]
  BY LenProperties, ConcatProperties
<1> HIDE DEF c, m, n
<1>2. \A i \in 1 .. m : c[i] = a[i]
  <2>1. \A i \in 1 .. m : i \in 1 .. m + n /\ i <= m  BY <1>1
  <2>2. QED  BY <1>1, <2>1
<1>3. \A i \in 1 .. n : c[m + i] = b[i]
  <2>1. \A i \in 1 .. n : m + i \in 1 .. m + n /\ ~(m + i <= m) /\ (m + i) - m = i  BY <1>1
  <2>2. QED  BY <1>1, <2>1
<1>4. QED  BY <1>1, <1>2, <1>3 DEF Joins, c, m, n

LEMMA NibblesAreSymbols ==
  /\ \A x \in Symbols : x \in Seq(Symbol)
  /\ START_MARKER \in Symbol /\ END_MARKER \in Symbol /\ START_MARKER # END_MARKER
  /\ START_MARKER \notin Nibble /\ END_MARKER \notin Nibble
BY DEF Symbols, Nibble, Symbol, OtherSymbol, START_MARKER, END_MARKER

\* A row with its CRC behind it, and that between the markers.
LEMMA Closed ==
  ASSUME NEW covered \in Symbols, NEW n \in Nat, Len(covered) = n
  PROVE  \E x \in Symbols :
           /\ Framed(<<START_MARKER>> \o covered \o CrcSymbols(Crc16(covered)) \o <<END_MARKER>>, x)
           /\ CrcFits(x) /\ Len(x) = n + 4 /\ \A i \in 1 .. n : x[i] = covered[i]
<1>1. PICK crc \in Symbols : crc = CrcSymbols(Crc16(covered)) /\ Len(crc) = 4
  <2>1. Len(Bits(covered, 4)) = 4 * n /\ 4 * n \in Nat  BY FourBits
  <2>2. PICK c : RegistersOf(c, Bits(covered, 4), 4 * n) /\ CrcOfBits(Bits(covered, 4)) = c[4 * n]
    BY <2>1, CrcIsRegister
  <2>3. 4 * n \in 0 .. 4 * n  BY <2>1
  <2>4. c[4 * n] \in Register  BY <2>1, <2>2, <2>3, HashesAre
  <2>5. Crc16(covered) \in Register  BY <2>2, <2>4 DEF Crc16, HashBits
  <2>6. QED  BY <2>5, CrcInSymbols
<1>2. PICK x : x = covered \o crc  OBVIOUS
<1>3. /\ x \in Symbols /\ Len(x) = n + 4
      /\ \A i \in 1 .. n : x[i] = covered[i]
      /\ \A i \in 1 .. 4 : x[n + i] = crc[i]
  <2>1. covered \in Seq(Nibble) /\ crc \in Seq(Nibble)  BY DEF Symbols
  <2>2. Joins(Nibble, x, covered, crc)  BY <1>2, <2>1, Joined
  <2>3. QED  BY <1>1, <2>2 DEF Joins, Symbols
<1>4. CrcFits(x)
  <2>1. /\ Len(x) - 4 = n /\ Len(x) - 3 = n + 1 /\ 1 \in 1 .. Len(x) + 1 /\ n \in 0 .. Len(x)
        /\ 1 <= n + 1 /\ n + 1 \in 1 .. Len(x) + 1 /\ n + 4 \in 0 .. Len(x)
        /\ n + 1 <= (n + 4) + 1 /\ n - 1 + 1 = n /\ (n + 4) - (n + 1) + 1 = 4
        /\ \A i \in 1 .. n : 1 + i - 1 = i
        /\ \A i \in 1 .. 4 : (n + 1) + i - 1 = n + i
    BY <1>3
  <2>2. PICK front : front = SubSeq(x, 1, n)  OBVIOUS
  <2>3. PICK tail : tail = SubSeq(x, n + 1, n + 4)  OBVIOUS
  <2>4. front \in Symbols /\ Len(front) = n /\ \A i \in 1 .. n : front[i] = covered[i]
    <3>1. /\ front \in Seq(Nibble) /\ Len(front) = n - 1 + 1
          /\ \A i \in 1 .. n - 1 + 1 : front[i] = x[1 + i - 1]
      BY <1>3, <2>1, <2>2, Pieces DEF Symbols
    <3>2. QED  BY <1>3, <2>1, <3>1 DEF Symbols
  <2>5. tail \in Symbols /\ Len(tail) = 4 /\ \A i \in 1 .. 4 : tail[i] = crc[i]
    <3>1. PICK l \in 1 .. Len(x) + 1, h \in 0 .. Len(x) : l = n + 1 /\ h = n + 4
      BY <1>3, <2>1
    <3>2. x \in Seq(Nibble) /\ l <= h + 1 /\ tail = SubSeq(x, l, h)
      BY <1>3, <2>1, <2>3, <3>1 DEF Symbols
    <3>3. /\ tail \in Seq(Nibble) /\ Len(tail) = h - l + 1
          /\ \A i \in 1 .. h - l + 1 : tail[i] = x[l + i - 1]
      BY <3>2, Pieces
    <3>4. h - l + 1 = 4 /\ \A i \in 1 .. 4 : l + i - 1 = n + i  BY <3>1
    <3>5. QED  BY <1>3, <3>3, <3>4 DEF Symbols
  <2>6. front = covered
    <3>1. front \in Seq(Nibble) /\ covered \in Seq(Nibble) /\ Len(front) = Len(covered)
          /\ \A i \in 1 .. Len(front) : front[i] = covered[i]
      BY <2>4 DEF Symbols
    <3>2. QED  BY <3>1, SeqEqual
  <2>7. tail = crc
    <3>1. tail \in Seq(Nibble) /\ crc \in Seq(Nibble) /\ Len(tail) = Len(crc)
          /\ \A i \in 1 .. Len(tail) : tail[i] = crc[i]
      BY <1>1, <2>5 DEF Symbols
    <3>2. QED  BY <3>1, SeqEqual
  <2>8. Len(x) - 4 = n /\ Len(x) - 3 = n + 1 /\ Len(x) = n + 4  BY <1>3, <2>1
  <2>9. CrcFits(x) <=> CrcSymbols(Crc16(front)) = tail
    BY <2>2, <2>3, <2>8 DEF CrcFits
  <2>10. QED  BY <1>1, <2>6, <2>7, <2>9
<1>5. PICK a, b : a = <<START_MARKER>> /\ b = <<END_MARKER>>  OBVIOUS
<1>6. /\ a \in Seq(Symbol) /\ Len(a) = 1 /\ a[1] = START_MARKER
      /\ b \in Seq(Symbol) /\ Len(b) = 1 /\ b[1] = END_MARKER
      /\ covered \in Seq(Symbol) /\ crc \in Seq(Symbol)
  BY <1>5, NibblesAreSymbols
<1>7. PICK u : u = a \o covered  OBVIOUS
<1>8. PICK v : v = u \o crc  OBVIOUS
<1>9. PICK w : w = v \o b  OBVIOUS
<1>10. /\ u \in Seq(Symbol) /\ Len(u) = 1 + n
       /\ \A i \in 1 .. 1 : u[i] = a[i]
       /\ \A i \in 1 .. n : u[1 + i] = covered[i]
  <2>1. Joins(Symbol, u, a, covered)  BY <1>6, <1>7, Joined
  <2>2. QED  BY <1>6, <2>1 DEF Joins
<1>11. /\ v \in Seq(Symbol) /\ Len(v) = (1 + n) + 4
       /\ \A i \in 1 .. 1 + n : v[i] = u[i]
       /\ \A i \in 1 .. 4 : v[(1 + n) + i] = crc[i]
  <2>1. Joins(Symbol, v, u, crc)  BY <1>6, <1>8, <1>10, Joined
  <2>2. QED  BY <1>1, <1>10, <2>1 DEF Joins
<1>12. /\ w \in Seq(Symbol) /\ Len(w) = ((1 + n) + 4) + 1
       /\ \A i \in 1 .. (1 + n) + 4 : w[i] = v[i]
       /\ \A i \in 1 .. 1 : w[((1 + n) + 4) + i] = b[i]
  <2>1. Joins(Symbol, w, v, b)  BY <1>6, <1>9, <1>11, Joined
  <2>2. QED  BY <1>6, <1>11, <2>1 DEF Joins
<1>13. w[1] = START_MARKER /\ w[Len(x) + 2] = END_MARKER /\ Len(w) = Len(x) + 2
  <2>1. 1 \in 1 .. (1 + n) + 4 /\ 1 \in 1 .. 1 + n /\ 1 \in 1 .. 1
        /\ Len(x) + 2 = ((1 + n) + 4) + 1
    BY <1>3
  <2>2. QED  BY <1>6, <1>10, <1>11, <1>12, <2>1
<1>14. ASSUME NEW i \in 1 .. n + 4 PROVE w[i + 1] = x[i]
  <2>1. CASE i <= n
    <3>1. i \in 1 .. n /\ 1 + i \in 1 .. 1 + n /\ 1 + i \in 1 .. (1 + n) + 4 /\ 1 + i = i + 1
      BY <2>1
    <3>2. QED  BY <1>3, <1>10, <1>11, <1>12, <3>1
  <2>2. CASE ~(i <= n)
    <3>1. PICK j \in 1 .. 4 : i = n + j
      <4>1. i - n \in 1 .. 4 /\ i = n + (i - n)  BY <2>2
      <4>2. QED  BY <4>1
    <3>2. i + 1 = (1 + n) + j /\ i + 1 \in 1 .. (1 + n) + 4  BY <3>1
    <3>3. QED  BY <1>3, <1>11, <1>12, <3>1, <3>2
  <2>3. QED  BY <2>1, <2>2
<1>15. Framed(w, x)  BY <1>3, <1>12, <1>13, <1>14 DEF Framed
<1>16. w = <<START_MARKER>> \o covered \o CrcSymbols(Crc16(covered)) \o <<END_MARKER>>
  BY <1>1, <1>5, <1>7, <1>8, <1>9
<1>17. QED  BY <1>3, <1>4, <1>15, <1>16

LEMMA HeaderIs ==
  ASSUME NEW address \in 0 .. MaxAddress, NEW request \in BOOLEAN, NEW size \in 0 .. 15
  PROVE  LET h == Header(address, request, size) IN
         /\ h \in Symbols /\ Len(h) = 4 /\ h[4] = size
         /\ h[1] * 128 + h[2] * 8 + (h[3] \div 2) = address
         /\ h[3] % 2 = 1 <=> request
<1> DEFINE h == Header(address, request, size)
           r == IF request THEN 1 ELSE 0
<1>1. address \in Nat /\ address <= 2047
  <2>1. MaxAddress \in Int  BY DEF MaxAddress
  <2>2. address \in Nat /\ address <= MaxAddress  BY <2>1
  <2>3. QED  BY <2>2 DEF MaxAddress
<1>2. r \in 0 .. 1 /\ (r = 1 <=> request)  OBVIOUS
<1>3. h = <<address \div 128, (address \div 8) % 16, (address % 8) * 2 + r, size>>
  BY Zenon DEF Header
<1> HIDE DEF h, r
<1>4. /\ address \div 128 \in 0 .. 15 /\ (address \div 8) % 16 \in 0 .. 15
      /\ (address % 8) * 2 + r \in 0 .. 15
  BY <1>1, <1>2
<1>5. h \in Seq(0 .. 15) /\ Len(h) = 4  BY <1>3, <1>4
<1>6. /\ ((address % 8) * 2 + r) \div 2 = address % 8
      /\ ((address % 8) * 2 + r) % 2 = r
  BY <1>1, <1>2
<1>7. (address \div 128) * 128 + ((address \div 8) % 16) * 8 + (address % 8) = address
  BY <1>1
<1>8. /\ h[1] = address \div 128 /\ h[2] = (address \div 8) % 16
      /\ h[3] = (address % 8) * 2 + r /\ h[4] = size
  BY <1>3
<1>9. QED  BY <1>2, <1>5, <1>6, <1>7, <1>8 DEF h, Symbols, Nibble

\* What encode_frame puts on the line.
LEMMA FrameShape ==
  ASSUME NEW f, IsFrame(f)
  PROVE  \E x : IsBody(x, f) /\ Framed(EncodeFrame(f), x)
<1>1. PICK address \in 0 .. MaxAddress, request \in BOOLEAN, hash \in Symbols, payload \in Symbols :
        /\ Len(hash) = 4 /\ Len(payload) <= 30 /\ Len(payload) % 2 = 0
        /\ f = Frame(address, request, hash, payload)
  BY DEF IsFrame
<1>2. f.address = address /\ f.request = request /\ f.hash = hash /\ f.payload = payload
  BY <1>1 DEF Frame
<1>3. PICK n \in Nat : n = Len(payload)  BY DEF Symbols
<1>4. PICK size \in 0 .. 15 : size = n \div 2
  <2>1. n \div 2 \in 0 .. 15  BY <1>1, <1>3
  <2>2. QED  BY <2>1
<1>5. PICK header \in Symbols : header = Header(address, request, size) /\ Len(header) = 4
  BY HeaderIs
<1>6. PICK block : block = header \o hash  OBVIOUS
<1>7. PICK covered : covered = block \o payload  OBVIOUS
<1>8. /\ block \in Symbols /\ Len(block) = 4 + 4
      /\ \A i \in 1 .. 4 : block[i] = header[i]
      /\ \A i \in 1 .. 4 : block[4 + i] = hash[i]
  <2>1. header \in Seq(Nibble) /\ hash \in Seq(Nibble)  BY DEF Symbols
  <2>2. Joins(Nibble, block, header, hash)  BY <1>6, <2>1, Joined
  <2>3. QED  BY <1>1, <1>5, <2>2 DEF Joins, Symbols
<1>9. /\ covered \in Symbols /\ Len(covered) = (4 + 4) + n
      /\ \A i \in 1 .. 4 + 4 : covered[i] = block[i]
      /\ \A i \in 1 .. n : covered[(4 + 4) + i] = payload[i]
  <2>1. block \in Seq(Nibble) /\ payload \in Seq(Nibble)  BY <1>8 DEF Symbols
  <2>2. Joins(Nibble, covered, block, payload)  BY <1>7, <2>1, Joined
  <2>3. QED  BY <1>3, <1>8, <2>2 DEF Joins, Symbols
<1>10. PICK x \in Symbols :
         /\ Framed(<<START_MARKER>> \o covered \o CrcSymbols(Crc16(covered)) \o <<END_MARKER>>, x)
         /\ CrcFits(x) /\ Len(x) = ((4 + 4) + n) + 4
         /\ \A i \in 1 .. (4 + 4) + n : x[i] = covered[i]
  <2>1. PICK m \in Nat : m = (4 + 4) + n  OBVIOUS
  <2>2. Len(covered) = m  BY <1>9, <2>1
  <2>3. PICK x \in Symbols :
          /\ Framed(<<START_MARKER>> \o covered \o CrcSymbols(Crc16(covered)) \o <<END_MARKER>>, x)
          /\ CrcFits(x) /\ Len(x) = m + 4 /\ \A i \in 1 .. m : x[i] = covered[i]
    BY <1>9, <2>2, Closed
  <2>4. QED  BY <2>1, <2>3
<1>11. EncodeFrame(f) = <<START_MARKER>> \o covered \o CrcSymbols(Crc16(covered)) \o <<END_MARKER>>
  <2>1. Header(f.address, f.request, Len(f.payload) \div 2) \o f.hash \o f.payload = covered
    BY <1>2, <1>3, <1>4, <1>5, <1>6, <1>7
  <2>2. QED  BY Zenon, <2>1 DEF EncodeFrame
<1>12. ASSUME NEW i \in 1 .. 4 PROVE x[i] = header[i] /\ x[4 + i] = hash[i]
  <2>1. i \in 1 .. 4 + 4 /\ i \in 1 .. (4 + 4) + n /\ 4 + i \in 1 .. 4 + 4 /\ 4 + i \in 1 .. (4 + 4) + n
    OBVIOUS
  <2>2. QED  BY <1>8, <1>9, <1>10, <2>1
<1>13. ASSUME NEW i \in 1 .. n PROVE x[8 + i] = payload[i]
  <2>1. (4 + 4) + i \in 1 .. (4 + 4) + n /\ (4 + 4) + i = 8 + i  OBVIOUS
  <2>2. QED  BY <1>9, <1>10, <2>1
<1>14. Len(x) = n + 12  BY <1>10
<1>15. IsBody(x, f)
  BY <1>2, <1>3, <1>4, <1>5, <1>10, <1>12, <1>13, <1>14 DEF IsBody
<1>16. QED  BY <1>10, <1>11, <1>15

\* The parts decode_frame takes a frame to pieces into.
Body(w) == SubSeq(w, 2, Len(w) - 1)
Covered(x) == SubSeq(x, 1, Len(x) - 4)
Block(x) == SubSeq(Covered(x), 5, Len(Covered(x)))

\* The checks of decode_frame; x is the body of w.
Accepts(w, x) ==
  /\ w # <<>> /\ Head(w) = START_MARKER /\ Last(w) = END_MARKER
  /\ Len(x) % 2 = 0 /\ (\A i \in DOMAIN x : x[i] \in Nibble) /\ Len(x) >= 8
  /\ CrcFits(x) /\ Len(Block(x)) = 2 * (Covered(x)[4] + 2)

Decoded(x) ==
  Frame(Covered(x)[1] * 128 + Covered(x)[2] * 8 + Covered(x)[3] \div 2, Covered(x)[3] % 2 = 1,
        SubSeq(Block(x), 1, 4), SubSeq(Block(x), 5, Len(Block(x))))

LEMMA DecodeIs ==
  ASSUME NEW w, Len(Body(w)) \in Nat
  PROVE  DecodeFrame(w) = IF Accepts(w, Body(w)) THEN Decoded(Body(w)) ELSE NotAFrame
<1> DEFINE x == Body(w)
           refused == \/ w = <<>> \/ Head(w) # START_MARKER \/ Last(w) # END_MARKER
                      \/ Len(x) % 2 # 0 \/ \E i \in DOMAIN x : x[i] \notin Nibble
                      \/ Len(x) < 8
                      \/ CrcSymbols(Crc16(Covered(x))) # SubSeq(x, Len(x) - 3, Len(x))
                      \/ Len(Block(x)) # 2 * (Covered(x)[4] + 2)
<1>1. DecodeFrame(w) = IF refused THEN NotAFrame ELSE Decoded(x)
  BY Zenon DEF DecodeFrame, Body, Covered, Block, Decoded
<1>2. refused <=> ~Accepts(w, x)
  <2>1. Len(x) < 8 <=> ~(Len(x) >= 8)  OBVIOUS
  <2>2. QED  BY <2>1, Zenon DEF Accepts, CrcFits, Covered
<1>3. QED  BY <1>1, <1>2, Zenon

LEMMA BodyIs ==
  ASSUME NEW w \in Seq(Symbol), Len(w) >= 1
  PROVE  /\ Body(w) \in Seq(Symbol)
         /\ Len(w) >= 2 => /\ Len(Body(w)) = Len(w) - 2 /\ DOMAIN Body(w) = 1 .. Len(w) - 2
                           /\ \A i \in 1 .. Len(w) - 2 : Body(w)[i] = w[i + 1]
<1>1. Len(w) \in Nat  OBVIOUS
<1>2. CASE Len(w) = 1
  <2>1. Len(w) - 1 = 0  BY <1>2
  <2>2. SubSeq(w, 2, 0) = <<>>  BY SubSeqEmpty
  <2>3. Body(w) = <<>>  BY <2>1, <2>2 DEF Body
  <2>4. QED  BY <1>2, <2>3
<1>3. CASE Len(w) # 1
  <2>1. PICK n \in 0 .. Len(w) : n = Len(w) - 1
    <3>1. PICK l \in Nat : l = Len(w) /\ l >= 1  BY <1>1
    <3>2. l - 1 \in 0 .. l  BY <3>1
    <3>3. QED  BY <3>1, <3>2
  <2>2. 2 \in 1 .. Len(w) + 1 /\ 2 <= n + 1  BY <1>1, <1>3, <2>1
  <2>3. /\ SubSeq(w, 2, n) \in Seq(Symbol) /\ Len(SubSeq(w, 2, n)) = n - 2 + 1
        /\ DOMAIN SubSeq(w, 2, n) = 1 .. n - 2 + 1
        /\ \A i \in 1 .. n - 2 + 1 : SubSeq(w, 2, n)[i] = w[2 + i - 1]
    BY <2>2, Pieces
  <2>4. n - 2 + 1 = Len(w) - 2 /\ \A i \in 1 .. n - 2 + 1 : 2 + i - 1 = i + 1  BY <2>1
  <2>5. Body(w) = SubSeq(w, 2, n)  BY <2>1 DEF Body
  <2>6. QED  BY <2>3, <2>4, <2>5
<1>4. QED  BY <1>2, <1>3

LEMMA BlockIs ==
  ASSUME NEW x \in Symbols, Len(x) >= 8
  PROVE  /\ Covered(x) \in Symbols /\ Len(Covered(x)) = Len(x) - 4
         /\ \A i \in 1 .. Len(x) - 4 : Covered(x)[i] = x[i]
         /\ Block(x) \in Symbols /\ Len(Block(x)) = Len(x) - 8
         /\ \A i \in 1 .. Len(x) - 8 : Block(x)[i] = x[4 + i]
<1>1. Len(x) \in Nat /\ x \in Seq(Nibble)  BY DEF Symbols
<1>2. PICK n \in 0 .. Len(x) : n = Len(x) - 4  BY <1>1
<1>3. 1 \in 1 .. Len(x) + 1 /\ 1 <= n + 1  BY <1>1, <1>2
<1>4. PICK c : c = SubSeq(x, 1, n)  OBVIOUS
<1>5. /\ c \in Seq(Nibble) /\ Len(c) = n - 1 + 1 /\ \A i \in 1 .. n - 1 + 1 : c[i] = x[1 + i - 1]
  BY <1>1, <1>3, <1>4, Pieces
<1>6. n - 1 + 1 = n /\ \A i \in 1 .. n : 1 + i - 1 = i  BY <1>2
<1>7. c \in Seq(Nibble) /\ Len(c) = n /\ \A i \in 1 .. n : c[i] = x[i]  BY <1>5, <1>6
<1>8. 5 \in 1 .. Len(c) + 1 /\ n \in 0 .. Len(c) /\ 5 <= n + 1  BY <1>1, <1>2, <1>7
<1>9. PICK b : b = SubSeq(c, 5, n)  OBVIOUS
<1>10. /\ b \in Seq(Nibble) /\ Len(b) = n - 5 + 1 /\ \A i \in 1 .. n - 5 + 1 : b[i] = c[5 + i - 1]
  BY <1>7, <1>8, <1>9, Pieces
<1>11. ASSUME NEW i \in 1 .. Len(x) - 8 PROVE b[i] = x[4 + i]
  <2>1. i \in 1 .. n - 5 + 1 /\ 5 + i - 1 = 4 + i /\ 4 + i \in 1 .. n  BY <1>1, <1>2
  <2>2. QED  BY <1>7, <1>10, <2>1
<1>12. n - 5 + 1 = Len(x) - 8  BY <1>1, <1>2
<1>13. Covered(x) = c  BY <1>2, <1>4 DEF Covered
<1>14. Block(x) = b  BY <1>7, <1>9, <1>13 DEF Block
<1>15. QED  BY <1>2, <1>7, <1>10, <1>11, <1>12, <1>13, <1>14 DEF Symbols

\* What decode_frame takes for a frame has markers, an even number of symbols
\* between them, a fitting CRC and the length its header says.
LEMMA AcceptedIs ==
  ASSUME NEW w \in Seq(Symbol), DecodeFrame(w) # NotAFrame
  PROVE  \E x \in Symbols : /\ Framed(w, x) /\ Len(x) % 2 = 0 /\ Len(x) >= 8 /\ CrcFits(x)
                            /\ Len(x) - 8 = 2 * (x[4] + 2)
<1>1. Len(w) \in Nat /\ Len(w) >= 1
  <2>1. CASE w = <<>>
    <3>1. DecodeFrame(w) = NotAFrame  BY <2>1, Zenon DEF DecodeFrame
    <3>2. QED  BY <3>1
  <2>2. CASE w # <<>>  BY <2>2, EmptySeq
  <2>3. QED  BY <2>1, <2>2
<1> DEFINE x == Body(w)
<1>2. x \in Seq(Symbol)  BY <1>1, BodyIs
<1>3. Accepts(w, x)
  <2>1. Len(Body(w)) \in Nat  BY <1>2
  <2>2. QED  BY <2>1, DecodeIs
<1> HIDE DEF x
<1>4. w[1] = START_MARKER /\ w[Len(w)] = END_MARKER
  <2>1. Head(w) = w[1] /\ Last(w) = w[Len(w)]  BY <1>1, <1>3 DEF Accepts, Last
  <2>2. QED  BY <1>3, <2>1 DEF Accepts
<1>5. Len(w) >= 2
  <2>1. Len(w) # 1  BY <1>4, NibblesAreSymbols
  <2>2. PICK m \in Nat : m = Len(w)  BY <1>1
  <2>3. m >= 1 /\ m # 1  BY <1>1, <2>1, <2>2
  <2>4. m >= 2  BY <2>3
  <2>5. QED  BY <2>2, <2>4
<1>6. /\ Len(x) = Len(w) - 2 /\ DOMAIN x = 1 .. Len(w) - 2
      /\ \A i \in 1 .. Len(w) - 2 : x[i] = w[i + 1]
  BY <1>1, <1>5, BodyIs DEF x
<1>7. x \in Symbols
  <2>1. \A i \in 1 .. Len(x) : x[i] \in Nibble  BY <1>3, <1>6 DEF Accepts
  <2>2. x \in [1 .. Len(x) -> Nibble] /\ Len(x) \in Nat  BY <1>2, <2>1
  <2>3. QED  BY <2>2 DEF Symbols
<1>8. Len(x) % 2 = 0 /\ Len(x) >= 8 /\ CrcFits(x) /\ Len(Block(x)) = 2 * (Covered(x)[4] + 2)
  BY <1>3 DEF Accepts
<1>9. Len(x) - 8 = 2 * (x[4] + 2)
  <2>1. 4 \in 1 .. Len(x) - 4  BY <1>1, <1>6, <1>8
  <2>2. QED  BY <1>7, <1>8, <2>1, BlockIs
<1>10. Framed(w, x)
  <2>1. Len(x) + 2 = Len(w)  BY <1>1, <1>6
  <2>2. QED  BY <1>4, <1>6, <2>1 DEF Framed
<1>11. QED  BY <1>7, <1>8, <1>9, <1>10

\* Every frame comes back from the line as it was sent.
THEOREM FramesReadBack ==
  ASSUME NEW f, IsFrame(f)
  PROVE  DecodeFrame(EncodeFrame(f)) = f
<1>1. PICK address \in 0 .. MaxAddress, request \in BOOLEAN, hash \in Symbols, payload \in Symbols :
        /\ Len(hash) = 4 /\ Len(payload) <= 30 /\ Len(payload) % 2 = 0
        /\ f = Frame(address, request, hash, payload)
  BY DEF IsFrame
<1>2. f.address = address /\ f.request = request /\ f.hash = hash /\ f.payload = payload
  BY <1>1 DEF Frame
<1>3. PICK n \in Nat : n = Len(payload) /\ n <= 30 /\ n % 2 = 0  BY <1>1 DEF Symbols
<1>4. PICK size \in 0 .. 15 : size = n \div 2 /\ 2 * size = n
  <2>1. n \div 2 \in 0 .. 15 /\ 2 * (n \div 2) = n  BY <1>3
  <2>2. QED  BY <2>1
<1>5. PICK h : h = Header(address, request, size)  OBVIOUS
<1>6. /\ h[4] = size /\ h[1] * 128 + h[2] * 8 + (h[3] \div 2) = address
      /\ h[3] % 2 = 1 <=> request
  BY <1>5, HeaderIs
<1>7. PICK w, x : w = EncodeFrame(f) /\ IsBody(x, f) /\ Framed(w, x)
  BY FrameShape
<1>8. /\ x \in Symbols /\ CrcFits(x) /\ Len(x) = n + 12
      /\ \A i \in 1 .. 4 : x[i] = h[i] /\ x[4 + i] = hash[i]
      /\ \A i \in 1 .. n : x[8 + i] = payload[i]
  BY <1>2, <1>3, <1>4, <1>5, <1>7 DEF IsBody
<1>9. w \in Seq(Symbol) /\ Len(w) = n + 14 /\ w[1] = START_MARKER /\ w[n + 14] = END_MARKER
      /\ \A i \in 1 .. n + 12 : w[i + 1] = x[i]
  <2>1. Len(x) + 2 = n + 14  BY <1>8
  <2>2. QED  BY <1>7, <1>8, <2>1 DEF Framed
<1>10. Body(w) = x
  <2>1. Len(w) >= 1 /\ Len(w) >= 2 /\ Len(w) - 2 = n + 12  BY <1>9
  <2>2. /\ Body(w) \in Seq(Symbol) /\ Len(Body(w)) = n + 12
        /\ \A i \in 1 .. n + 12 : Body(w)[i] = w[i + 1]
    BY <1>9, <2>1, BodyIs
  <2>3. x \in Seq(Symbol)  BY <1>8, NibblesAreSymbols
  <2>4. Len(Body(w)) = Len(x) /\ \A i \in 1 .. Len(Body(w)) : Body(w)[i] = x[i]
    BY <1>8, <1>9, <2>2
  <2>5. QED  BY <2>2, <2>3, <2>4, SeqEqual
<1>11. PICK c, b : c = Covered(x) /\ b = Block(x)  OBVIOUS
<1>12. /\ c \in Symbols /\ \A i \in 1 .. n + 8 : c[i] = x[i]
       /\ b \in Symbols /\ Len(b) = n + 4 /\ \A i \in 1 .. n + 4 : b[i] = x[4 + i]
  <2>1. Len(x) >= 8 /\ Len(x) - 4 = n + 8 /\ Len(x) - 8 = n + 4  BY <1>8
  <2>2. x \in Symbols  BY <1>8
  <2>3. /\ c \in Symbols /\ \A i \in 1 .. Len(x) - 4 : c[i] = x[i]
        /\ b \in Symbols /\ Len(b) = Len(x) - 8
        /\ \A i \in 1 .. Len(x) - 8 : b[i] = x[4 + i]
    BY <1>11, <2>1, <2>2, BlockIs
  <2>4. QED  BY <2>1, <2>3
<1>13. \A i \in 1 .. 4 : c[i] = h[i]
  <2>1. \A i \in 1 .. 4 : i \in 1 .. n + 8  OBVIOUS
  <2>2. QED  BY <1>8, <1>12, <2>1
<1>14. Accepts(w, x)
  <2>1. w # <<>> /\ Head(w) = w[1] /\ Last(w) = w[n + 14]  BY <1>9 DEF Last
  <2>2. Len(x) % 2 = 0 /\ Len(x) >= 8  BY <1>3, <1>8
  <2>3. \A i \in DOMAIN x : x[i] \in Nibble  BY <1>8 DEF Symbols
  <2>4. Len(b) = 2 * (c[4] + 2)  BY <1>4, <1>6, <1>12, <1>13
  <2>5. QED  BY <1>8, <1>9, <1>11, <2>1, <2>2, <2>3, <2>4 DEF Accepts
<1>15. SubSeq(b, 1, 4) = hash
  <2>1. 1 \in 1 .. Len(b) + 1 /\ 4 \in 0 .. Len(b) /\ 1 <= 4 + 1 /\ 4 - 1 + 1 = 4
        /\ \A i \in 1 .. 4 : 1 + i - 1 = i /\ i \in 1 .. n + 4
    BY <1>12
  <2>2. b \in Seq(Nibble) /\ hash \in Seq(Nibble)  BY <1>12 DEF Symbols
  <2>3. /\ SubSeq(b, 1, 4) \in Seq(Nibble) /\ Len(SubSeq(b, 1, 4)) = 4 - 1 + 1
        /\ \A i \in 1 .. 4 - 1 + 1 : SubSeq(b, 1, 4)[i] = b[1 + i - 1]
    BY <2>1, <2>2, Pieces
  <2>4. \A i \in 1 .. 4 : SubSeq(b, 1, 4)[i] = hash[i]  BY <1>8, <1>12, <2>1, <2>3
  <2>5. Len(SubSeq(b, 1, 4)) = Len(hash)  BY <1>1, <2>1, <2>3
  <2>6. QED  BY <1>1, <2>2, <2>3, <2>4, <2>5, SeqEqual
<1>16. SubSeq(b, 5, Len(b)) = payload
  <2>1. PICK l \in 0 .. Len(b) : l = n + 4 /\ l = Len(b)  BY <1>12
  <2>2. 5 \in 1 .. Len(b) + 1 /\ 5 <= l + 1 /\ l - 5 + 1 = n
        /\ \A i \in 1 .. n : 5 + i - 1 = 4 + i /\ 4 + i \in 1 .. n + 4 /\ 4 + (4 + i) = 8 + i
    BY <1>12, <2>1
  <2>3. b \in Seq(Nibble) /\ payload \in Seq(Nibble)  BY <1>12 DEF Symbols
  <2>4. /\ SubSeq(b, 5, l) \in Seq(Nibble) /\ Len(SubSeq(b, 5, l)) = l - 5 + 1
        /\ \A i \in 1 .. l - 5 + 1 : SubSeq(b, 5, l)[i] = b[5 + i - 1]
    BY <2>2, <2>3, Pieces
  <2>5. \A i \in 1 .. n : SubSeq(b, 5, l)[i] = payload[i]  BY <1>8, <1>12, <2>2, <2>4
  <2>6. Len(SubSeq(b, 5, l)) = Len(payload) /\ Len(payload) = n  BY <1>3, <2>2, <2>4
  <2>7. SubSeq(b, 5, l) = payload  BY <2>3, <2>4, <2>5, <2>6, SeqEqual
  <2>8. QED  BY <2>1, <2>7
<1>17. Decoded(x) = f
  <2>1. c[1] * 128 + c[2] * 8 + (c[3] \div 2) = address /\ (c[3] % 2 = 1 <=> request)
    BY <1>6, <1>13
  <2>2. (c[3] % 2 = 1) = request  BY <2>1
  <2>3. Decoded(x) = Frame(c[1] * 128 + c[2] * 8 + (c[3] \div 2), c[3] % 2 = 1,
                           SubSeq(b, 1, 4), SubSeq(b, 5, Len(b)))
    BY <1>11, Zenon DEF Decoded
  <2>4. Decoded(x) = Frame(address, request, hash, payload)
    BY <1>15, <1>16, <2>1, <2>2, <2>3, Zenon
  <2>5. QED  BY <1>1, <2>4
<1>18. DecodeFrame(w) = Decoded(x)
  <2>1. Len(Body(w)) \in Nat  BY <1>8, <1>10
  <2>2. QED  BY <1>10, <1>14, <2>1, DecodeIs
<1>19. QED  BY <1>7, <1>17, <1>18

-----------------------------------------------------------------------------
(* Damaged frames *)

\* w is what encode_frame makes of f, and x its symbols between the markers.
OnTheLine(f, x, w) == IsFrame(f) /\ IsBody(x, f) /\ w = EncodeFrame(f) /\ Framed(w, x)

LineShape(x, w, n) ==
  /\ n \in Nat /\ n >= 12 /\ n % 2 = 0 /\ x \in Symbols /\ Len(x) = n /\ CrcFits(x)
  /\ n - 8 = 2 * (x[4] + 2)
  /\ w \in Seq(Symbol) /\ Len(w) = n + 2 /\ DOMAIN w = 1 .. n + 2
  /\ w[1] = START_MARKER /\ w[n + 2] = END_MARKER
  /\ \A i \in 1 .. n : w[i + 1] = x[i] /\ x[i] \in Nibble

LEMMA LineHas ==
  ASSUME NEW f, NEW x, NEW w, OnTheLine(f, x, w)
  PROVE  \E n : LineShape(x, w, n)
<1>1. PICK address \in 0 .. MaxAddress, request \in BOOLEAN, hash \in Symbols, payload \in Symbols :
        /\ Len(hash) = 4 /\ Len(payload) <= 30 /\ Len(payload) % 2 = 0
        /\ f = Frame(address, request, hash, payload)
  BY DEF OnTheLine, IsFrame
<1>2. f.address = address /\ f.request = request /\ f.payload = payload
  BY <1>1 DEF Frame
<1>3. PICK l \in Nat : l = Len(payload) /\ l <= 30 /\ l % 2 = 0  BY <1>1 DEF Symbols
<1>4. PICK size \in 0 .. 15 : size = l \div 2 /\ 2 * size = l
  <2>1. l \div 2 \in 0 .. 15 /\ 2 * (l \div 2) = l  BY <1>3
  <2>2. QED  BY <2>1
<1>5. Header(address, request, size)[4] = size  BY HeaderIs
<1>6. x \in Symbols /\ CrcFits(x) /\ Len(x) = l + 12 /\ x[4] = size
  BY <1>2, <1>3, <1>4, <1>5 DEF OnTheLine, IsBody
<1>7. PICK n \in Nat : n = l + 12 /\ n >= 12 /\ n % 2 = 0 /\ n - 8 = 2 * (size + 2)
  BY <1>3, <1>4
<1>8. /\ w \in Seq(Symbol) /\ Len(w) = n + 2 /\ w[1] = START_MARKER /\ w[n + 2] = END_MARKER
      /\ \A i \in 1 .. n : w[i + 1] = x[i]
  BY <1>6, <1>7 DEF OnTheLine, Framed
<1>9. \A i \in 1 .. n : x[i] \in Nibble  BY <1>6, <1>7 DEF Symbols
<1>10. DOMAIN w = 1 .. n + 2  BY <1>8, LenProperties
<1>11. QED  BY <1>6, <1>7, <1>8, <1>9, <1>10 DEF LineShape

LEMMA FramedOnce ==
  ASSUME NEW x, Len(x) \in Nat, NEW v, Framed(v, x), NEW w, Framed(w, x)
  PROVE  v = w
<1>1. PICK n \in Nat : n = Len(x)  OBVIOUS
<1>2. /\ v \in Seq(Symbol) /\ w \in Seq(Symbol) /\ Len(v) = n + 2 /\ Len(w) = n + 2
      /\ v[1] = w[1] /\ v[n + 2] = w[n + 2] /\ \A i \in 1 .. n : v[i + 1] = w[i + 1]
  BY <1>1 DEF Framed
<1>3. ASSUME NEW j \in 1 .. n + 2 PROVE v[j] = w[j]
  <2>1. j = 1 \/ j = n + 2 \/ (j - 1 \in 1 .. n /\ (j - 1) + 1 = j)  OBVIOUS
  <2>2. QED  BY <1>2, <2>1
<1>4. QED  BY <1>2, <1>3, SeqEqual

\* A row that differs from the frame in up to four symbols between the markers
\* is no other frame.
LEMMA TakenIsSent ==
  ASSUME NEW f, NEW x, NEW w, OnTheLine(f, x, w), NEW v \in Seq(Symbol), Len(v) = Len(w),
         NEW p \in 0 .. Len(x) - 4, \A i \in 1 .. Len(x) : v[i + 1] # x[i] => i \in p + 1 .. p + 4
  PROVE  DecodeFrame(v) \in {f, NotAFrame}
<1> SUFFICES ASSUME DecodeFrame(v) # NotAFrame PROVE DecodeFrame(v) = f  OBVIOUS
<1>1. PICK n \in Nat : x \in Symbols /\ Len(x) = n /\ CrcFits(x) /\ Len(w) = n + 2
  <2>1. PICK n : LineShape(x, w, n)  BY LineHas
  <2>2. QED  BY <2>1 DEF LineShape
<1>2. PICK y \in Symbols : Framed(v, y) /\ CrcFits(y)  BY AcceptedIs
<1>3. Len(y) = n
  <2>1. Len(y) \in Nat /\ Len(v) = Len(y) + 2  BY <1>2 DEF Framed, Symbols
  <2>2. Len(v) = n + 2  BY <1>1
  <2>3. QED  BY <2>1, <2>2
<1>4. \A i \in 1 .. Len(x) : x[i] # y[i] => i \in p + 1 .. p + 4
  <2>1. \A i \in 1 .. n : v[i + 1] = y[i]  BY <1>2, <1>3 DEF Framed
  <2>2. QED  BY <1>1, <2>1
<1>5. Len(x) = Len(y)  BY <1>1, <1>3
<1>6. x = y  BY <1>1, <1>2, <1>4, <1>5, BurstsAreNoticed
<1>7. v = w
  <2>1. Framed(v, x) /\ Framed(w, x) /\ Len(x) \in Nat  BY <1>1, <1>2, <1>6 DEF OnTheLine
  <2>2. QED  BY <2>1, FramedOnce
<1>8. QED  BY <1>7, FramesReadBack DEF OnTheLine

LEMMA OddIsRefused ==
  ASSUME NEW v \in Seq(Symbol), Len(v) % 2 # 0
  PROVE  DecodeFrame(v) = NotAFrame
<1> SUFFICES ASSUME DecodeFrame(v) # NotAFrame PROVE FALSE  OBVIOUS
<1>1. PICK y \in Symbols : Framed(v, y) /\ Len(y) % 2 = 0  BY AcceptedIs
<1>2. Len(y) \in Nat /\ Len(v) = Len(y) + 2  BY <1>1 DEF Framed, Symbols
<1>3. QED  BY <1>1, <1>2

\* _normalize_frame_response: what does not begin as a frame is not touched, and
\* not taken for one; what does is given an end.
LEMMA NormalizedIs ==
  ASSUME NEW v \in Seq(Symbol), NEW m \in Nat, Len(v) = m, m >= 1
  PROVE  /\ v[1] # START_MARKER => DecodeFrame(NormalizeResponse(v)) = NotAFrame
         /\ v[1] = START_MARKER /\ v[m] = END_MARKER => NormalizeResponse(v) = v
         /\ v[1] = START_MARKER /\ v[m] # END_MARKER =>
              \E u \in Seq(Symbol) :
                /\ u = NormalizeResponse(v) /\ Len(u) = m + 1 /\ u[m + 1] = END_MARKER
                /\ \A i \in 1 .. m : u[i] = v[i]
<1>1. v # <<>> /\ Head(v) = v[1] /\ Last(v) = v[m]  BY DEF Last
<1>2. NormalizeResponse(v) = IF v[1] = START_MARKER /\ v[m] # END_MARKER
                             THEN Append(v, END_MARKER) ELSE v
  BY <1>1, Zenon DEF NormalizeResponse
<1>3. ASSUME v[1] # START_MARKER PROVE DecodeFrame(NormalizeResponse(v)) = NotAFrame
  <2>1. NormalizeResponse(v) = v  BY <1>2, <1>3
  <2>2. ASSUME DecodeFrame(v) # NotAFrame PROVE FALSE
    <3>1. PICK y \in Symbols : Framed(v, y)  BY <2>2, AcceptedIs
    <3>2. QED  BY <1>3, <3>1 DEF Framed
  <2>3. QED  BY <2>1, <2>2
<1>4. ASSUME v[1] = START_MARKER, v[m] # END_MARKER
      PROVE  \E u \in Seq(Symbol) :
                /\ u = NormalizeResponse(v) /\ Len(u) = m + 1 /\ u[m + 1] = END_MARKER
                /\ \A i \in 1 .. m : u[i] = v[i]
  <2>1. PICK u : u = Append(v, END_MARKER)  OBVIOUS
  <2>2. /\ u \in Seq(Symbol) /\ Len(u) = m + 1 /\ u[m + 1] = END_MARKER
        /\ \A i \in 1 .. m : u[i] = v[i]
    BY <2>1, NibblesAreSymbols, AppendProperties
  <2>3. QED  BY <1>2, <1>4, <2>1, <2>2
<1>5. QED  BY <1>2, <1>3, <1>4

\* The refusal of what has lost its end, and an end that is restored.
LEMMA RestoredIs ==
  ASSUME NEW v \in Seq(Symbol), NEW m \in Nat, Len(v) = m, m >= 1,
         v[1] = START_MARKER, v[m] # END_MARKER, m % 2 = 0
  PROVE  DecodeFrame(NormalizeResponse(v)) = NotAFrame
<1>1. PICK u \in Seq(Symbol) : u = NormalizeResponse(v) /\ Len(u) = m + 1  BY NormalizedIs
<1>2. Len(u) % 2 # 0  BY <1>1
<1>3. QED  BY <1>1, <1>2, OddIsRefused

\* Two neighbours between the markers are within four symbols there.
LEMMA Window ==
  ASSUME NEW n \in Nat, n >= 12, NEW i \in Nat, i >= 1, i <= n
  PROVE  \E p \in 0 .. n - 4 : /\ i \in p + 1 .. p + 4
                               /\ i + 1 <= n => i + 1 \in p + 1 .. p + 4
<1>1. CASE i - 1 <= n - 4
  <2>1. i - 1 \in 0 .. n - 4 /\ i \in (i - 1) + 1 .. (i - 1) + 4
        /\ i + 1 \in (i - 1) + 1 .. (i - 1) + 4
    BY <1>1
  <2>2. QED  BY <2>1
<1>2. CASE ~(i - 1 <= n - 4)
  <2>1. n - 4 \in 0 .. n - 4 /\ i \in (n - 4) + 1 .. (n - 4) + 4
        /\ (i + 1 <= n => i + 1 \in (n - 4) + 1 .. (n - 4) + 4)
    BY <1>2
  <2>2. QED  BY <2>1
<1>3. QED  BY <1>1, <1>2

\* What is as long as the frame and differs from it in a symbol, or in it and
\* the next one, is no other frame.
Near(v, w, i) ==
  /\ v \in Seq(Symbol) /\ Len(v) = Len(w) /\ i \in 1 .. Len(w)
  /\ \A j \in 1 .. Len(w) : v[j] # w[j] => j = i \/ j = i + 1

LEMMA SameLengthIsSafe ==
  ASSUME NEW f, NEW x, NEW w, OnTheLine(f, x, w), NEW v, NEW i, Near(v, w, i)
  PROVE  DecodeFrame(NormalizeResponse(v)) \in {f, NotAFrame}
<1> USE DEF Near
<1>1. PICK n : LineShape(x, w, n)  BY LineHas
<1>2. /\ n \in Nat /\ n >= 12 /\ Len(x) = n /\ Len(v) = n + 2
      /\ n + 2 \in Nat /\ n + 2 >= 1 /\ (n + 2) % 2 = 0 /\ Len(w) = n + 2
      /\ \A j \in 1 .. n : w[j + 1] = x[j]
  BY <1>1 DEF LineShape
<1>3. CASE v[1] # START_MARKER  BY <1>2, <1>3, NormalizedIs
<1>4. CASE v[1] = START_MARKER /\ v[n + 2] # END_MARKER  BY <1>2, <1>4, RestoredIs
<1>5. CASE v[1] = START_MARKER /\ v[n + 2] = END_MARKER
  <2>1. NormalizeResponse(v) = v  BY <1>2, <1>5, NormalizedIs
  <2>2. PICK l \in Nat : l >= 1 /\ l <= n /\ \A j \in 1 .. n : j + 1 = i \/ j + 1 = i + 1 => j = l \/ j = l + 1
    <3>1. CASE i = 1
      <4>1. 1 \in Nat /\ 1 <= n /\ \A j \in 1 .. n : j + 1 = i \/ j + 1 = i + 1 => j = 1
        BY <1>2, <3>1
      <4>2. QED  BY <4>1
    <3>2. CASE i = n + 2
      <4>1. n \in Nat /\ n >= 1 /\ n <= n
            /\ \A j \in 1 .. n : j + 1 = i \/ j + 1 = i + 1 => j = n \/ j = n + 1
        BY <1>2, <3>2
      <4>2. QED  BY <4>1
    <3>3. CASE i # 1 /\ i # n + 2
      <4>1. i - 1 \in Nat /\ i - 1 >= 1 /\ i - 1 <= n
            /\ \A j \in 1 .. n : j + 1 = i \/ j + 1 = i + 1 => j = i - 1 \/ j = (i - 1) + 1
        BY <1>2, <3>3
      <4>2. QED  BY <4>1
    <3>4. QED  BY <3>1, <3>2, <3>3
  <2>3. PICK p \in 0 .. n - 4 : /\ l \in p + 1 .. p + 4
                                /\ l + 1 <= n => l + 1 \in p + 1 .. p + 4
    BY <1>2, <2>2, Window
  <2>4. ASSUME NEW j \in 1 .. n, v[j + 1] # x[j] PROVE j \in p + 1 .. p + 4
    <3>1. j + 1 \in 1 .. n + 2  BY <1>2
    <3>2. v[j + 1] # w[j + 1]  BY <1>2, <2>4
    <3>3. j + 1 = i \/ j + 1 = i + 1  BY <1>2, <3>1, <3>2
    <3>4. j = l \/ j = l + 1  BY <2>2, <3>3
    <3>5. CASE j = l  BY <2>3, <3>5
    <3>6. CASE j = l + 1
      <4>1. l + 1 <= n  BY <3>6
      <4>2. QED  BY <2>3, <3>6, <4>1
    <3>7. QED  BY <3>4, <3>5, <3>6
  <2>5. p \in 0 .. Len(x) - 4 /\ \A j \in 1 .. Len(x) : v[j + 1] # x[j] => j \in p + 1 .. p + 4
    BY <1>2, <2>4
  <2>6. QED  BY <2>1, <2>5, TakenIsSent
<1>6. QED  BY <1>3, <1>4, <1>5

LEMMA ChangedSymbol ==
  ASSUME NEW f, NEW x, NEW w, OnTheLine(f, x, w), NEW i \in DOMAIN w, NEW s \in Symbol
  PROVE  DecodeFrame(NormalizeResponse([w EXCEPT ![i] = s])) \in {f, NotAFrame}
<1>1. w \in Seq(Symbol) /\ i \in 1 .. Len(w)
  <2>1. PICK n : LineShape(x, w, n)  BY LineHas
  <2>2. QED  BY <2>1 DEF LineShape
<1>2. PICK v : v = [w EXCEPT ![i] = s]  OBVIOUS
<1>3. /\ v \in Seq(Symbol) /\ Len(v) = Len(w)
      /\ \A j \in 1 .. Len(w) : v[j] # w[j] => j = i \/ j = i + 1
  BY <1>1, <1>2, ExceptSeq
<1>4. Near(v, w, i)  BY <1>1, <1>3 DEF Near
<1>5. DecodeFrame(NormalizeResponse(v)) \in {f, NotAFrame}  BY <1>4, SameLengthIsSafe
<1>6. QED  BY <1>2, <1>5, Zenon

LEMMA SwappedSymbols ==
  ASSUME NEW f, NEW x, NEW w, OnTheLine(f, x, w), NEW i \in DOMAIN w, i < Len(w)
  PROVE  DecodeFrame(NormalizeResponse([w EXCEPT ![i] = w[i + 1], ![i + 1] = w[i]])) \in {f, NotAFrame}
<1>1. PICK n \in Nat : w \in Seq(Symbol) /\ Len(w) = n /\ i \in 1 .. n /\ i + 1 \in 1 .. n
                       /\ w[i] \in Symbol /\ w[i + 1] \in Symbol
  <2>1. w \in Seq(Symbol)
    <3>1. PICK l : LineShape(x, w, l)  BY LineHas
    <3>2. QED  BY <3>1 DEF LineShape
  <2>2. PICK n \in Nat : n = Len(w)  BY <2>1
  <2>3. i \in 1 .. n  BY <2>1, <2>2
  <2>4. i + 1 \in 1 .. n  BY <2>2, <2>3
  <2>5. w[i] \in Symbol /\ w[i + 1] \in Symbol  BY <2>1, <2>2, <2>3, <2>4, ElementOfSeq
  <2>6. QED  BY <2>1, <2>2, <2>3, <2>4, <2>5
<1>2. PICK u : u = [w EXCEPT ![i] = w[i + 1]]  OBVIOUS
<1>3. u \in Seq(Symbol) /\ Len(u) = n /\ \A j \in 1 .. n : u[j] # w[j] => j = i
  BY <1>1, <1>2, ExceptSeq
<1>4. PICK v : v = [u EXCEPT ![i + 1] = w[i]]  OBVIOUS
<1>5. v \in Seq(Symbol) /\ Len(v) = n /\ \A j \in 1 .. n : v[j] # u[j] => j = i + 1
  BY <1>1, <1>3, <1>4, ExceptSeq
<1>6. \A j \in 1 .. Len(w) : v[j] # w[j] => j = i \/ j = i + 1  BY <1>1, <1>3, <1>5
<1>7. v = [w EXCEPT ![i] = w[i + 1], ![i + 1] = w[i]]  BY <1>2, <1>4
<1>8. Near(v, w, i)  BY <1>1, <1>5, <1>6 DEF Near
<1>9. DecodeFrame(NormalizeResponse(v)) \in {f, NotAFrame}  BY <1>8, SameLengthIsSafe
<1>10. QED  BY <1>7, <1>9, Zenon

\* What has lost its end but for the CR is as good as the frame.
LEMMA RestoredIsSent ==
  ASSUME NEW f, NEW x, NEW w, OnTheLine(f, x, w), NEW n, LineShape(x, w, n),
         NEW v \in Seq(Symbol), Len(v) = n + 1, \A j \in 1 .. n + 1 : v[j] = w[j]
  PROVE  DecodeFrame(NormalizeResponse(v)) \in {f, NotAFrame}
<1>1. /\ n \in Nat /\ n >= 12 /\ Len(x) = n /\ Len(w) = n + 2
      /\ w[1] = START_MARKER /\ \A j \in 1 .. n : w[j + 1] = x[j] /\ x[j] \in Nibble
  BY DEF LineShape
<1>2. n + 1 \in Nat /\ n + 1 >= 1 /\ 1 \in 1 .. n + 1 /\ n + 1 \in 1 .. n + 1 /\ n \in 1 .. n
      /\ (n + 1) + 1 = n + 2 /\ 0 \in 0 .. n - 4 /\ \A j \in 1 .. n : j + 1 \in 1 .. n + 1
  BY <1>1
<1>3. v[1] = START_MARKER  BY <1>1, <1>2
<1>4. v[n + 1] # END_MARKER
  <2>1. v[n + 1] \in Nibble  BY <1>1, <1>2
  <2>2. QED  BY <2>1, NibblesAreSymbols
<1>5. PICK u \in Seq(Symbol) : /\ u = NormalizeResponse(v) /\ Len(u) = (n + 1) + 1
                               /\ \A j \in 1 .. n + 1 : u[j] = v[j]
  BY <1>2, <1>3, <1>4, NormalizedIs
<1>6. \A j \in 1 .. Len(x) : u[j + 1] = x[j]  BY <1>1, <1>2, <1>5
<1>7. 0 \in 0 .. Len(x) - 4 /\ Len(u) = Len(w)  BY <1>1, <1>2, <1>5
<1>8. DecodeFrame(u) \in {f, NotAFrame}  BY <1>6, <1>7, TakenIsSent
<1>9. QED  BY <1>5, <1>8

LEMMA LostSymbol ==
  ASSUME NEW f, NEW x, NEW w, OnTheLine(f, x, w), NEW i \in DOMAIN w
  PROVE  DecodeFrame(NormalizeResponse(SubSeq(w, 1, i - 1) \o SubSeq(w, i + 1, Len(w))))
           \in {f, NotAFrame}
<1>1. PICK n : LineShape(x, w, n)  BY LineHas
<1>2. /\ n \in Nat /\ n >= 12 /\ n % 2 = 0 /\ w \in Seq(Symbol) /\ Len(w) = n + 2
      /\ w[1] = START_MARKER /\ w[n + 2] = END_MARKER
      /\ \A j \in 1 .. n : w[j + 1] = x[j] /\ x[j] \in Nibble
      /\ i \in 1 .. n + 2
  BY <1>1 DEF LineShape
<1>3. PICK a, b : a = SubSeq(w, 1, i - 1) /\ b = SubSeq(w, i + 1, n + 2)  OBVIOUS
<1>4. a \in Seq(Symbol) /\ Len(a) = i - 1 /\ \A j \in 1 .. i - 1 : a[j] = w[j]
  <2>1. PICK h \in 0 .. Len(w) : h = i - 1  BY <1>2
  <2>2. 1 \in 1 .. Len(w) + 1 /\ 1 <= h + 1  BY <1>2, <2>1
  <2>3. /\ SubSeq(w, 1, h) \in Seq(Symbol) /\ Len(SubSeq(w, 1, h)) = h - 1 + 1
        /\ \A j \in 1 .. h - 1 + 1 : SubSeq(w, 1, h)[j] = w[1 + j - 1]
    BY <1>2, <2>2, Pieces
  <2>4. h - 1 + 1 = i - 1 /\ \A j \in 1 .. i - 1 : 1 + j - 1 = j  BY <1>2, <2>1
  <2>5. a = SubSeq(w, 1, h)  BY <1>3, <2>1
  <2>6. QED  BY <2>3, <2>4, <2>5
<1>5. b \in Seq(Symbol) /\ Len(b) = n + 2 - i /\ \A j \in 1 .. n + 2 - i : b[j] = w[i + j]
  <2>1. PICK l \in 1 .. Len(w) + 1, h \in 0 .. Len(w) : l = i + 1 /\ h = n + 2  BY <1>2
  <2>2. l <= h + 1  BY <1>2, <2>1
  <2>3. /\ SubSeq(w, l, h) \in Seq(Symbol) /\ Len(SubSeq(w, l, h)) = h - l + 1
        /\ \A j \in 1 .. h - l + 1 : SubSeq(w, l, h)[j] = w[l + j - 1]
    BY <1>2, <2>2, Pieces
  <2>4. h - l + 1 = n + 2 - i /\ \A j \in 1 .. n + 2 - i : l + j - 1 = i + j
    <3>1. n \in Nat /\ i \in 1 .. n + 2  BY <1>2
    <3>2. QED  BY <2>1, <3>1
  <2>5. b = SubSeq(w, l, h)  BY <1>3, <2>1
  <2>6. QED  BY <2>3, <2>4, <2>5
<1>6. PICK v : v = a \o b  OBVIOUS
<1>7. Joins(Symbol, v, a, b)  BY <1>4, <1>5, <1>6, Joined
<1>8. /\ v \in Seq(Symbol) /\ Len(v) = (i - 1) + (n + 2 - i)
      /\ \A j \in 1 .. i - 1 : v[j] = w[j]
      /\ \A j \in 1 .. n + 2 - i : v[(i - 1) + j] = w[i + j]
  <2>1. /\ v \in Seq(Symbol) /\ Len(v) = Len(a) + Len(b)
        /\ \A j \in 1 .. Len(a) : v[j] = a[j]
        /\ \A j \in 1 .. Len(b) : v[Len(a) + j] = b[j]
    BY <1>7 DEF Joins
  <2>2. QED  BY <1>4, <1>5, <2>1
<1>9. Len(v) = n + 1 /\ n + 1 \in Nat /\ n + 1 >= 1 /\ (n + 1) % 2 # 0
  <2>1. n \in Nat /\ n % 2 = 0 /\ i \in 1 .. n + 2  BY <1>2
  <2>2. (i - 1) + (n + 2 - i) = n + 1 /\ n + 1 \in Nat /\ n + 1 >= 1 /\ (n + 1) % 2 # 0
    BY <2>1
  <2>3. QED  BY <1>8, <2>2
<1>10. DecodeFrame(NormalizeResponse(v)) \in {f, NotAFrame}
  <2>1. CASE i = 1
    <3>1. 1 \in 1 .. n + 2 - i /\ (i - 1) + 1 = 1 /\ i + 1 = 1 + 1 /\ 1 \in 1 .. n
      BY <1>2, <2>1
    <3>2. v[1] = w[1 + 1]  BY <1>8, <3>1
    <3>3. w[1 + 1] \in Nibble  BY <1>2, <3>1
    <3>4. v[1] # START_MARKER  BY <3>2, <3>3, NibblesAreSymbols
    <3>5. QED  BY <1>8, <1>9, <3>4, NormalizedIs
  <2>2. CASE i = n + 2
    <3>1. \A j \in 1 .. n + 1 : v[j] = w[j]
      <4>1. \A j \in 1 .. n + 1 : j \in 1 .. i - 1  BY <1>2, <2>2
      <4>2. QED  BY <1>8, <4>1
    <3>2. QED  BY <1>1, <1>8, <1>9, <3>1, RestoredIsSent
  <2>3. CASE i # 1 /\ i # n + 2
    <3>1. 1 \in 1 .. i - 1 /\ n + 2 - i \in 1 .. n + 2 - i
          /\ (i - 1) + (n + 2 - i) = n + 1 /\ i + (n + 2 - i) = n + 2
      <4>1. n \in Nat /\ i \in 1 .. n + 2  BY <1>2
      <4>2. QED  BY <2>3, <4>1
    <3>2. v[1] = START_MARKER /\ v[n + 1] = END_MARKER  BY <1>2, <1>8, <3>1
    <3>3. NormalizeResponse(v) = v  BY <1>8, <1>9, <3>2, NormalizedIs
    <3>4. QED  BY <1>8, <1>9, <3>3, OddIsRefused
  <2>4. QED  BY <2>1, <2>2, <2>3
<1>11. SubSeq(w, 1, i - 1) \o SubSeq(w, i + 1, Len(w)) = v  BY <1>2, <1>3, <1>6
<1>12. QED  BY <1>10, <1>11

LEMMA CutEnd ==
  ASSUME NEW f, NEW x, NEW w, OnTheLine(f, x, w), NEW i \in DOMAIN w
  PROVE  DecodeFrame(NormalizeResponse(SubSeq(w, 1, i - 1))) \in {f, NotAFrame}
<1>1. PICK n : LineShape(x, w, n)  BY LineHas
<1>2. /\ n \in Nat /\ n >= 12 /\ n % 2 = 0 /\ w \in Seq(Symbol) /\ Len(w) = n + 2
      /\ w[1] = START_MARKER /\ w[n + 2] = END_MARKER /\ n - 8 = 2 * (x[4] + 2)
      /\ \A j \in 1 .. n : w[j + 1] = x[j] /\ x[j] \in Nibble
      /\ i \in 1 .. n + 2
  BY <1>1 DEF LineShape
<1>3. PICK k \in 0 .. Len(w) : k = i - 1 /\ k <= n + 1  BY <1>2
<1>4. PICK v : v = SubSeq(w, 1, k)  OBVIOUS
<1>5. v \in Seq(Symbol) /\ Len(v) = k /\ \A j \in 1 .. k : v[j] = w[j]
  <2>1. w \in Seq(Symbol) /\ 1 \in 1 .. Len(w) + 1 /\ k \in 0 .. Len(w) /\ 1 <= k + 1  BY <1>2
  <2>2. /\ SubSeq(w, 1, k) \in Seq(Symbol) /\ Len(SubSeq(w, 1, k)) = k - 1 + 1
        /\ \A j \in 1 .. k - 1 + 1 : SubSeq(w, 1, k)[j] = w[1 + j - 1]
    BY <2>1, Pieces
  <2>3. k - 1 + 1 = k /\ \A j \in 1 .. k : 1 + j - 1 = j  BY <1>2
  <2>4. QED  BY <1>4, <2>2, <2>3
<1>6. DecodeFrame(NormalizeResponse(v)) \in {f, NotAFrame}
  <2>1. CASE k = 0
    <3>1. v = <<>>  BY <1>5, <2>1, EmptySeq
    <3>2. NormalizeResponse(<<>>) = <<>>  BY Zenon DEF NormalizeResponse
    <3>3. DecodeFrame(<<>>) = NotAFrame  BY Zenon DEF DecodeFrame
    <3>4. QED  BY <3>1, <3>2, <3>3
  <2>2. CASE k = n + 1  BY <1>1, <1>5, <2>2, RestoredIsSent
  <2>3. CASE k # 0 /\ k # n + 1
    <3>1. k \in Nat /\ k >= 1 /\ 1 \in 1 .. k /\ k \in 1 .. k /\ k < n + 1
      <4>1. n \in Nat /\ k \in Nat /\ k <= n + 1  BY <1>2, <1>3
      <4>2. QED  BY <2>3, <4>1
    <3>2. v[1] = START_MARKER  BY <1>2, <1>5, <3>1
    <3>3. v[k] # END_MARKER
      <4>1. CASE k = 1  BY <3>2, <4>1, NibblesAreSymbols
      <4>2. CASE k # 1
        <5>1. k - 1 \in 1 .. n /\ (k - 1) + 1 = k  BY <1>2, <3>1, <4>2
        <5>2. v[k] \in Nibble  BY <1>2, <1>5, <3>1, <5>1
        <5>3. QED  BY <5>2, NibblesAreSymbols
      <4>3. QED  BY <4>1, <4>2
    <3>4. PICK u \in Seq(Symbol) : /\ u = NormalizeResponse(v) /\ Len(u) = k + 1
                                   /\ \A j \in 1 .. k : u[j] = v[j]
      BY <1>5, <3>1, <3>2, <3>3, NormalizedIs
    <3>5. ASSUME DecodeFrame(u) # NotAFrame PROVE FALSE
      <4>1. PICK y \in Symbols : Framed(u, y) /\ Len(y) >= 8 /\ Len(y) - 8 = 2 * (y[4] + 2)
        BY <3>5, AcceptedIs
      <4>2. Len(y) \in Nat /\ Len(u) = Len(y) + 2  BY <4>1 DEF Framed, Symbols
      <4>3. Len(y) = k - 1 /\ 4 \in 1 .. Len(y) /\ 4 + 1 \in 1 .. k /\ 4 \in 1 .. n
        BY <1>2, <3>1, <3>4, <4>1, <4>2
      <4>4. y[4] = x[4]
        <5>1. u[4 + 1] = y[4]  BY <4>1, <4>3 DEF Framed
        <5>2. u[4 + 1] = w[4 + 1]  BY <1>5, <3>4, <4>3
        <5>3. w[4 + 1] = x[4]  BY <1>2, <4>3
        <5>4. QED  BY <5>1, <5>2, <5>3
      <4>5. Len(y) - 8 = n - 8  BY <1>2, <4>1, <4>4
      <4>6. QED  BY <1>2, <3>1, <4>2, <4>3, <4>5
    <3>6. QED  BY <3>4, <3>5
  <2>4. QED  BY <2>1, <2>2, <2>3
<1>7. SubSeq(w, 1, i - 1) = v  BY <1>3, <1>4
<1>8. QED  BY <1>6, <1>7

\* What DamageFrame makes of a row of symbols.
Damages(w, v) ==
  \E i \in DOMAIN w :
     \/ \E s \in Symbol : v = [w EXCEPT ![i] = s]
     \/ v = SubSeq(w, 1, i - 1) \o SubSeq(w, i + 1, Len(w))
     \/ i < Len(w) /\ v = [w EXCEPT ![i] = w[i + 1], ![i + 1] = w[i]]
     \/ v = SubSeq(w, 1, i - 1)

\* No frame with a symbol changed, lost or moved, or with its end cut off, is
\* taken for another one, whatever its address, direction, hash and payload.
THEOREM DamagedFramesAreRefused ==
  ASSUME NEW f, IsFrame(f), NEW v, Damages(EncodeFrame(f), v)
  PROVE  DecodeFrame(NormalizeResponse(v)) \in {f, NotAFrame}
<1>1. PICK w : w = EncodeFrame(f)  OBVIOUS
<1>2. PICK x : OnTheLine(f, x, w)  BY <1>1, FrameShape DEF OnTheLine
<1>3. PICK i \in DOMAIN w :
        \/ \E s \in Symbol : v = [w EXCEPT ![i] = s]
        \/ v = SubSeq(w, 1, i - 1) \o SubSeq(w, i + 1, Len(w))
        \/ i < Len(w) /\ v = [w EXCEPT ![i] = w[i + 1], ![i + 1] = w[i]]
        \/ v = SubSeq(w, 1, i - 1)
  BY <1>1, Zenon DEF Damages
<1>4. CASE \E s \in Symbol : v = [w EXCEPT ![i] = s]
  <2>1. PICK s \in Symbol : v = [w EXCEPT ![i] = s]  BY <1>4
  <2>2. QED  BY <1>2, <2>1, ChangedSymbol, Zenon
<1>5. CASE v = SubSeq(w, 1, i - 1) \o SubSeq(w, i + 1, Len(w))
  BY <1>2, <1>5, LostSymbol, Zenon
<1>6. CASE i < Len(w) /\ v = [w EXCEPT ![i] = w[i + 1], ![i + 1] = w[i]]
  BY <1>2, <1>6, SwappedSymbols, Zenon
<1>7. CASE v = SubSeq(w, 1, i - 1)  BY <1>2, <1>7, CutEnd, Zenon
<1>8. QED  BY <1>3, <1>4, <1>5, <1>6, <1>7

\* The parameter names of the instance have hashes of four symbols, so that all
\* frames picked are frames.
LEMMA HashIsSymbols ==
  ASSUME NEW codes
  PROVE  HashName(codes) \in Symbols /\ Len(HashName(codes)) = 4
<1> DEFINE numbers == [i \in 1 .. 4 |-> IF i \in DOMAIN codes THEN codes[i] ELSE BLANK]
           bits == Bits(numbers, 7)
<1>1. Len(numbers) = 4  OBVIOUS
<1> HIDE DEF numbers
<1>2. Len(bits) = 28
  <2> DEFINE bit(k) == (numbers[((k - 1) \div 7) + 1] \div Power2[7 - ((k - 1) % 7)]) % 2
  <2>1. bits = [k \in 1 .. 7 * Len(numbers) |-> bit(k)]  BY Zenon DEF Bits
  <2>2. 7 * Len(numbers) = 28 /\ 28 \in Nat  BY <1>1
  <2> HIDE DEF bit, bits
  <2>3. bits = [k \in 1 .. 28 |-> bit(k)]  BY <2>1, <2>2
  <2>4. QED  BY <2>2, <2>3
<1> HIDE DEF bits
<1>3. PICK c : RegistersOf(c, bits, Len(bits)) /\ CrcOfBits(bits) = c[Len(bits)]
  <2>1. Len(bits) \in Nat  BY <1>2
  <2>2. QED  BY <2>1, CrcIsRegister, Zenon
<1>4. CrcOfBits(bits) \in Register
  <2>1. PICK n \in Nat : n = Len(bits) /\ n \in 0 .. n  BY <1>2
  <2>2. QED  BY <1>3, <2>1, HashesAre
<1>5. HashName(codes) = CrcSymbols(CrcOfBits(bits))
  BY Zenon DEF HashName, HashBits, bits, numbers
<1>6. QED  BY <1>4, <1>5, CrcInSymbols

LEMMA FramesAreFrames == IsFrame(NoFrame) /\ \A f \in Frames : IsFrame(f)
<1>1. ASSUME NEW address \in Int, 0 <= address, address <= 2047
      PROVE  address \in 0 .. MaxAddress
  BY <1>1 DEF MaxAddress
<1>2. ASSUME NEW address \in 0 .. MaxAddress, NEW request \in BOOLEAN,
             NEW hash, hash \in Symbols /\ Len(hash) = 4,
             NEW payload, payload \in Symbols /\ Len(payload) \in {0, 2, 4}
      PROVE  IsFrame(Frame(address, request, hash, payload))
  <2>1. Len(payload) <= 30 /\ Len(payload) % 2 = 0
    <3>1. 0 % 2 = 0 /\ 2 % 2 = 0 /\ 4 % 2 = 0  OBVIOUS
    <3>2. CASE Len(payload) = 0  BY <3>1, <3>2
    <3>3. CASE Len(payload) = 2  BY <3>1, <3>3
    <3>4. CASE Len(payload) = 4  BY <3>1, <3>4
    <3>5. QED  BY <1>2, <3>2, <3>3, <3>4
  <2>2. hash \in Symbols /\ Len(hash) = 4 /\ payload \in Symbols  BY <1>2
  <2> SUFFICES \E a \in 0 .. MaxAddress, q \in BOOLEAN, h \in Symbols, x \in Symbols :
                 /\ Len(h) = 4 /\ Len(x) <= 30 /\ Len(x) % 2 = 0
                 /\ Frame(address, request, hash, payload) = Frame(a, q, h, x)
    BY Zenon DEF IsFrame
  <2> USE <2>2
  <2> WITNESS address \in 0 .. MaxAddress, request \in BOOLEAN,
              hash \in Symbols, payload \in Symbols
  <2>3. QED  BY <2>1
<1>3. /\ <<>> \in Symbols /\ Len(<<>>) = 0
      /\ <<0, 1>> \in Symbols /\ Len(<<0, 1>>) = 2
      /\ <<4, 1, 4, 8>> \in Symbols /\ Len(<<4, 1, 4, 8>>) = 4
      /\ <<0, 0, 0, 0>> \in Symbols /\ Len(<<0, 0, 0, 0>>) = 4
  <2>1. 0 \in Nibble /\ 1 \in Nibble /\ 4 \in Nibble /\ 8 \in Nibble  BY DEF Nibble
  <2>2. QED  BY <2>1 DEF Symbols
<1>4. IsFrame(NoFrame)
  <2>1. 0 \in 0 .. MaxAddress
    <3>1. 0 \in Int /\ 0 <= 0 /\ 0 <= 2047  OBVIOUS
    <3>2. QED  BY <1>1, <3>1
  <2>2. PICK hash, payload : hash = <<0, 0, 0, 0>> /\ payload = <<>>  OBVIOUS
  <2>3. /\ hash \in Symbols /\ Len(hash) = 4
        /\ payload \in Symbols /\ Len(payload) \in {0, 2, 4}
    BY <1>3, <2>2
  <2>4. IsFrame(Frame(0, FALSE, hash, payload))
    <3>1. FALSE \in BOOLEAN  OBVIOUS
    <3>2. QED  BY <1>2, <2>1, <2>3, <3>1, Zenon
  <2>5. QED  BY <2>2, <2>4, Zenon DEF NoFrame
<1>5. ASSUME NEW f \in Frames PROVE IsFrame(f)
  <2> DEFINE devices  == {<<0, 8>>, <<16, 8>>, <<255, 8>>, <<2047, 11>>}
             payloads == {<<>>, <<0, 1>>, <<4, 1, 4, 8>>}
             address(a) == ExpandNetworkAddress(a[1], a[2])
  <2>1. \A a \in devices : address(a) \in 0 .. MaxAddress
    <3>1. \A a \in devices : address(a) \in Int /\ 0 <= address(a) /\ address(a) <= 2047
      BY DEF ExpandNetworkAddress
    <3> HIDE DEF devices, address
    <3>2. QED  BY <1>1, <3>1
  <2>2. \A hash \in Hashes : hash \in Symbols /\ Len(hash) = 4  BY HashIsSymbols DEF Hashes
  <2>3. \A payload \in payloads : payload \in Symbols /\ Len(payload) \in {0, 2, 4}  BY <1>3
  <2>4. Frames = {Frame(address(a), request, hash, payload) :
                    a \in devices, request \in BOOLEAN, hash \in Hashes, payload \in payloads}
    BY DEF Frames
  <2> HIDE DEF devices, payloads, address
  <2>5. PICK a \in devices, request \in BOOLEAN, hash \in Hashes, payload \in payloads :
          f = Frame(address(a), request, hash, payload)
    BY <2>4
  <2>6. IsFrame(Frame(address(a), request, hash, payload))
    BY <1>2, <2>1, <2>2, <2>3
  <2>7. QED  BY <2>5, <2>6
<1>6. QED  BY <1>4, <1>5

\* What arrives is what was sent, or that damaged once.
OnceDamaged == IsFrame(sent) /\ (Intact \/ Damages(EncodeFrame(sent), wire))

\* A frame that arrives intact is read as it was sent, and a damaged one as that
\* or not at all, whatever frames a device sends.
THEOREM DamageHolds == FormatSpec => []DamageIsNoticed
<1>1. FormatInit => OnceDamaged  BY FramesAreFrames DEF FormatInit, OnceDamaged, Intact
<1>2. OnceDamaged /\ [FormatNext]_formatVars => OnceDamaged'
  <2> SUFFICES ASSUME OnceDamaged, [FormatNext]_formatVars PROVE OnceDamaged'
    OBVIOUS
  <2>1. CASE PickFrame  BY <2>1, FramesAreFrames DEF PickFrame, OnceDamaged, Intact
  <2>2. CASE DamageFrame
    <3>1. sent' = sent /\ wire = EncodeFrame(sent)  BY <2>2 DEF DamageFrame, Intact
    <3>2. Damages(wire, wire')  BY <2>2, Zenon DEF DamageFrame, Damages
    <3>3. Damages(EncodeFrame(sent'), wire')  BY <3>1, <3>2, Zenon
    <3>4. QED  BY <3>1, <3>3 DEF OnceDamaged
  <2>3. CASE PickValue  BY <2>3 DEF PickValue, OnceDamaged, Intact
  <2>4. CASE UNCHANGED formatVars  BY <2>4 DEF formatVars, OnceDamaged, Intact
  <2>5. QED  BY <2>1, <2>2, <2>3, <2>4 DEF FormatNext
<1>3. OnceDamaged => DamageIsNoticed
  <2> SUFFICES ASSUME OnceDamaged
               PROVE  LET got == DecodeFrame(NormalizeResponse(wire)) IN
                        (Intact => got = sent) /\ got \in {sent, NotAFrame}
    BY Zenon DEF DamageIsNoticed
  <2>1. CASE Intact
    <3>1. PICK x : OnTheLine(sent, x, wire)
      BY <2>1, FrameShape DEF OnceDamaged, OnTheLine, Intact
    <3>2. PICK n : LineShape(x, wire, n)  BY <3>1, LineHas
    <3>3. PICK m \in Nat : m = n + 2 /\ m >= 1  BY <3>2 DEF LineShape
    <3>4. NormalizeResponse(wire) = wire  BY <3>2, <3>3, NormalizedIs DEF LineShape
    <3>5. DecodeFrame(wire) = sent  BY <2>1, FramesReadBack DEF OnceDamaged, Intact
    <3>6. QED  BY <3>4, <3>5
  <2>2. CASE ~Intact
    <3>1. IsFrame(sent) /\ Damages(EncodeFrame(sent), wire)  BY <2>2 DEF OnceDamaged
    <3>2. QED  BY <2>2, <3>1, DamagedFramesAreRefused
  <2>3. QED  BY <2>1, <2>2
<1>4. QED  BY <1>1, <1>2, <1>3, PTL DEF FormatSpec

-----------------------------------------------------------------------------
(* Numbers: what a written one reads back as *)

\* A decimal is its mantissa times its scale.
LEMMA Split ==
  ASSUME NEW u \in Nat
  PROVE  /\ Places(u) \in 1 .. 3
         /\ u \div Power10(3 - Places(u)) \in Nat
         /\ (u \div Power10(3 - Places(u))) * Power10(3 - Places(u)) = u
<1>1. CASE u % 100 = 0
  <2>1. Places(u) = 1 /\ Power10(3 - 1) = 100  BY <1>1 DEF Places, Power10
  <2>2. u \div 100 \in Nat /\ (u \div 100) * 100 = u  BY <1>1
  <2>3. QED  BY <2>1, <2>2
<1>2. CASE u % 100 # 0 /\ u % 10 = 0
  <2>1. Places(u) = 2 /\ Power10(3 - 2) = 10  BY <1>2 DEF Places, Power10
  <2>2. u \div 10 \in Nat /\ (u \div 10) * 10 = u  BY <1>2
  <2>3. QED  BY <2>1, <2>2
<1>3. CASE u % 100 # 0 /\ u % 10 # 0
  <2>1. Places(u) = 3 /\ Power10(3 - 3) = 1  BY <1>3 DEF Places, Power10
  <2>2. u \div 1 = u  OBVIOUS
  <2>3. QED  BY <2>1, <2>2
<1>4. QED  BY <1>1, <1>2, <1>3

\* Two and three bytes keep sign, exponent and mantissa apart.
LEMMA PackUnpack ==
  ASSUME NEW s \in 0 .. 1, NEW e \in 0 .. 7, NEW m \in 16 .. MaxMantissa
  PROVE  /\ Len(PackStoredDot(s, e, m)) \in 2 .. 3
         /\ UnpackStoredDot(PackStoredDot(s, e, m)) = [sign |-> s, exponent |-> e, mantissa |-> m]
<1>1. CASE m < 4096
  <2>1. PackStoredDot(s, e, m) = <<s * 128 + e * 16 + m \div 256, m % 256>>
    BY <1>1 DEF PackStoredDot
  <2>2. m \div 256 \in 0 .. 15 /\ ((m \div 256) * 256) + (m % 256) = m  BY <1>1
  <2> DEFINE head == s * 128 + e * 16 + m \div 256
  <2>3. head \div 128 = s /\ (head \div 16) % 8 = e /\ head % 16 = m \div 256  BY <2>2
  <2> HIDE DEF head
  <2>4. QED  BY <2>1, <2>2, <2>3 DEF UnpackStoredDot, head
<1>2. CASE m >= 4096
  <2>1. PackStoredDot(s, e, m) = <<s * 128 + e * 16, m \div 256, m % 256>>
    BY <1>2 DEF PackStoredDot
  <2>2. ((m \div 256) * 256) + (m % 256) = m  OBVIOUS
  <2> DEFINE head == s * 128 + e * 16
  <2>3. head \div 128 = s /\ (head \div 16) % 8 = e  OBVIOUS
  <2> HIDE DEF head
  <2>4. QED  BY <2>1, <2>2, <2>3 DEF UnpackStoredDot, head
<1>3. m < 4096 \/ m >= 4096
  <2>1. m \in Int  OBVIOUS
  <2>2. QED  BY <2>1
<1>4. QED  BY <1>1, <1>2, <1>3

\* One byte is read as a whole number, whatever its sign and exponent.
LEMMA PlainByte ==
  ASSUME NEW s \in 0 .. 1, NEW e \in 1 .. 3, NEW m \in 0 .. 15
  PROVE  /\ Len(PackStoredDot(s, e, m)) = 1
         /\ DecodeStoredDot(PackStoredDot(s, e, m)) = (s * 128 + e * 16 + m) * 1000
<1> DEFINE byte == s * 128 + e * 16 + m
<1>1. PackStoredDot(s, e, m) = <<byte>> /\ byte \in 0 .. 255  BY DEF PackStoredDot
<1> HIDE DEF byte
<1>2. UnpackStoredDot(<<byte>>) = [sign |-> 0, exponent |-> 0, mantissa |-> byte]
  BY <1>1 DEF UnpackStoredDot
<1>3. [sign |-> 0, exponent |-> 0, mantissa |-> byte] # Refused
  <2>1. MaxMantissa \in Nat /\ 255 <= MaxMantissa /\ 0 \in 0 .. MaxExponent
    BY DEF MaxMantissa, MaxExponent
  <2>2. byte \in 0 .. MaxMantissa  BY <1>1, <2>1
  <2>3. QED  BY <2>1, <2>2, RefusedAssumption
<1>4. DecodeStoredDot(<<byte>>) = byte * 1000
  BY <1>1, <1>2, <1>3 DEF DecodeStoredDot, Power10
<1>5. QED  BY <1>1, <1>4 DEF byte

\* Of all numbers of up to three decimal places that the code can encode as
\* stored_dot, those of two and three bytes read back as themselves from a device that repeats its payload, and
\* those of one byte never do (_encode_stored_dot, decode_payload).
THEOREM StoredDotReadsBack ==
  ASSUME NEW units \in Int, EncodeStoredDot(units) # Refused
  PROVE  DecodeStoredDot(EncodeStoredDot(units)) = units <=> Len(EncodeStoredDot(units)) # 1
<1> DEFINE u == Magnitude10(units)
           places == Places(u)
           scale == Power10(3 - places)
           m == u \div scale
           s == IF units < 0 THEN 1 ELSE 0
<1>1. /\ u \in Nat /\ s \in 0 .. 1
      /\ units = (IF s = 1 THEN -1 ELSE 1) * u
  BY DEF Magnitude10
<1>2. places \in 1 .. 3 /\ m \in Nat /\ m * scale = u
  BY <1>1, Split
<1>3. scale \in {1, 10, 100}
  BY <1>2 DEF Power10
<1>4. m \in 0 .. MaxMantissa /\ EncodeStoredDot(units) = PackStoredDot(s, places, m)
  <2>1. EncodeStoredDot(units) = IF places > MaxExponent \/ m > MaxMantissa THEN Refused
                                 ELSE PackStoredDot(s, places, m)
    BY Zenon DEF EncodeStoredDot
  <2> HIDE DEF u, m, places, s
  <2>2. ~(places > MaxExponent \/ m > MaxMantissa)  BY <2>1
  <2>3. m <= MaxMantissa  BY <1>2, <2>2 DEF MaxMantissa
  <2>4. EncodeStoredDot(units) = PackStoredDot(s, places, m)  BY <2>1, <2>2
  <2>5. MaxMantissa \in Nat  BY DEF MaxMantissa
  <2>6. m \in 0 .. MaxMantissa  BY <1>2, <2>3, <2>5
  <2>7. QED  BY <2>4, <2>6
<1> HIDE DEF u, places, m, s, scale
<1>5. CASE m < 16
  <2>1. m \in 0 .. 15  BY <1>2, <1>5
  <2>2. /\ Len(PackStoredDot(s, places, m)) = 1
        /\ DecodeStoredDot(PackStoredDot(s, places, m)) = (s * 128 + places * 16 + m) * 1000
    BY <1>1, <1>2, <2>1, PlainByte
  <2>3. units <= 1500  BY <1>1, <1>2, <1>3, <2>1
  <2>4. (s * 128 + places * 16 + m) * 1000 >= 16000  BY <1>1, <1>2, <2>1
  <2>5. QED  BY <1>1, <1>2, <1>4, <2>1, <2>2, <2>3, <2>4
<1>6. CASE m >= 16
  <2>1. m \in 16 .. MaxMantissa
    <3>1. MaxMantissa \in Nat  BY DEF MaxMantissa
    <3>2. QED  BY <1>4, <1>6, <3>1
  <2> DEFINE d == [sign |-> s, exponent |-> places, mantissa |-> m]
  <2>2. Len(PackStoredDot(s, places, m)) # 1 /\ UnpackStoredDot(PackStoredDot(s, places, m)) = d
    BY <1>1, <1>2, <2>1, PackUnpack
  <2>3. d # Refused  BY <1>1, <1>2, <1>4, RefusedAssumption DEF MaxExponent
  <2>4. DecodeStoredDot(PackStoredDot(s, places, m)) = (IF s = 1 THEN -1 ELSE 1) * m * scale
    BY <2>2, <2>3 DEF DecodeStoredDot, scale
  <2>5. (IF s = 1 THEN -1 ELSE 1) * m * scale = units  BY <1>1, <1>2, <1>3
  <2>6. QED  BY <1>4, <2>2, <2>4, <2>5
<1>7. QED  BY <1>2, <1>5, <1>6

\* Two's complement in a register, and in two bytes with two more behind them.
LEMMA WordsReadBack ==
  ASSUME NEW format \in {"int16", "uint16"}, NEW number \in Int, number \in Range16(format)
  PROVE  /\ Low16(number) \in Nat
         /\ DecodeRegister(Low16(number), format) = number
<1>1. CASE format = "int16"
  <2>1. MaxInt16 \in Int  BY DEF MaxInt16
  <2>2. number >= -32768 /\ number <= 32767
    <3>1. Range16(format) = -(MaxInt16 + 1) .. MaxInt16  BY <1>1 DEF Range16
    <3>2. number \in -(MaxInt16 + 1) .. MaxInt16  BY <3>1
    <3>3. number >= -(MaxInt16 + 1) /\ number <= MaxInt16  BY <2>1, <3>2
    <3>4. QED  BY <3>3 DEF MaxInt16
  <2>3. CASE number >= 0
    <3>1. number % 65536 = number  BY <2>2, <2>3
    <3>2. QED  BY <1>1, <2>2, <2>3, <3>1 DEF Low16, Signed16, DecodeRegister
  <2>4. CASE number < 0
    <3>1. number % 65536 = number + 65536  BY <2>2, <2>4
    <3>2. QED  BY <1>1, <2>2, <2>4, <3>1 DEF Low16, Signed16, DecodeRegister
  <2>5. QED  BY <2>2, <2>3, <2>4
<1>2. CASE format = "uint16"
  <2>1. number >= 0 /\ number <= 65535
    <3>1. MaxUint16 \in Int  BY DEF MaxUint16
    <3>2. Range16(format) = 0 .. MaxUint16  BY <1>2 DEF Range16
    <3>3. number \in 0 .. MaxUint16  BY <3>2
    <3>4. number >= 0 /\ number <= MaxUint16  BY <3>1, <3>3
    <3>5. QED  BY <3>4 DEF MaxUint16
  <2>2. number % 65536 = number  BY <2>1
  <2>3. QED  BY <1>2, <2>1, <2>2 DEF Low16, DecodeRegister
<1>3. QED  BY <1>1, <1>2

LEMMA FirstTwo ==
  ASSUME NEW high \in Int, NEW low \in Int, NEW suffix \in Seq(Int), Len(suffix) \in {0, 2}
  PROVE  LET payload == <<high, low>> \o suffix IN
         Len(payload) \in {2, 4} /\ payload[1] = high /\ payload[2] = low
<1> DEFINE pair == <<high, low>>
<1>1. pair \in Seq(Int) /\ Len(pair) = 2 /\ pair[1] = high /\ pair[2] = low  OBVIOUS
<1> HIDE DEF pair
<1>2. /\ Len(pair \o suffix) = Len(pair) + Len(suffix)
      /\ \A i \in 1 .. Len(pair) : (pair \o suffix)[i] = pair[i]
  <2>1. Len(suffix) \in Nat  OBVIOUS
  <2>2. \A i \in 1 .. 2 : i \in 1 .. 2 + Len(suffix) /\ i <= 2  BY <2>1
  <2>3. QED  BY <1>1, <2>2, ConcatProperties
<1>3. /\ Len(pair \o suffix) \in {2, 4}
      /\ (pair \o suffix)[1] = high /\ (pair \o suffix)[2] = low
  BY <1>1, <1>2
<1>4. QED  BY <1>3 DEF pair

\* Every integer the code can encode reads back as itself from the payload,
\* with or without service bytes, and from the Modbus register (encode_payload,
\* decode_payload, encode_registers, decode_registers).
THEOREM IntegersReadBack ==
  ASSUME NEW format \in {"int16", "uint16"}, NEW number \in Int,
         EncodeInteger(number, format) # Refused,
         NEW suffix \in Seq(Int), Len(suffix) \in {0, 2}
  PROVE  /\ DecodeInteger(EncodeInteger(number, format) \o suffix, format) = number
         /\ DecodeRegister(EncodeRegister(number, format), format) = number
<1>1. number \in Range16(format)  BY DEF EncodeInteger
<1>2. PICK word \in Nat : word = Low16(number) /\ DecodeRegister(word, format) = number
  BY <1>1, WordsReadBack
<1>3. PICK high \in Int, low \in Int :
        high = word \div 256 /\ low = word % 256 /\ high * 256 + low = word
  <2>1. /\ word \div 256 \in Int /\ (word % 256) \in Int
        /\ (word \div 256) * 256 + (word % 256) = word
    OBVIOUS
  <2>2. QED  BY <2>1
<1>4. EncodeInteger(number, format) = <<high, low>>
  BY <1>1, <1>2, <1>3 DEF EncodeInteger
<1>5. EncodeRegister(number, format) = word  BY <1>1, <1>2 DEF EncodeRegister
<1> DEFINE payload == <<high, low>> \o suffix
<1>6. Len(payload) \in {2, 4} /\ payload[1] = high /\ payload[2] = low  BY FirstTwo
<1>7. EncodeInteger(number, format) \o suffix = payload  BY <1>4
<1> HIDE DEF payload
<1>8. DecodeInteger(payload, format) = DecodeRegister(word, format)
  BY <1>3, <1>6 DEF DecodeInteger, DecodeRegister
<1>9. QED  BY <1>2, <1>5, <1>7, <1>8

\* What a client writes is one of the formats of the code, and an answer is
\* the payload or has two bytes more.
IsWrite(w) == /\ w.format \in {"stored_dot", "int16", "uint16"} /\ w.value \in Int
              /\ w.suffix \in Seq(Int) /\ Len(w.suffix) \in {0, 2}

LEMMA ValuesAreWrites == IsWrite(NoValue) /\ \A w \in Values : IsWrite(w)
<1>1. /\ <<>> \in Seq(Int) /\ Len(<<>>) = 0
      /\ <<0, 3>> \in Seq(Int) /\ Len(<<0, 3>>) = 2
  OBVIOUS
<1>2. IsWrite(NoValue)  BY <1>1 DEF IsWrite, NoValue
<1>3. ASSUME NEW w \in Values PROVE IsWrite(w)
  <2> DEFINE tenths     == {100 * n : n \in -40 .. 40}
             hundredths == {10 * n : n \in -60 .. 60}
             edges      == {409500, 409600, 6553500, 6553600, 409, 4095, 4096, 65535, 65536}
             integers   == (-2 .. 2) \cup {127, 128, 255, 256, 32767, 32768, 65535, 65536, -32768, -32769}
  <2>1. tenths \subseteq Int  OBVIOUS
  <2>2. hundredths \subseteq Int  OBVIOUS
  <2>3. edges \subseteq Int  OBVIOUS
  <2>4. integers \subseteq Int  OBVIOUS
  <2>5. -70 .. 70 \subseteq Int  OBVIOUS
  <2>6. Values = [format : {"stored_dot"}, suffix : {<<>>},
                  value : tenths \cup hundredths \cup (-70 .. 70) \cup edges]
                 \cup [format : {"int16", "uint16"}, suffix : {<<>>, <<0, 3>>}, value : integers]
    BY SMT DEF Values, tenths, hundredths, edges, integers
  <2> HIDE DEF tenths, hundredths, edges, integers
  <2>7. w.value \in Int  BY <2>1, <2>2, <2>3, <2>4, <2>5, <2>6
  <2>8. w.format \in {"stored_dot", "int16", "uint16"} /\ w.suffix \in {<<>>, <<0, 3>>}
    BY <2>6
  <2>9. QED  BY <1>1, <2>7, <2>8 DEF IsWrite
<1>4. QED  BY <1>2, <1>3

\* Every write of the formats above whose payload is longer than one byte reads
\* back as itself and shows the same in the register: no frame, damage or value
\* picked changes what was written.
THEOREM LongWritesHold == FormatSpec => []LongWritesReadBack
<1>1. FormatInit => IsWrite(written)  BY ValuesAreWrites DEF FormatInit
<1>2. IsWrite(written) /\ [FormatNext]_formatVars => IsWrite(written)'
  BY ValuesAreWrites DEF FormatNext, PickFrame, DamageFrame, PickValue, formatVars, IsWrite
<1>3. IsWrite(written) => LongWritesReadBack
  <2> SUFFICES ASSUME IsWrite(written), Payload # Refused, ~InOneByte
               PROVE  /\ ReadBack(Payload) = written.value
                      /\ written.format # "stored_dot" =>
                           DecodeRegister(EncodeRegister(ReadBack(Payload), written.format),
                                          written.format) = written.value
    BY DEF LongWritesReadBack
  <2>1. CASE written.format = "stored_dot"
    <3>1. Payload = EncodeStoredDot(written.value) /\ Len(Payload) # 1
      BY <2>1 DEF Payload, InOneByte
    <3>2. DecodeStoredDot(Payload) = written.value
      BY <3>1, StoredDotReadsBack DEF IsWrite
    <3>3. QED  BY <2>1, <3>2 DEF ReadBack
  <2>2. CASE written.format \in {"int16", "uint16"}
    <3>1. Payload = EncodeInteger(written.value, written.format)  BY <2>2 DEF Payload
    <3>2. ReadBack(Payload) = DecodeInteger(Payload \o written.suffix, written.format)
      BY <2>2 DEF ReadBack
    <3>3. QED  BY <2>2, <3>1, <3>2, IntegersReadBack DEF IsWrite
  <2>3. QED  BY <2>1, <2>2 DEF IsWrite
<1>4. QED  BY <1>1, <1>2, <1>3, PTL DEF FormatSpec
=============================================================================
