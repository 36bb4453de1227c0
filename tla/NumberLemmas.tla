----------------------------- MODULE NumberLemmas -----------------------------
(***************************************************************************)
(* Least and greatest elements of sets of naturals, what the CHOOSEs of    *)
(* the models that pick one of them need to be defined; remainders; and    *)
(* sums over a finite set, as the models fold them.                        *)
(***************************************************************************)
EXTENDS Integers, FiniteSets, TLAPS, FiniteSetTheorems, WellFoundedInduction

LEMMA LeastExists ==
  ASSUME NEW S, S \subseteq Nat, S # {}
  PROVE  \E x \in S : \A y \in S : x <= y
<1> DEFINE R == {ss \in Nat \X Nat : ss[1] < ss[2]}
<1>1. IsWellFoundedOn(R, Nat)  BY NatLessThanWellFounded DEF OpToRel
<1>2. \A x, y \in Nat : <<y, x>> \in R <=> y < x  OBVIOUS
<1> HIDE DEF R
<1>3. PICK x \in S : \A y \in S : ~ (<<y, x>> \in R)  BY <1>1, WFMin
<1>4. ASSUME NEW y \in S PROVE x <= y
  <2>1. x \in Nat /\ y \in Nat /\ ~ (y < x)  BY <1>2, <1>3
  <2>2. QED  BY <2>1
<1>5. QED  BY <1>4

\* Of the sets without one, one with the fewest elements has a greatest element.
LEMMA GreatestExists ==
  ASSUME NEW S, S \subseteq Nat, S # {}, IsFiniteSet(S)
  PROVE  \E x \in S : \A y \in S : y <= x
<1> DEFINE Without == {T \in SUBSET S : T # {} /\ ~ \E x \in T : \A y \in T : y <= x}
<1> SUFFICES ASSUME S \in Without PROVE FALSE  OBVIOUS
<1>1. \A T \in SUBSET S : IsFiniteSet(T) /\ Cardinality(T) \in Nat
  BY FS_Subset, FS_CardinalityType
<1>2. {Cardinality(T) : T \in Without} \subseteq Nat  BY <1>1
<1>3. PICK T \in Without : \A U \in Without : Cardinality(T) <= Cardinality(U)
  <2> DEFINE sizes == {Cardinality(U) : U \in Without}
  <2>1. sizes \subseteq Nat /\ sizes # {}  BY <1>2
  <2>2. PICK n \in sizes : \A m \in sizes : n <= m  BY <2>1, LeastExists
  <2>3. QED  BY <2>2
<1>4. PICK t \in T : TRUE  BY <1>3
<1> DEFINE U == T \ {t}
<1>5. U \in SUBSET S /\ Cardinality(U) = Cardinality(T) - 1
  BY <1>1, <1>4, FS_RemoveElement
<1>6. U \notin Without
  <2>1. Cardinality(T) \in Nat  BY <1>1
  <2>2. ~ (Cardinality(T) <= Cardinality(U))  BY <1>5, <2>1
  <2>3. QED  BY <1>3, <2>2
<1>7. CASE U = {}
  <2>1. \A y \in T : y = t /\ t \in Nat  BY <1>4, <1>7
  <2>2. QED  BY <1>3, <1>4, <2>1
<1>8. CASE U # {}
  <2>1. PICK x \in U : \A y \in U : y <= x  BY <1>5, <1>6, <1>8
  <2>2. t \in Nat /\ x \in Nat /\ x \in T /\ \A y \in T : y \in Nat  BY <1>4, <2>1
  <2>3. \A y \in T : y = t \/ y <= x  BY <2>1
  <2>4. CASE t <= x  BY <1>3, <2>2, <2>3, <2>4
  <2>5. CASE ~ (t <= x)
    <3>1. \A y \in T : y <= t  BY <2>2, <2>3, <2>5
    <3>2. QED  BY <1>3, <1>4, <3>1
  <2>6. QED  BY <2>4, <2>5
<1>9. QED  BY <1>7, <1>8

LEMMA GreatestUpTo ==
  ASSUME NEW n \in Nat, NEW S \in SUBSET (1 .. n), S # {}
  PROVE  \E x \in S : \A y \in S : y <= x
<1>1. IsFiniteSet(1 .. n)  BY 1 \in Int, n \in Int, FS_Interval
<1>2. IsFiniteSet(S)  BY <1>1, FS_Subset
<1>3. S \subseteq Nat  OBVIOUS
<1>4. QED  BY <1>2, <1>3, GreatestExists

LEMMA ImageIsFinite ==
  ASSUME NEW S, IsFiniteSet(S), NEW f, DOMAIN f = S
  PROVE  IsFiniteSet({f[x] : x \in S})
<1> DEFINE T == {f[x] : x \in S}
           g == [x \in S |-> f[x]]
<1>1. g \in Surjection(S, T)  BY DEF Surjection
<1> HIDE DEF g, T
<1>2. IsFiniteSet(T)  BY <1>1, FS_Surjection
<1>3. QED  BY <1>2 DEF T

-----------------------------------------------------------------------------
(* Remainders: a counter and a sum that wrap at the same modulus           *)

\* A number is its quotient times the modulus and its remainder, and there is
\* one such remainder.
LEMMA Quotient ==
  ASSUME NEW M \in Nat \ {0}, NEW a \in Int
  PROVE  a % M \in 0 .. M - 1 /\ \E q \in Int : a = q * M + (a % M)
<1>1. a % M \in Int /\ a % M >= 0 /\ a % M < M  OBVIOUS
<1>2. a \div M \in Int /\ a = M * (a \div M) + (a % M)  OBVIOUS
<1>3. M * (a \div M) = (a \div M) * M  BY <1>2
<1>4. a % M \in 0 .. M - 1  BY <1>1
<1>5. a = (a \div M) * M + (a % M)  BY <1>1, <1>2, <1>3
<1>6. \E q \in Int : a = q * M + (a % M)  BY <1>2, <1>5
<1>7. QED  BY <1>4, <1>6

LEMMA RemainderIs ==
  ASSUME NEW M \in Nat \ {0}, NEW a \in Int, NEW q \in Int, NEW r \in 0 .. M - 1, a = q * M + r
  PROVE  a % M = r
<1>1. PICK p \in Int : a = p * M + (a % M)  BY Quotient
<1>2. PICK s \in 0 .. M - 1 : s = a % M  BY Quotient
<1>3. (p - q) * M = r - s  BY <1>1, <1>2
<1>4. r - s < M /\ r - s > -M  BY <1>2
<1>5. PICK n \in Int : n = p - q  OBVIOUS
<1>6. CASE n >= 1
  <2>1. n * M >= M  BY <1>6
  <2>2. QED  BY <1>3, <1>4, <1>5, <2>1
<1>7. CASE n <= -1
  <2>1. n * M <= -M  BY <1>7
  <2>2. QED  BY <1>3, <1>4, <1>5, <2>1
<1>8. CASE n = 0  BY <1>2, <1>3, <1>5, <1>8
<1>9. QED  BY <1>5, <1>6, <1>7, <1>8

\* A term that wraps as it is counted up moves the sum like one step of a
\* counter that wraps by itself.
LEMMA WrapsTogether ==
  ASSUME NEW M \in Nat \ {0}, NEW x \in 0 .. M - 1, NEW a \in Int, NEW b \in Int,
         b = a + ((x + 1) % M) - x
  PROVE  b % M = ((a % M) + 1) % M
<1>1. PICK q \in Int : a = q * M + (a % M)  BY Quotient
<1>2. PICK r \in 0 .. M - 1 : r = a % M  BY Quotient
<1>3. (x + 1) % M = IF x + 1 = M THEN 0 ELSE x + 1
  <2>1. CASE x + 1 = M
    <3>1. x + 1 = 1 * M + 0 /\ 0 \in 0 .. M - 1  BY <2>1
    <3>2. QED  BY <2>1, <3>1, RemainderIs
  <2>2. CASE x + 1 # M
    <3>1. x + 1 = 0 * M + (x + 1) /\ x + 1 \in 0 .. M - 1  BY <2>2
    <3>2. QED  BY <2>2, <3>1, RemainderIs
  <2>3. QED  BY <2>1, <2>2
<1>4. PICK p \in Int : b = p * M + (r + 1)
  <2>1. b = q * M + r + 1 \/ b = q * M + r + 1 - M  BY <1>1, <1>2, <1>3
  <2>2. q * M + r + 1 - M = (q - 1) * M + (r + 1)  OBVIOUS
  <2>3. q * M + r + 1 = (q - 0) * M + (r + 1)  OBVIOUS
  <2>4. q - 1 \in Int /\ q - 0 \in Int  OBVIOUS
  <2>5. QED  BY <2>1, <2>2, <2>3, <2>4
<1>5. CASE r + 1 = M
  <2>1. b = (p + 1) * M + 0 /\ 0 \in 0 .. M - 1
    <3>1. (p + 1) * M = p * M + M  OBVIOUS
    <3>2. QED  BY <1>4, <1>5, <3>1
  <2>2. r + 1 = 1 * M + 0  BY <1>5
  <2>3. b % M = 0
    <3>1. p + 1 \in Int  OBVIOUS
    <3>2. QED  BY <2>1, <3>1, RemainderIs
  <2>4. (r + 1) % M = 0
    <3>1. r + 1 \in Int /\ 0 \in 0 .. M - 1  OBVIOUS
    <3>2. QED  BY <2>2, <3>1, RemainderIs
  <2>5. QED  BY <1>2, <2>3, <2>4
<1>6. CASE r + 1 # M
  <2>1. r + 1 \in 0 .. M - 1 /\ r + 1 = 0 * M + (r + 1)  BY <1>6
  <2>2. b % M = r + 1  BY <1>4, <2>1, RemainderIs
  <2>3. (r + 1) % M = r + 1
    <3>1. r + 1 \in Int  OBVIOUS
    <3>2. QED  BY <2>1, <3>1, RemainderIs
  <2>4. QED  BY <1>2, <2>2, <2>3
<1>7. QED  BY <1>5, <1>6

-----------------------------------------------------------------------------
(* Sums over a finite set                                                  *)

Pick(s) == CHOOSE x \in s : TRUE

\* The sums over the subsets of S of what table t has under key k, in the form
\* of MapThenSumSet of the community modules: one element at a time.
Recurs(g, t, k, S) ==
  g = [s \in SUBSET S |-> IF s = {} THEN 0 ELSE t[Pick(s)][k] + g[s \ {Pick(s)}]]

Partials(t, k, S) == CHOOSE g : Recurs(g, t, k, S)

LEMMA PickOne ==
  ASSUME NEW S, IsFiniteSet(S), NEW s \in SUBSET S, s # {}
  PROVE  /\ Pick(s) \in s /\ Pick(s) \in S /\ s \ {Pick(s)} \in SUBSET S
         /\ Cardinality(s) \in Nat /\ Cardinality(s \ {Pick(s)}) = Cardinality(s) - 1
<1>1. Pick(s) \in s  BY DEF Pick
<1>2. IsFiniteSet(s)  BY FS_Subset
<1>3. QED  BY <1>1, <1>2, FS_RemoveElement, FS_CardinalityType

\* There are such sums: for subsets of up to n elements for every n, as there is
\* no least n for which there are none.
LEMMA PartialsExist ==
  ASSUME NEW S, IsFiniteSet(S), NEW t, NEW k, \A x \in S : t[x][k] \in Int
  PROVE  /\ Recurs(Partials(t, k, S), t, k, S)
         /\ Partials(t, k, S) \in [SUBSET S -> Int]
<1> DEFINE Small(n) == {s \in SUBSET S : Cardinality(s) <= n}
           Filled(g) == [s \in SUBSET S |-> IF s = {} THEN 0 ELSE t[Pick(s)][k] + g[s \ {Pick(s)}]]
           Upto(n, g) == g \in [SUBSET S -> Int] /\ \A s \in Small(n) : g[s] = Filled(g)[s]
           Bad == {n \in Nat : ~ \E g : Upto(n, g)}
<1>1. \A s \in SUBSET S : IsFiniteSet(s) /\ Cardinality(s) \in Nat /\ (Cardinality(s) = 0 <=> s = {})
  BY FS_Subset, FS_CardinalityType, FS_EmptySet
<1>2. ASSUME NEW g \in [SUBSET S -> Int] PROVE Filled(g) \in [SUBSET S -> Int]
  <2>1. \A s \in SUBSET S : s # {} => t[Pick(s)][k] \in Int /\ g[s \ {Pick(s)}] \in Int  BY PickOne
  <2>2. QED  BY <2>1
<1>3. \E g : Upto(0, g)
  <2> DEFINE g == [s \in SUBSET S |-> 0]
  <2>1. \A s \in Small(0) : s \in SUBSET S /\ s = {}  BY <1>1
  <2>2. \A s \in Small(0) : g[s] = 0 /\ Filled(g)[s] = 0  BY <2>1
  <2>3. g \in [SUBSET S -> Int]  OBVIOUS
  <2>4. QED  BY <2>2, <2>3
<1>4. ASSUME NEW n \in Nat, NEW g, Upto(n, g) PROVE Upto(n + 1, Filled(g))
  <2> DEFINE h == Filled(g)
  <2>1. h \in [SUBSET S -> Int]  BY <1>2, <1>4
  <2>2. ASSUME NEW s \in Small(n + 1) PROVE h[s] = Filled(h)[s]
    <3>1. s \in SUBSET S  OBVIOUS
    <3>2. CASE s = {}
      <4>1. h[s] = 0 /\ Filled(h)[s] = 0  BY <3>1, <3>2
      <4>2. QED  BY <4>1
    <3>3. CASE s # {}
      <4> DEFINE r == s \ {Pick(s)}
      <4>1. r \in SUBSET S /\ Cardinality(s) \in Nat /\ Cardinality(r) = Cardinality(s) - 1
        BY <3>1, <3>3, PickOne
      <4>2. Cardinality(s) <= n + 1  OBVIOUS
      <4>3. r \in Small(n)  BY <4>1, <4>2
      <4>4. g[r] = h[r]  BY <1>4, <4>3
      <4> HIDE DEF r
      <4>5. h[s] = t[Pick(s)][k] + g[r]  BY <3>1, <3>3 DEF r
      <4> HIDE DEF h
      <4>6. Filled(h)[s] = t[Pick(s)][k] + h[r]  BY <3>1, <3>3 DEF r
      <4>7. QED  BY <4>4, <4>5, <4>6
    <3>4. QED  BY <3>2, <3>3
  <2>3. QED  BY <2>1, <2>2
<1> HIDE DEF Upto, Filled, Small
<1>5. Bad = {}
  <2> SUFFICES ASSUME Bad # {} PROVE FALSE  OBVIOUS
  <2>1. PICK n \in Bad : \A m \in Bad : n <= m
    <3>1. Bad \subseteq Nat  OBVIOUS
    <3>2. QED  BY <3>1, LeastExists
  <2>2. n \in Nat /\ n # 0  BY <1>3
  <2>3. n - 1 \in Nat /\ n - 1 \notin Bad  BY <2>1, <2>2
  <2>4. PICK g : Upto(n - 1, g)  BY <2>3
  <2>5. Upto((n - 1) + 1, Filled(g))  BY <1>4, <2>3, <2>4
  <2>6. (n - 1) + 1 = n  BY <2>2
  <2>7. QED  BY <2>5, <2>6
<1>6. PICK g : g \in [SUBSET S -> Int] /\ \A s \in SUBSET S : g[s] = Filled(g)[s]
  <2>1. Cardinality(S) \in Nat  BY <1>1
  <2>2. PICK g : Upto(Cardinality(S), g)  BY <1>5, <2>1
  <2>3. \A s \in SUBSET S : s \in Small(Cardinality(S))
    BY FS_Subset DEF Small
  <2>4. QED  BY <2>2, <2>3 DEF Upto
<1>7. Recurs(g, t, k, S)
  <2>1. g = Filled(g)
    <3>1. Filled(g) \in [SUBSET S -> Int]  BY <1>2, <1>6
    <3>2. QED  BY <1>6, <3>1
  <2>2. QED  BY <2>1 DEF Recurs, Filled
<1>8. Recurs(Partials(t, k, S), t, k, S)  BY <1>7 DEF Partials
<1> DEFINE p == Partials(t, k, S)
<1>9. p \in [SUBSET S -> Int]
  <2> HIDE DEF p
  <2>1. /\ DOMAIN p = SUBSET S /\ p = [s \in SUBSET S |-> p[s]]
        /\ \A s \in SUBSET S : p[s] = IF s = {} THEN 0 ELSE t[Pick(s)][k] + p[s \ {Pick(s)}]
    BY <1>8 DEF Recurs, p
  <2> DEFINE Wrong == {n \in Nat : \E s \in SUBSET S : Cardinality(s) = n /\ p[s] \notin Int}
  <2>2. ASSUME Wrong # {} PROVE FALSE
    <3>1. Wrong \subseteq Nat  OBVIOUS
    <3>2. PICK n \in Wrong : \A m \in Wrong : n <= m  BY <2>2, <3>1, LeastExists
    <3>3. PICK s \in SUBSET S : Cardinality(s) = n /\ p[s] \notin Int  BY <3>2
    <3>4. s # {}
      <4>1. p[{}] = 0  BY <2>1
      <4>2. QED  BY <3>3, <4>1
    <3> DEFINE r == s \ {Pick(s)}
    <3>5. /\ Pick(s) \in S /\ r \in SUBSET S /\ n \in Nat
          /\ Cardinality(r) \in Nat /\ Cardinality(r) = n - 1
      BY <1>1, <3>3, <3>4, PickOne
    <3>6. Cardinality(r) \notin Wrong
      <4> HIDE DEF Wrong, r
      <4>1. ~ (n <= n - 1)  BY <3>5
      <4>2. QED  BY <3>2, <3>5, <4>1
    <3>7. p[r] \in Int  BY <3>5, <3>6
    <3>8. p[s] = t[Pick(s)][k] + p[r]  BY <2>1, <3>3, <3>4
    <3>9. QED  BY <3>3, <3>5, <3>7, <3>8
  <2>3. \A s \in SUBSET S : p[s] \in Int  BY <1>1, <2>2
  <2>4. QED  BY <2>1, <2>3
<1>10. QED  BY <1>8, <1>9 DEF p

\* A sum of zeros is zero.
LEMMA SumOfZeros ==
  ASSUME NEW S, IsFiniteSet(S), NEW t, NEW k, \A x \in S : t[x][k] = 0
  PROVE  Partials(t, k, S)[S] = 0
<1> DEFINE p == Partials(t, k, S)
           Wrong == {n \in Nat : \E s \in SUBSET S : Cardinality(s) = n /\ p[s] # 0}
<1>0. \A x \in S : t[x][k] \in Int  OBVIOUS
<1>1. p \in [SUBSET S -> Int] /\ Recurs(p, t, k, S)  BY <1>0, PartialsExist
<1> HIDE DEF p
<1>2. \A s \in SUBSET S : p[s] = IF s = {} THEN 0 ELSE t[Pick(s)][k] + p[s \ {Pick(s)}]
  BY <1>1 DEF Recurs
<1>3. ASSUME Wrong # {} PROVE FALSE
  <2>1. Wrong \subseteq Nat  OBVIOUS
  <2>2. PICK n \in Wrong : \A m \in Wrong : n <= m  BY <1>3, <2>1, LeastExists
  <2>3. PICK s \in SUBSET S : Cardinality(s) = n /\ p[s] # 0  BY <2>2
  <2>4. s # {}  BY <1>2, <2>3
  <2> DEFINE r == s \ {Pick(s)}
  <2>5. /\ Pick(s) \in S /\ r \in SUBSET S /\ n \in Nat
        /\ Cardinality(r) \in Nat /\ Cardinality(r) = n - 1
    <3>1. IsFiniteSet(r)  BY FS_Subset
    <3>2. QED  BY <2>3, <2>4, <3>1, PickOne, FS_CardinalityType
  <2>6. Cardinality(r) \notin Wrong
    <3> HIDE DEF Wrong, r
    <3>1. ~ (n <= n - 1)  BY <2>5
    <3>2. QED  BY <2>2, <2>5, <3>1
  <2>7. p[r] = 0  BY <2>5, <2>6
  <2>8. p[s] = t[Pick(s)][k] + p[r]  BY <1>2, <2>3, <2>4
  <2>9. QED  BY <2>3, <2>5, <2>7, <2>8
<1>4. Cardinality(S) \in Nat  BY FS_CardinalityType
<1>5. QED  BY <1>3, <1>4 DEF p

\* One term changes, and the sum by as much: of the subsets for which it does
\* not, none is the smallest.
LEMMA OneTermMoves ==
  ASSUME NEW S, IsFiniteSet(S), NEW t, NEW u, NEW k, NEW d \in S, NEW delta \in Int,
         \A x \in S : t[x][k] \in Int /\ u[x][k] \in Int,
         \A x \in S \ {d} : u[x][k] = t[x][k], u[d][k] = t[d][k] + delta
  PROVE  Partials(u, k, S)[S] = Partials(t, k, S)[S] + delta
<1> DEFINE p == Partials(t, k, S)
           q == Partials(u, k, S)
           Fits(s) == q[s] = p[s] + (IF d \in s THEN delta ELSE 0)
           Wrong == {n \in Nat : \E s \in SUBSET S : Cardinality(s) = n /\ ~ Fits(s)}
<1>1. /\ p \in [SUBSET S -> Int] /\ q \in [SUBSET S -> Int]
      /\ Recurs(p, t, k, S) /\ Recurs(q, u, k, S)
  BY PartialsExist
<1> HIDE DEF p, q
<1>2. \A s \in SUBSET S :
        /\ p[s] = IF s = {} THEN 0 ELSE t[Pick(s)][k] + p[s \ {Pick(s)}]
        /\ q[s] = IF s = {} THEN 0 ELSE u[Pick(s)][k] + q[s \ {Pick(s)}]
  BY <1>1 DEF Recurs
<1>3. ASSUME Wrong # {} PROVE FALSE
  <2>1. Wrong \subseteq Nat  OBVIOUS
  <2>2. PICK n \in Wrong : \A m \in Wrong : n <= m  BY <1>3, <2>1, LeastExists
  <2>3. PICK s \in SUBSET S : Cardinality(s) = n /\ ~ Fits(s)  BY <2>2
  <2>4. s # {}
    <3>1. p[{}] = 0 /\ q[{}] = 0  BY <1>2
    <3>2. Fits({})  BY <3>1
    <3>3. QED  BY <2>3, <3>2
  <2> DEFINE x == Pick(s)
             r == s \ {x}
  <2>5. /\ x \in s /\ x \in S /\ r \in SUBSET S /\ n \in Nat
        /\ Cardinality(r) \in Nat /\ Cardinality(r) = n - 1
    <3>1. IsFiniteSet(r)  BY FS_Subset
    <3>2. QED  BY <2>3, <2>4, <3>1, PickOne, FS_CardinalityType
  <2>6. Cardinality(r) \notin Wrong
    <3> HIDE DEF Wrong, r
    <3>1. ~ (n <= n - 1)  BY <2>5
    <3>2. QED  BY <2>2, <2>5, <3>1
  <2>7. Fits(r)  BY <2>5, <2>6
  <2>8. p[s] = t[x][k] + p[r] /\ q[s] = u[x][k] + q[r]  BY <1>2, <2>3, <2>4
  <2>9. p[r] \in Int /\ q[r] \in Int /\ t[x][k] \in Int /\ u[x][k] \in Int  BY <1>1, <2>5
  <2>10. d \in s <=> (d \in r \/ d = x)  BY <2>5
  <2>11. ~ (d \in r /\ d = x)  OBVIOUS
  <2> HIDE DEF x, r
  <2>12. CASE d = x
    <3>1. u[x][k] = t[x][k] + delta  BY <2>12
    <3>2. q[r] = p[r]  BY <2>7, <2>9, <2>11, <2>12
    <3>3. q[s] = p[s] + delta /\ d \in s  BY <2>8, <2>9, <2>10, <2>12, <3>1, <3>2
    <3>4. QED  BY <2>3, <3>3
  <2>13. CASE d # x
    <3>1. u[x][k] = t[x][k]  BY <2>5, <2>13
    <3>2. q[r] = p[r] + (IF d \in s THEN delta ELSE 0)  BY <2>7, <2>10, <2>13
    <3>3. q[s] = p[s] + (IF d \in s THEN delta ELSE 0)  BY <2>8, <2>9, <3>1, <3>2
    <3>4. QED  BY <2>3, <3>3
  <2>14. QED  BY <2>12, <2>13
<1>4. Fits(S)
  <2>1. Cardinality(S) \in Nat  BY FS_CardinalityType
  <2>2. QED  BY <1>3, <2>1
<1>5. QED  BY <1>4 DEF p, q
=============================================================================
