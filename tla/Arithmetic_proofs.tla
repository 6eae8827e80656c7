------------------------ MODULE Arithmetic_proofs ------------------------
(***************************************************************************)
(* What the recursive functions of Arithmetic compute, for every sequence  *)
(* and every pair of numbers: Sum is additive, Gcd divides both, and Frac  *)
(* has the value of the quotient.                                          *)
(*                                                                         *)
(* Induction on the naturals is stated with a set in place of a predicate: *)
(* it follows from the minimal elements of a well-founded relation.        *)
(***************************************************************************)
EXTENDS Arithmetic, WellFoundedInduction, TLAPS

Below == {p \in Nat \X Nat : p[1] < p[2]}

LEMMA BelowWellFounded == IsWellFoundedOn(Below, Nat)
  BY NatLessThanWellFounded DEF OpToRel, Below

LEMMA Induction ==
  ASSUME NEW S, 0 \in S, \A n \in Nat : n \in S => n + 1 \in S
  PROVE  \A n \in Nat : n \in S
<1> DEFINE T == Nat \ S
<1>1. SUFFICES ASSUME T # {} PROVE FALSE
  OBVIOUS
<1>2. PICK m \in T : \A k \in T : <<k, m>> \notin Below
  BY <1>1, WFMin, BelowWellFounded
<1>3. m # 0 /\ m - 1 \in Nat
  OBVIOUS
<1>4. <<m - 1, m>> \in Below
  BY <1>3 DEF Below
<1>5. m - 1 \in S
  BY <1>2, <1>3, <1>4
<1> QED
  BY <1>3, <1>5

\* The same up to a bound.
LEMMA InductionUpTo ==
  ASSUME NEW N \in Nat, NEW S, 0 \in S,
         \A n \in 0 .. N - 1 : n \in S => n + 1 \in S
  PROVE  \A n \in 0 .. N : n \in S
<1> DEFINE T == {n \in Nat : n <= N => n \in S}
<1>1. 0 \in T
  OBVIOUS
<1>2. \A n \in Nat : n \in T => n + 1 \in T
  OBVIOUS
<1>3. \A n \in Nat : n \in T
  <2> HIDE DEF T
  <2> QED
    BY <1>1, <1>2, Induction
<1> QED
  BY <1>3

--------------------------------------------------------------------------
(* Sum. *)

\* The sums of the first 0, 1, .. elements of s.
IsTotal(f, s) ==
  f = [i \in 0 .. Len(s) |-> IF i = 0 THEN 0 ELSE f[i - 1] + s[i]]

LEMMA TotalExists ==
  ASSUME NEW s \in Seq(Int)
  PROVE  \E f : IsTotal(f, s)
<1> DEFINE N == Len(s)
           Upto(m) == {h \in [0 .. m -> Int] :
                         /\ h[0] = 0
                         /\ \A i \in 1 .. m : h[i] = h[i - 1] + s[i]}
           S == {m \in 0 .. N : Upto(m) # {}}
<1>1. 0 \in S
  <2>1. [i \in 0 .. 0 |-> 0] \in Upto(0)
    OBVIOUS
  <2> QED
    BY <2>1
<1>2. ASSUME NEW m \in 0 .. N - 1, m \in S PROVE m + 1 \in S
  <2>1. PICK h \in Upto(m) : TRUE
    BY <1>2
  <2> DEFINE g == [i \in 0 .. m + 1 |-> IF i = m + 1 THEN h[m] + s[m + 1] ELSE h[i]]
  <2>2. g \in [0 .. m + 1 -> Int]
    <3>1. s[m + 1] \in Int /\ \A i \in 0 .. m : h[i] \in Int
      OBVIOUS
    <3>2. \A i \in 0 .. m + 1 : i # m + 1 => i \in 0 .. m
      OBVIOUS
    <3>3. h[m] \in Int
      BY <3>1
    <3> QED
      BY <3>1, <3>2, <3>3
  <2>3. g[0] = 0 /\ \A i \in 1 .. m + 1 : g[i] = g[i - 1] + s[i]
    OBVIOUS
  <2>4. g \in Upto(m + 1)
    BY <2>2, <2>3
  <2>5. m + 1 \in 0 .. N
    OBVIOUS
  <2> HIDE DEF N, g, Upto
  <2> QED
    BY <2>4, <2>5
<1>3. \A m \in 0 .. N : m \in S
  <2>1. N \in Nat
    OBVIOUS
  <2> HIDE DEF S, N
  <2> QED
    BY <1>1, <1>2, <2>1, InductionUpTo
<1>4. PICK f \in Upto(N) : TRUE
  <2>1. N \in 0 .. N
    OBVIOUS
  <2> QED
    BY <1>3, <2>1
<1> QED
  BY <1>4 DEF IsTotal

LEMMA SumIsTotal ==
  ASSUME NEW s \in Seq(Int)
  PROVE  \E f : IsTotal(f, s) /\ Sum(s) = f[Len(s)]
  BY TotalExists DEF IsTotal, Sum

\* The sums of the prefixes are those of the prefix alone.
LEMMA TotalOfPrefix ==
  ASSUME NEW s \in Seq(Int), NEW t \in Seq(Int), Len(s) <= Len(t),
         \A i \in 1 .. Len(s) : s[i] = t[i],
         NEW f, IsTotal(f, s), NEW g, IsTotal(g, t)
  PROVE  \A i \in 0 .. Len(s) : f[i] \in Int /\ f[i] = g[i]
<1> DEFINE S == {i \in 0 .. Len(s) : f[i] \in Int /\ f[i] = g[i]}
<1>1. 0 \in S
  BY DEF IsTotal
<1>2. ASSUME NEW n \in 0 .. Len(s) - 1, n \in S PROVE n + 1 \in S
  <2>1. n + 1 \in 0 .. Len(s) /\ n + 1 \in 0 .. Len(t) /\ n + 1 # 0 /\ (n + 1) - 1 = n
    OBVIOUS
  <2>2. f[n + 1] = f[n] + s[n + 1] /\ g[n + 1] = g[n] + t[n + 1]
    BY <2>1 DEF IsTotal
  <2>3. s[n + 1] = t[n + 1] /\ s[n + 1] \in Int
    OBVIOUS
  <2> QED
    BY <1>2, <2>2, <2>3
<1>3. \A n \in 0 .. Len(s) : n \in S
  <2>1. Len(s) \in Nat
    OBVIOUS
  <2> HIDE DEF S
  <2> QED
    BY <1>1, <1>2, <2>1, InductionUpTo
<1> QED
  BY <1>3

LEMMA SumEmpty == Sum(<<>>) = 0
<1>1. <<>> \in Seq(Int) /\ Len(<<>>) = 0
  OBVIOUS
<1>2. PICK f : IsTotal(f, <<>>) /\ Sum(<<>>) = f[0]
  BY <1>1, SumIsTotal
<1> QED
  BY <1>1, <1>2 DEF IsTotal

LEMMA SumAppend ==
  ASSUME NEW s \in Seq(Int), NEW x \in Int
  PROVE  Sum(s) \in Int /\ Sum(Append(s, x)) = Sum(s) + x
<1> DEFINE t == Append(s, x)
<1>1. /\ t \in Seq(Int) /\ Len(t) = Len(s) + 1 /\ t[Len(t)] = x
      /\ \A i \in 1 .. Len(s) : s[i] = t[i]
  OBVIOUS
<1>2. PICK f : IsTotal(f, s) /\ Sum(s) = f[Len(s)]
  BY SumIsTotal
<1>3. PICK g : IsTotal(g, t) /\ Sum(t) = g[Len(t)]
  BY <1>1, SumIsTotal
<1> HIDE DEF t
<1>4. f[Len(s)] \in Int /\ f[Len(s)] = g[Len(s)]
  BY <1>1, <1>2, <1>3, TotalOfPrefix
<1>5. g[Len(t)] = g[Len(s)] + x
  BY <1>1, <1>3 DEF IsTotal
<1> QED
  BY <1>2, <1>3, <1>4, <1>5 DEF t

\* A sum of naturals is one.
LEMMA SumOfNaturals ==
  ASSUME NEW s \in Seq(Nat)
  PROVE  Sum(s) \in Nat
<1>1. s \in Seq(Int)
  OBVIOUS
<1>2. PICK f : IsTotal(f, s) /\ Sum(s) = f[Len(s)]
  BY <1>1, SumIsTotal
<1> DEFINE S == {i \in 0 .. Len(s) : f[i] \in Nat}
<1>3. 0 \in S
  BY <1>2 DEF IsTotal
<1>4. ASSUME NEW n \in 0 .. Len(s) - 1, n \in S PROVE n + 1 \in S
  BY <1>2, <1>4 DEF IsTotal
<1>5. \A n \in 0 .. Len(s) : n \in S
  <2>1. Len(s) \in Nat
    OBVIOUS
  <2> HIDE DEF S
  <2> QED
    BY <1>3, <1>4, <2>1, InductionUpTo
<1> QED
  BY <1>2, <1>5

--------------------------------------------------------------------------
(* Gcd. *)

LEMMA DivMod ==
  ASSUME NEW a \in Nat, NEW d \in Nat \ {0}
  PROVE  /\ a \div d \in Nat
         /\ a % d \in Nat
         /\ a % d < d
         /\ a = (d * (a \div d)) + (a % d)
  OBVIOUS

\* The arguments Euclid's algorithm goes through.
Pairs(m) == Nat \X (0 .. m)
NextPair(p) == <<p[2], p[1] % p[2]>>

IsEuclid(f, b) ==
  f = [p \in Pairs(b) |-> IF p[2] = 0 THEN p[1] ELSE f[NextPair(p)]]

\* The second of them becomes smaller.
LEMMA PairDecreases ==
  ASSUME NEW m \in Nat, NEW p \in Pairs(m + 1), p[2] # 0
  PROVE  /\ NextPair(p) \in Pairs(m)
         /\ p[2] <= m => NextPair(p) \in Pairs(m - 1)
<1>1. p[1] \in Nat /\ p[2] \in Nat \ {0} /\ p[2] <= m + 1
  BY DEF Pairs
<1>2. PICK r \in Nat : r = p[1] % p[2] /\ r < p[2]
  BY <1>1, DivMod
<1>3. NextPair(p) = <<p[2], r>>
  BY <1>2 DEF NextPair
<1> QED
  BY <1>1, <1>2, <1>3 DEF Pairs

LEMMA EuclidExists ==
  ASSUME NEW b \in Nat
  PROVE  \E f : IsEuclid(f, b)
<1> DEFINE Upto(m) ==
             {h \in [Pairs(m) -> Nat] :
                \A p \in Pairs(m) : h[p] = IF p[2] = 0 THEN p[1] ELSE h[NextPair(p)]}
           S == {m \in 0 .. b : Upto(m) # {}}
<1>1. 0 \in S
  <2> DEFINE h == [p \in Pairs(0) |-> p[1]]
  <2>1. \A p \in Pairs(0) : p[1] \in Nat /\ p[2] = 0
    BY DEF Pairs
  <2>2. h \in Upto(0)
    BY <2>1
  <2> HIDE DEF h, Upto
  <2> QED
    BY <2>2
<1>2. ASSUME NEW m \in 0 .. b - 1, m \in S PROVE m + 1 \in S
  <2>1. PICK h \in Upto(m) : TRUE
    BY <1>2
  <2> DEFINE g == [p \in Pairs(m + 1) |-> IF p[2] = m + 1 THEN h[NextPair(p)] ELSE h[p]]
  <2>2. ASSUME NEW p \in Pairs(m + 1)
        PROVE  /\ p[2] = m + 1 => NextPair(p) \in Pairs(m)
               /\ p[2] # m + 1 => p \in Pairs(m)
               /\ p[2] # 0 /\ p[2] # m + 1 => NextPair(p) \in Pairs(m) /\ NextPair(p)[2] # m + 1
               /\ p[2] = m + 1 => NextPair(p)[2] # m + 1
               /\ NextPair(p) \in Pairs(m) => NextPair(p) \in Pairs(m + 1)
    <3>1. m \in Nat
      OBVIOUS
    <3>2. p[2] # 0 => NextPair(p) \in Pairs(m)
      BY <3>1, PairDecreases
    <3>3. \A x \in Pairs(m) : x[2] # m + 1 /\ x \in Pairs(m + 1)
      BY <3>1 DEF Pairs
    <3>4. p[2] # m + 1 => p \in Pairs(m)
      BY <3>1 DEF Pairs
    <3> QED
      BY <3>1, <3>2, <3>3, <3>4
  <2>3. g \in [Pairs(m + 1) -> Nat]
    BY <2>2
  <2>4. \A p \in Pairs(m + 1) : g[p] = IF p[2] = 0 THEN p[1] ELSE g[NextPair(p)]
    <3> SUFFICES ASSUME NEW p \in Pairs(m + 1)
                 PROVE  g[p] = IF p[2] = 0 THEN p[1] ELSE g[NextPair(p)]
      OBVIOUS
    <3>1. m + 1 # 0
      OBVIOUS
    <3>2. CASE p[2] = m + 1
      BY <2>2, <3>1, <3>2
    <3>3. CASE p[2] # m + 1 /\ p[2] # 0
      BY <2>2, <3>3
    <3>4. CASE p[2] # m + 1 /\ p[2] = 0
      BY <2>2, <3>4
    <3> QED
      BY <3>2, <3>3, <3>4
  <2>5. g \in Upto(m + 1)
    BY <2>3, <2>4
  <2>6. m + 1 \in 0 .. b
    OBVIOUS
  <2> HIDE DEF g, Upto
  <2> QED
    BY <2>5, <2>6
<1>3. \A m \in 0 .. b : m \in S
  <2> HIDE DEF S
  <2> QED
    BY <1>1, <1>2, InductionUpTo
<1>4. PICK f \in Upto(b) : TRUE
  <2>1. b \in 0 .. b
    OBVIOUS
  <2> QED
    BY <1>3, <2>1
<1> QED
  BY <1>4 DEF IsEuclid

Divides(d, a) == \E q \in Nat : a = q * d

\* If the algorithm takes a common divisor from a pair, so it does from the
\* pair before.
LEMMA DividesBack ==
  ASSUME NEW a \in Nat, NEW d \in Nat \ {0}, NEW g \in Nat,
         Divides(g, d), Divides(g, a % d)
  PROVE  Divides(g, a)
<1>1. PICK q \in Nat : d = q * g
  BY DEF Divides
<1>2. PICK r \in Nat : a % d = r * g
  BY DEF Divides
<1>3. PICK k \in Nat : a = (d * k) + (r * g)
  <2>1. a \div d \in Nat /\ a = (d * (a \div d)) + (a % d)
    BY DivMod
  <2> QED
    BY <1>2, <2>1
<1>4. d * k = (q * k) * g
  <2>1. d * k = (q * g) * k
    BY <1>1
  <2>2. (q * g) * k = (q * k) * g
    OBVIOUS
  <2> QED
    BY <2>1, <2>2
<1>5. a = ((q * k) + r) * g
  <2>1. ((q * k) + r) * g = ((q * k) * g) + (r * g)
    OBVIOUS
  <2> QED
    BY <1>3, <1>4, <2>1
<1>6. (q * k) + r \in Nat
  OBVIOUS
<1> QED
  BY <1>5, <1>6 DEF Divides

LEMMA GcdDivides ==
  ASSUME NEW a \in Nat, NEW b \in Nat \ {0}
  PROVE  Gcd(a, b) \in Nat \ {0} /\ Divides(Gcd(a, b), a) /\ Divides(Gcd(a, b), b)
<1>1. PICK f : IsEuclid(f, b) /\ Gcd(a, b) = f[<<a, b>>]
  BY EuclidExists DEF IsEuclid, Gcd, Pairs, NextPair
<1> DEFINE Right(p) == f[p] \in Nat \ {0} /\ Divides(f[p], p[1]) /\ Divides(f[p], p[2])
           S == {m \in 0 .. b : \A p \in Pairs(m) : p[1] + p[2] # 0 => Right(p)}
<1>2. 0 \in S
  <2> SUFFICES ASSUME NEW p \in Pairs(0), p[1] + p[2] # 0 PROVE Right(p)
    OBVIOUS
  <2>1. p[1] \in Nat \ {0} /\ p[2] = 0 /\ p \in Pairs(b)
    BY DEF Pairs
  <2>2. f[p] = p[1]
    BY <1>1, <2>1 DEF IsEuclid
  <2>3. p[1] = 1 * p[1] /\ 0 = 0 * p[1]
    BY <2>1
  <2> QED
    BY <2>1, <2>2, <2>3 DEF Divides
<1>3. ASSUME NEW m \in 0 .. b - 1, m \in S PROVE m + 1 \in S
  <2> SUFFICES ASSUME NEW p \in Pairs(m + 1), p[1] + p[2] # 0 PROVE Right(p)
    OBVIOUS
  <2>1. CASE p[2] # m + 1
    <3>1. p \in Pairs(m)
      BY <2>1 DEF Pairs
    <3> QED
      BY <1>3, <3>1
  <2>2. CASE p[2] = m + 1
    <3>1. p[1] \in Nat /\ p[2] \in Nat \ {0} /\ p \in Pairs(b)
      BY <2>2 DEF Pairs
    <3>2. NextPair(p) \in Pairs(m)
      BY <2>2, <3>1, PairDecreases
    <3>3. NextPair(p)[1] = p[2] /\ NextPair(p)[2] = p[1] % p[2] /\ p[1] % p[2] \in Nat
      BY <3>1, DivMod DEF NextPair
    <3>4. Right(NextPair(p))
      <4>1. p[2] + (p[1] % p[2]) # 0
        BY <3>1, <3>3
      <4> QED
        BY <1>3, <3>2, <3>3, <4>1
    <3>5. f[p] = f[NextPair(p)]
      BY <1>1, <3>1 DEF IsEuclid
    <3>6. f[p] \in Nat \ {0} /\ Divides(f[p], p[2]) /\ Divides(f[p], p[1] % p[2])
      BY <3>3, <3>4, <3>5
    <3> QED
      BY <3>1, <3>6, DividesBack
  <2> QED
    BY <2>1, <2>2
<1>4. \A m \in 0 .. b : m \in S
  <2> HIDE DEF S
  <2> QED
    BY <1>2, <1>3, InductionUpTo
<1>5. <<a, b>> \in Pairs(b) /\ b \in S
  <2>1. b \in 0 .. b
    OBVIOUS
  <2> HIDE DEF S
  <2> QED
    BY <1>4, <2>1 DEF Pairs
<1>6. Right(<<a, b>>)
  BY <1>5
<1> QED
  BY <1>1, <1>6

--------------------------------------------------------------------------
(* Fractions. *)

LEMMA Quotient ==
  ASSUME NEW q \in Nat, NEW g \in Nat \ {0}
  PROVE  (q * g) \div g = q
  OBVIOUS

\* Frac, which stands for a division of doubles, has the value num / den, and a
\* denominator that is not 0: what Euclid's algorithm finds divides both.
LEMMA FracValue ==
  ASSUME NEW num \in Nat, NEW den \in Nat \ {0}
  PROVE  /\ Frac(num, den) \in Nat \X (Nat \ {0})
         /\ Frac(num, den)[1] * den = Frac(num, den)[2] * num
<1>1. PICK g \in Nat \ {0} : g = Gcd(num, den) /\ Divides(g, num) /\ Divides(g, den)
  BY GcdDivides
<1>2. PICK p \in Nat : num = p * g
  BY <1>1 DEF Divides
<1>3. PICK q \in Nat : den = q * g
  BY <1>1 DEF Divides
<1>4. Frac(num, den) = <<p, q>>
  BY <1>1, <1>2, <1>3, Quotient DEF Frac
<1>5. q # 0
  BY <1>3
<1>6. p * (q * g) = q * (p * g)
  OBVIOUS
<1> QED
  BY <1>2, <1>3, <1>4, <1>5, <1>6
==========================================================================
