-------------------------- MODULE Series_proofs --------------------------
(***************************************************************************)
(* Proofs about the test programs' mains: the running statistics of a      *)
(* series, the number of results logged and the group services, for every  *)
(* list of parameters, every number of groups and iterations, and whatever *)
(* the iterations measure.                                                 *)
(***************************************************************************)
EXTENDS Series, Arithmetic_proofs, TLAPS

--------------------------------------------------------------------------
(* The inductive invariant. *)

InSeries == {"iterate", "compare", "stats"}
InParam  == {"pretest", "log"} \cup InSeries

Types ==
  /\ program \in Program /\ given \in BOOLEAN
  /\ phase \in {"setup", "param", "merge", "done", "failed"} \cup InParam
  /\ l \in Nat /\ ksm \in {1, 2} /\ y \in Nat
  /\ j \in Nat /\ n \in Nat
  /\ kept \in Seq(Nat)

\* A value of the parameter is at hand, or there is one more, or none.
Position ==
  /\ phase \in {"setup", "param"} => l < Len(Params)
  /\ phase \in InParam => l \in 1 .. Len(Params)

\* The groups with a service are 1 .. count, but for groups a script left out.
UpTo(count) ==
  /\ 1 .. count \subseteq services \cup skipped
  /\ services \subseteq 1 .. count \cup skipped

\* The groups that have a service in each phase.
ServicesKnown ==
  /\ services \subseteq Nat /\ skipped \subseteq Nat
  /\ phase \in {"setup", "done", "failed"} => services \subseteq skipped
  /\ phase \in {"param", "merge"} =>
       IF program = "test2" THEN services \subseteq skipped ELSE UpTo(GroupCount)
  /\ phase \in InParam => UpTo(group_count)

\* n is one more than the results kept, however many were discarded.
ResultsCounted ==
  /\ phase = "pretest" => kept = <<>>
  /\ phase \in {"pretest"} \cup InSeries => rs.k = StartingK
  /\ phase \in InParam =>
       rs = [mean |-> rs.mean, variance |-> rs.variance, coeff |-> rs.coeff, k |-> rs.k]
  /\ phase \in InSeries => n = Len(kept) + 1 /\ j <= MaxK

\* What TypeOK says of the rest.
Ranges ==
  /\ l \in 0 .. Len(Params) /\ pre \in 0 .. IgnoreCount
  /\ prev_y \in Nat \cup {-1}
  /\ j \in 1 .. MaxK + 1 /\ n \in 1 .. MaxK + 1
  /\ rows \in [{1, 2} -> Seq(Nat)]

\* A fraction that is a number.
Proper == Nat \X (Nat \ {0})

\* VarianceOfKept of r and s.
VarianceOf(r, s) ==
  LET c == Len(s)
  IN  IF c < 2 THEN r.variance[1] = 0
      ELSE 2 * c * (c - 1) * r.variance[1] =
             (2 * SquaredDeviations(s) - c * SquaredDeviations(SubSeq(s, 1, 2)))
               * r.variance[2]

\* The statistics r are those of the results in s.
StatsOf(r, s) ==
  /\ r \in Stats /\ r.mean \in Proper /\ r.variance \in Proper
  /\ s # <<>> => r.mean[1] * Len(s) = r.mean[2] * Sum(s)
  /\ VarianceOf(r, s)

\* No result of the first two iterations is discarded: the variance starts
\* with two results in the mean.
FirstTwoKept ==
  phase \in InSeries => IF j <= 2 THEN n = j ELSE 3 <= n /\ n <= j

IInv ==
  /\ Types
  /\ Position
  /\ ServicesKnown
  /\ ResultsCounted
  /\ KCountsResults
  /\ Ranges
  /\ StatsOf(rs, kept)
  /\ FirstTwoKept

--------------------------------------------------------------------------
(* Lemmas. *)

LEMMA Counts ==
  /\ GroupCount \in Nat \ {0} /\ StartingK \in Nat \ {0} /\ MaxK \in Nat \ {0}
  /\ Param \in Seq(Nat \ {0}) /\ Len(Param) \in Nat \ {0} /\ DOMAIN Param = 1 .. Len(Param)
  /\ Y \subseteq Nat
  BY ParamAssumption

\* The values of the parameter; those of test4 are the numbers of groups.
LEMMA ParamsFacts ==
  /\ Len(Params) \in Nat \ {0}
  /\ \A i \in 1 .. Len(Params) : Params[i] \in Nat \ {0}
  /\ program = "test4" => \A i \in 1 .. Len(Params) : Params[i] = i /\ i <= GroupCount
<1>1. CASE program = "test4"
  <2>1. Params = [i \in 1 .. GroupCount |-> i]
    BY <1>1 DEF Params
  <2>2. Len(Params) = GroupCount
    BY <2>1, Counts
  <2> QED
    BY <2>1, <2>2, Counts
<1>2. CASE program # "test4"
  BY <1>2, Counts DEF Params
<1> QED
  BY <1>1, <1>2

\* The statistics keep their form and the count of the series.
LEMMA UpdatedForm ==
  ASSUME rs = [mean |-> rs.mean, variance |-> rs.variance, coeff |-> rs.coeff, k |-> rs.k]
  PROVE  /\ Updated = [mean |-> Updated.mean, variance |-> Updated.variance,
                       coeff |-> Updated.coeff, k |-> Updated.k]
         /\ Updated.k = rs.k
<1> DEFINE s == [mean |-> MeanWith, variance |-> VarianceWith(MeanWith), coeff |-> rs.coeff, k |-> rs.k]
<1>1. Updated = IF j > 2 THEN [s EXCEPT !.coeff = CoeffVariance(s)] ELSE s
  BY DEF Updated
<1>2. PICK a, b, c : s = [mean |-> a, variance |-> b, coeff |-> c, k |-> rs.k]
  OBVIOUS
<1> HIDE DEF s
<1>3. ASSUME NEW x
      PROVE  [s EXCEPT !.coeff = x] = [mean |-> a, variance |-> b, coeff |-> x, k |-> rs.k]
  BY <1>2
<1>4. \E x : Updated = [mean |-> a, variance |-> b, coeff |-> x, k |-> rs.k]
  BY <1>1, <1>2, <1>3
<1> QED
  BY <1>4

--------------------------------------------------------------------------
(* The recurrences of the running statistics. *)

LEMMA Cancel ==
  ASSUME NEW a \in Int, NEW b \in Int, NEW d \in Nat \ {0}, a * d = b * d
  PROVE  a = b
  OBVIOUS

(* The hypotheses of the three lemmas are named, so that a use of a lemma   *)
(* can say which numbers it is about.                                       *)

\* a/b is the mean of c numbers with sum s.
MeanIs(a, b, c, s) == a * c = b * s

\* p/q is (a/b * c + x) / (c + 1).
EntersMean(p, q, a, b, c, s, x) ==
  /\ c \in Nat /\ s \in Int /\ x \in Int
  /\ a \in Int /\ b \in Nat \ {0} /\ MeanIs(a, b, c, s)
  /\ p \in Int /\ q \in Int
  /\ p * ((c + 1) * b) = q * ((a * c) + (x * b))

\* The mean with x in it, from the mean without.
LEMMA MeanAlgebra ==
  ASSUME NEW p, NEW q, NEW a, NEW b, NEW c, NEW s, NEW x,
         EntersMean(p, q, a, b, c, s, x)
  PROVE  MeanIs(p, q, c + 1, s + x)
<1>0. /\ c \in Nat /\ s \in Int /\ x \in Int
      /\ a \in Int /\ b \in Nat \ {0} /\ a * c = b * s
      /\ p \in Int /\ q \in Int
      /\ p * ((c + 1) * b) = q * ((a * c) + (x * b))
  BY DEF EntersMean, MeanIs
<1>1. (p * (c + 1)) * b = p * ((c + 1) * b)
  BY <1>0
<1>2. (q * (s + x)) * b = q * ((b * s) + (x * b))
  BY <1>0
<1>3. (p * (c + 1)) * b = (q * (s + x)) * b
  BY <1>0, <1>1, <1>2
<1>4. p * (c + 1) \in Int /\ q * (s + x) \in Int
  BY <1>0
<1> QED
  BY <1>0, <1>3, <1>4, Cancel DEF MeanIs

\* The product of the deviations of x from the two means is a square, up to
\* factors that are positive: x is on one side of both.
TwoMeans(p, q, a, b, c, s, x) ==
  /\ c \in Nat \ {0} /\ s \in Int /\ x \in Int
  /\ a \in Int /\ b \in Nat \ {0} /\ MeanIs(a, b, c, s)
  /\ p \in Int /\ q \in Nat \ {0} /\ MeanIs(p, q, c + 1, s + x)

LEMMA DeviationAlgebra ==
  ASSUME NEW p, NEW q, NEW a, NEW b, NEW c, NEW s, NEW x,
         TwoMeans(p, q, a, b, c, s, x)
  PROVE  LET dev == ((x * q) - p) * ((x * b) - a)
             dif == (c * x) - s
         IN  /\ ((c + 1) * c) * dev = (q * b) * (dif * dif)
             /\ dev >= 0
<1>0. /\ c \in Nat \ {0} /\ s \in Int /\ x \in Int
      /\ a \in Int /\ b \in Nat \ {0} /\ a * c = b * s
      /\ p \in Int /\ q \in Nat \ {0} /\ p * (c + 1) = q * (s + x)
  BY DEF TwoMeans, MeanIs
<1> DEFINE u == (x * q) - p
           v == (x * b) - a
           dif == (c * x) - s
<1>1. u \in Int /\ v \in Int /\ dif \in Int
  BY <1>0
<1>2. (c + 1) * u = q * dif
  <2>1. (c + 1) * u = ((c + 1) * (x * q)) - (p * (c + 1))
    BY <1>0
  <2>2. ((c + 1) * (x * q)) - (q * (s + x)) = q * dif
    BY <1>0
  <2> QED
    BY <1>0, <2>1, <2>2
<1>3. c * v = b * dif
  <2>1. c * v = (c * (x * b)) - (a * c)
    BY <1>0
  <2>2. (c * (x * b)) - (b * s) = b * dif
    BY <1>0
  <2> QED
    BY <1>0, <2>1, <2>2
<1> HIDE DEF u, v, dif
<1>4. ((c + 1) * c) * (u * v) = ((c + 1) * u) * (c * v)
  BY <1>0, <1>1
<1>5. (q * dif) * (b * dif) = (q * b) * (dif * dif)
  BY <1>0, <1>1
<1>6. ((c + 1) * c) * (u * v) = (q * b) * (dif * dif)
  BY <1>0, <1>1, <1>2, <1>3, <1>4, <1>5
<1>7. u * v >= 0
  <2>1. dif * dif >= 0 /\ dif * dif \in Int
    BY <1>0, <1>1
  <2>2. q * b >= 0 /\ q * b \in Int
    BY <1>0
  <2>3. (q * b) * (dif * dif) >= 0
    BY <1>0, <2>1, <2>2
  <2>4. (c + 1) * c \in Nat \ {0} /\ u * v \in Int
    BY <1>0, <1>1
  <2> QED
    BY <1>0, <1>6, <2>3, <2>4
<1> QED
  BY <1>6, <1>7 DEF u, v, dif

\* The sum of the squared deviations with x in it.
LEMMA SquaresAlgebra ==
  ASSUME NEW c \in Int, NEW s \in Int, NEW t \in Int, NEW x \in Int
  PROVE  c * (((c + 1) * (t + (x * x))) - ((s + x) * (s + x)))
           = ((c + 1) * ((c * t) - (s * s))) + (((c * x) - s) * ((c * x) - s))
<1>1. (s + x) * (s + x) = (s * s) + (2 * (s * x)) + (x * x)
  OBVIOUS
<1>2. ((c * x) - s) * ((c * x) - s) = ((c * c) * (x * x)) - (2 * (c * (s * x))) + (s * s)
  OBVIOUS
<1>3. PICK ss \in Int, sx \in Int, xx \in Int : ss = s * s /\ sx = s * x /\ xx = x * x
  OBVIOUS
<1>4. c * (((c + 1) * (t + xx)) - (ss + (2 * sx) + xx))
        = ((c + 1) * ((c * t) - ss)) + (((c * c) * xx) - (2 * (c * sx)) + ss)
  OBVIOUS
<1> QED
  BY <1>1, <1>2, <1>3, <1>4

\* The variance with x in it: sd and sdd are the squared deviations without
\* and with x, dd the square of their difference, two those of the first two
\* results.
EntersVariance(p, q, v, w, c, den, dev, dd, sd, sdd, two) ==
  /\ c \in Nat \ {0} /\ v \in Int /\ w \in Nat \ {0}
  /\ den \in Nat \ {0} /\ dev \in Int /\ dd \in Int
  /\ sd \in Int /\ sdd \in Int /\ two \in Int
  /\ p \in Int /\ q \in Int
  /\ (2 * (c * (c - 1))) * v = ((2 * sd) - (c * two)) * w
  /\ ((c + 1) * c) * dev = den * dd
  /\ c * sdd = ((c + 1) * sd) + dd
  /\ p * ((c * w) * den) = q * ((((c - 1) * v) * den) + (dev * w))

LEMMA VarianceAlgebra ==
  ASSUME NEW p, NEW q, NEW v, NEW w, NEW c, NEW den, NEW dev, NEW dd,
         NEW sd, NEW sdd, NEW two,
         EntersVariance(p, q, v, w, c, den, dev, dd, sd, sdd, two)
  PROVE  (2 * ((c + 1) * c)) * p = ((2 * sdd) - ((c + 1) * two)) * q
<1>0. /\ c \in Nat \ {0} /\ v \in Int /\ w \in Nat \ {0}
      /\ den \in Nat \ {0} /\ dev \in Int /\ dd \in Int
      /\ sd \in Int /\ sdd \in Int /\ two \in Int
      /\ p \in Int /\ q \in Int
  BY DEF EntersVariance
<1>a. /\ (2 * (c * (c - 1))) * v = ((2 * sd) - (c * two)) * w
      /\ ((c + 1) * c) * dev = den * dd
  BY DEF EntersVariance
<1>b. /\ c * sdd = ((c + 1) * sd) + dd
      /\ p * ((c * w) * den) = q * ((((c - 1) * v) * den) + (dev * w))
  BY DEF EntersVariance
<1> DEFINE L == (2 * ((c + 1) * c)) * p
           R == ((2 * sdd) - ((c + 1) * two)) * q
           k == (c * w) * den
<1>1. L * k = (2 * ((c + 1) * c)) * (p * k)
  BY <1>0
<1>2. (2 * ((c + 1) * c)) * (q * ((((c - 1) * v) * den) + (dev * w)))
        = (q * ((c + 1) * den)) * ((2 * (c * (c - 1))) * v) + (2 * (q * w)) * (((c + 1) * c) * dev)
  BY <1>0
<1>3. L * k = (q * ((c + 1) * den)) * (((2 * sd) - (c * two)) * w) + (2 * (q * w)) * (den * dd)
  BY <1>1, <1>2, <1>a, <1>b
<1>4. (q * ((c + 1) * den)) * (((2 * sd) - (c * two)) * w) + (2 * (q * w)) * (den * dd)
        = ((q * den) * w) * ((2 * (((c + 1) * sd) + dd)) - ((c + 1) * (c * two)))
  BY <1>0
<1>5. ((q * den) * w) * ((2 * (c * sdd)) - ((c + 1) * (c * two))) = R * k
  BY <1>0
<1>6. L * k = R * k
  BY <1>3, <1>4, <1>5, <1>b
<1>7. L \in Int /\ R \in Int /\ k \in Nat \ {0}
  BY <1>0
<1> HIDE DEF L, R, k
<1>8. L = R
  BY <1>6, <1>7, Cancel
<1> QED
  BY <1>8 DEF L, R

--------------------------------------------------------------------------
(* The statistics of one round. *)

Squares(s) == [i \in DOMAIN s |-> s[i] * s[i]]

LEMMA SquaresAppend ==
  ASSUME NEW s \in Seq(Nat), NEW x \in Nat
  PROVE  /\ Squares(s) \in Seq(Int)
         /\ Squares(Append(s, x)) = Append(Squares(s), x * x)
<1>1. DOMAIN s = 1 .. Len(s) /\ \A i \in 1 .. Len(s) : s[i] \in Nat
  OBVIOUS
<1>2. \A a \in Nat : a * a \in Int
  OBVIOUS
<1>3. Squares(s) = [i \in 1 .. Len(s) |-> s[i] * s[i]]
  BY <1>1 DEF Squares
<1>4. \A i \in 1 .. Len(s) : s[i] * s[i] \in Int
  BY <1>1, <1>2
<1>5. Squares(s) \in Seq(Int) /\ Len(Squares(s)) = Len(s)
  BY <1>3, <1>4
<1> DEFINE t == Append(s, x)
<1>6. /\ DOMAIN t = 1 .. Len(s) + 1 /\ t[Len(s) + 1] = x
      /\ \A i \in 1 .. Len(s) : t[i] = s[i]
  OBVIOUS
<1>7. Squares(t) = [i \in 1 .. Len(s) + 1 |-> t[i] * t[i]]
  BY <1>6 DEF Squares
<1> DEFINE u == Append(Squares(s), x * x)
<1>8. /\ DOMAIN u = 1 .. Len(s) + 1 /\ u[Len(s) + 1] = x * x
      /\ \A i \in 1 .. Len(s) : u[i] = Squares(s)[i]
      /\ u = [i \in 1 .. Len(s) + 1 |-> u[i]]
  BY <1>5, <1>2
<1> HIDE DEF t, u
<1>9. \A i \in 1 .. Len(s) + 1 : u[i] = t[i] * t[i]
  <2> SUFFICES ASSUME NEW i \in 1 .. Len(s) + 1 PROVE u[i] = t[i] * t[i]
    OBVIOUS
  <2>1. CASE i = Len(s) + 1
    BY <1>6, <1>8, <2>1
  <2>2. CASE i # Len(s) + 1
    <3>1. i \in 1 .. Len(s)
      BY <2>2
    <3> QED
      BY <1>3, <1>6, <1>8, <3>1
  <2> QED
    BY <2>1, <2>2
<1>10. Squares(t) = u
  BY <1>7, <1>8, <1>9
<1> QED
  BY <1>5, <1>10 DEF t, u

\* The squared deviations with one more result.
LEMMA DeviationsAppend ==
  ASSUME NEW s \in Seq(Nat), NEW x \in Nat
  PROVE  /\ Sum(s) \in Nat /\ SquaredDeviations(s) \in Int
         /\ Sum(Append(s, x)) = Sum(s) + x
         /\ SquaredDeviations(Append(s, x)) \in Int
         /\ Len(s) * SquaredDeviations(Append(s, x))
              = ((Len(s) + 1) * SquaredDeviations(s))
                  + (((Len(s) * x) - Sum(s)) * ((Len(s) * x) - Sum(s)))
<1>1. s \in Seq(Int) /\ x \in Int /\ x * x \in Int /\ Len(s) \in Nat
  OBVIOUS
<1>2. Sum(s) \in Nat /\ Sum(Append(s, x)) = Sum(s) + x
  BY <1>1, SumAppend, SumOfNaturals
<1>3. Len(Append(s, x)) = Len(s) + 1
  OBVIOUS
<1>4. PICK t \in Int : /\ Sum(Squares(s)) = t
                       /\ Sum(Squares(Append(s, x))) = t + (x * x)
  <2>1. /\ Squares(s) \in Seq(Int)
        /\ Squares(Append(s, x)) = Append(Squares(s), x * x)
    BY SquaresAppend
  <2>2. /\ Sum(Squares(s)) \in Int
        /\ Sum(Append(Squares(s), x * x)) = Sum(Squares(s)) + (x * x)
    BY <1>1, <2>1, SumAppend
  <2> QED
    BY <2>1, <2>2
<1>5. SquaredDeviations(s) = (Len(s) * t) - (Sum(s) * Sum(s))
  BY <1>4 DEF SquaredDeviations, Squares
<1>6. SquaredDeviations(Append(s, x))
        = ((Len(s) + 1) * (t + (x * x))) - ((Sum(s) + x) * (Sum(s) + x))
  BY <1>2, <1>3, <1>4 DEF SquaredDeviations, Squares
<1> DEFINE c == Len(s)
           m == Sum(s)
<1>7. c \in Int /\ m \in Int
  BY <1>1, <1>2
<1> HIDE DEF c, m
<1>8. /\ (c * t) - (m * m) \in Int
      /\ ((c + 1) * (t + (x * x))) - ((m + x) * (m + x)) \in Int
  BY <1>1, <1>7
<1>9. c * (((c + 1) * (t + (x * x))) - ((m + x) * (m + x)))
        = ((c + 1) * ((c * t) - (m * m))) + (((c * x) - m) * ((c * x) - m))
  BY <1>1, <1>7, SquaresAlgebra
<1> QED
  BY <1>2, <1>5, <1>6, <1>8, <1>9 DEF c, m

\* The mean with y in it is that of the results with y among them.
LEMMA MeanUpdate ==
  ASSUME rs.mean \in Proper, kept \in Seq(Nat), y \in Nat, n = Len(kept) + 1,
         kept # <<>> => rs.mean[1] * Len(kept) = rs.mean[2] * Sum(kept)
  PROVE  /\ MeanWith \in Proper
         /\ MeanWith[1] * n = MeanWith[2] * (Sum(kept) + y)
         /\ rs.mean[1] * Len(kept) = rs.mean[2] * Sum(kept)
<1>1. PICK a \in Nat, b \in Nat \ {0} : a = rs.mean[1] /\ b = rs.mean[2]
  BY DEF Proper
<1>2. PICK c \in Nat : c = Len(kept) /\ n = c + 1 /\ n - 1 = c
  OBVIOUS
<1>3. PICK m \in Nat : m = Sum(kept)
  BY DeviationsAppend
<1>4. a * c = b * m
  <2>1. CASE kept = <<>>
    <3>1. c = 0 /\ m = 0
      BY <1>2, <1>3, <2>1, SumEmpty
    <3> QED
      BY <3>1
  <2>2. CASE kept # <<>>
    BY <1>1, <1>2, <1>3, <2>2
  <2> QED
    BY <2>1, <2>2
<1> DEFINE num == (a * c) + (y * b)
           den == (c + 1) * b
<1>5. num \in Nat /\ den \in Nat \ {0}
  OBVIOUS
<1>6. MeanWith = Frac(num, den)
  BY <1>1, <1>2 DEF MeanWith
<1>7. MeanWith \in Proper /\ MeanWith[1] * den = MeanWith[2] * num
  <2> HIDE DEF num, den
  <2> QED
    BY <1>5, <1>6, FracValue DEF Proper
<1>8. MeanWith[1] \in Int /\ MeanWith[2] \in Int /\ m \in Int /\ y \in Int /\ a \in Int
  BY <1>7 DEF Proper
<1>9. EntersMean(MeanWith[1], MeanWith[2], a, b, c, m, y)
  BY <1>4, <1>7, <1>8 DEF EntersMean, MeanIs
<1>10. MeanWith[1] * (c + 1) = MeanWith[2] * (m + y)
  BY <1>9, MeanAlgebra DEF MeanIs
<1> QED
  BY <1>1, <1>2, <1>3, <1>4, <1>7, <1>10

\* The variance with y in it, from the third result on.
LEMMA VarianceUpdate ==
  ASSUME rs.mean \in Proper, rs.variance \in Proper, kept \in Seq(Nat), y \in Nat,
         n = Len(kept) + 1, n >= 3, j \in Nat, j > 2,
         rs.mean[1] * Len(kept) = rs.mean[2] * Sum(kept),
         VarianceOf(rs, kept),
         NEW mean \in Proper, mean[1] * n = mean[2] * (Sum(kept) + y),
         NEW r, r.variance = VarianceWith(mean)
  PROVE  r.variance \in Proper /\ VarianceOf(r, Append(kept, y))
<1>1. PICK a \in Nat, b \in Nat \ {0} : a = rs.mean[1] /\ b = rs.mean[2]
  BY DEF Proper
<1>2. PICK p \in Nat, q \in Nat \ {0} : p = mean[1] /\ q = mean[2]
  BY DEF Proper
<1>3. PICK v \in Nat, w \in Nat \ {0} : v = rs.variance[1] /\ w = rs.variance[2]
  BY DEF Proper
<1>4. PICK c \in Nat \ {0} : c = Len(kept) /\ c >= 2 /\ n = c + 1 /\ n - 1 = c /\ n - 2 = c - 1
  OBVIOUS
<1>5. PICK m \in Nat, sd \in Int, sdd \in Int, dif \in Int :
        /\ m = Sum(kept) /\ dif = (c * y) - m
        /\ sd = SquaredDeviations(kept) /\ sdd = SquaredDeviations(Append(kept, y))
        /\ c * sdd = ((c + 1) * sd) + (dif * dif)
  <2>1. /\ Sum(kept) \in Nat
        /\ SquaredDeviations(kept) \in Int
        /\ SquaredDeviations(Append(kept, y)) \in Int
        /\ Len(kept) * SquaredDeviations(Append(kept, y))
             = ((Len(kept) + 1) * SquaredDeviations(kept))
                 + (((Len(kept) * y) - Sum(kept)) * ((Len(kept) * y) - Sum(kept)))
    <3>1. kept \in Seq(Nat) /\ y \in Nat
      OBVIOUS
    <3> QED
      BY ONLY <3>1, DeviationsAppend
  <2>2. PICK m \in Nat, sd \in Int, sdd \in Int :
          /\ m = Sum(kept)
          /\ sd = SquaredDeviations(kept) /\ sdd = SquaredDeviations(Append(kept, y))
    BY <2>1
  <2>3. c * sdd = ((c + 1) * sd) + (((c * y) - m) * ((c * y) - m))
    BY <1>4, <2>1, <2>2
  <2>4. (c * y) - m \in Int
    OBVIOUS
  <2> QED
    BY <2>2, <2>3, <2>4
<1> DEFINE dev == ((y * q) - p) * ((y * b) - a)
           den == q * b
           num == (((c - 1) * v) * den) + (dev * w)
           div == (c * w) * den
<1>6. ((c + 1) * c) * dev = den * (dif * dif) /\ dev >= 0
  <2>1. a * c = b * m /\ p * (c + 1) = q * (m + y)
    BY <1>1, <1>2, <1>4, <1>5
  <2>2. m \in Int /\ y \in Int /\ a \in Int /\ p \in Int
    OBVIOUS
  <2>3. TwoMeans(p, q, a, b, c, m, y)
    BY <2>1, <2>2 DEF TwoMeans, MeanIs
  <2>4. /\ ((c + 1) * c) * (((y * q) - p) * ((y * b) - a))
             = (q * b) * (((c * y) - m) * ((c * y) - m))
        /\ ((y * q) - p) * ((y * b) - a) >= 0
    BY <2>3, DeviationAlgebra
  <2> QED
    BY <1>5, <2>4
<1>7. dev \in Int /\ den \in Nat \ {0}
  OBVIOUS
<1>8. r.variance = Frac(num, div)
  <2>1. ~(j <= 2)
    OBVIOUS
  <2>2. r.variance = VarianceWith(mean)
    OBVIOUS
  <2>3. r.variance =
          LET e == (y * mean[2] - mean[1]) * (y * rs.mean[2] - rs.mean[1])
              d == mean[2] * rs.mean[2]
          IN  Frac((n - 2) * rs.variance[1] * d + e * rs.variance[2],
                   (n - 1) * rs.variance[2] * d)
    BY <2>1, <2>2, Zenon DEF VarianceWith
  <2> QED
    BY <1>1, <1>2, <1>3, <1>4, <2>3, Zenon
<1>9. num \in Nat /\ div \in Nat \ {0}
  <2> HIDE DEF dev, den
  <2>1. ((c - 1) * v) * den >= 0 /\ ((c - 1) * v) * den \in Int
    <3>1. (c - 1) * v \in Nat
      BY <1>4
    <3> QED
      BY <1>7, <3>1
  <2>2. dev * w >= 0 /\ dev * w \in Int
    BY <1>6, <1>7
  <2>3. c * w \in Nat \ {0}
    OBVIOUS
  <2>4. (c * w) * den \in Nat \ {0}
    BY <1>7, <2>3
  <2> QED
    BY <2>1, <2>2, <2>4
<1> HIDE DEF dev, den
<1>10. r.variance \in Proper /\ r.variance[1] * div = r.variance[2] * num
  <2> HIDE DEF num, div
  <2>1. /\ Frac(num, div) \in Proper
        /\ Frac(num, div)[1] * div = Frac(num, div)[2] * num
    BY ONLY <1>9, FracValue DEF Proper
  <2> QED
    BY <1>8, <2>1, Zenon
<1>11. PICK two \in Int : two = SquaredDeviations(SubSeq(kept, 1, 2))
  <2>1. SubSeq(kept, 1, 2) \in Seq(Nat)
    BY <1>4
  <2> QED
    BY <2>1, DeviationsAppend
<1>12. SubSeq(Append(kept, y), 1, 2) = SubSeq(kept, 1, 2)
  BY <1>4
<1>13. (2 * (c * (c - 1))) * v = ((2 * sd) - (c * two)) * w
  <2>1. 2 * c * (c - 1) * v = ((2 * sd) - (c * two)) * w
    BY <1>3, <1>4, <1>5, <1>11 DEF VarianceOf
  <2>2. 2 * c * (c - 1) * v = (2 * (c * (c - 1))) * v
    OBVIOUS
  <2> QED
    BY <2>1, <2>2
<1>14. (2 * ((c + 1) * c)) * r.variance[1] = ((2 * sdd) - ((c + 1) * two)) * r.variance[2]
  <2>1. r.variance[1] \in Int /\ r.variance[2] \in Int /\ dif * dif \in Int
    BY <1>10 DEF Proper
  <2>2. EntersVariance(r.variance[1], r.variance[2], v, w, c, den, dev, dif * dif, sd, sdd, two)
    BY <1>5, <1>6, <1>7, <1>10, <1>13, <2>1 DEF EntersVariance
  <2> QED
    BY <2>2, VarianceAlgebra
<1>15. Len(Append(kept, y)) = c + 1 /\ (c + 1) - 1 = c /\ ~(c + 1 < 2)
  BY <1>4
<1>16. 2 * (c + 1) * c * r.variance[1] = (2 * ((c + 1) * c)) * r.variance[1]
  <2>1. r.variance[1] \in Int
    BY <1>10 DEF Proper
  <2> QED
    BY <2>1
<1>17. VarianceOf(r, Append(kept, y))
  BY <1>5, <1>11, <1>12, <1>14, <1>15, <1>16 DEF VarianceOf
<1> QED
  BY <1>10, <1>17

\* The variance before there are three results.
LEMMA VarianceStart ==
  ASSUME NEW r, r.variance \in Proper, r.variance[1] = 0,
         NEW s \in Seq(Nat), Len(s) <= 2
  PROVE  VarianceOf(r, s)
<1>1. CASE Len(s) < 2
  BY <1>1 DEF VarianceOf
<1>2. CASE Len(s) = 2
  <2>1. SubSeq(s, 1, 2) = s
    BY <1>2
  <2>2. PICK d \in Int : d = SquaredDeviations(s)
    BY DeviationsAppend
  <2>3. PICK w \in Nat : w = r.variance[2]
    BY DEF Proper
  <2>4. 2 * 2 * (2 - 1) * 0 = ((2 * d) - (2 * d)) * w /\ ~(2 < 2)
    OBVIOUS
  <2> QED
    BY <1>2, <2>1, <2>2, <2>3, <2>4, Zenon DEF VarianceOf
<1> QED
  <2>1. PICK c \in Nat : c = Len(s) /\ c <= 2
    OBVIOUS
  <2>2. c < 2 \/ c = 2
    BY <2>1
  <2> QED
    BY <1>1, <1>2, <2>1, <2>2, Zenon

LEMMA CoeffRange ==
  ASSUME NEW r, r.mean \in Proper, r.variance \in Proper
  PROVE  CoeffVariance(r) \in Fractions
<1>1. PICK a \in Nat, b \in Nat \ {0} : a = r.mean[1] /\ b = r.mean[2]
  BY DEF Proper
<1>2. PICK v \in Nat, w \in Nat \ {0} : v = r.variance[1] /\ w = r.variance[2]
  BY DEF Proper
<1>3. CASE a = 0
  BY <1>1, <1>3 DEF CoeffVariance, NaN, Fractions
<1>4. CASE a # 0
  <2> DEFINE num == v * b * b
             div == w * a * a
  <2>1. CoeffVariance(r) = Frac(num, div)
    BY <1>1, <1>2, <1>4, Zenon DEF CoeffVariance
  <2>2. num \in Nat /\ div \in Nat \ {0}
    <3>1. v * b \in Nat /\ w * a \in Nat \ {0}
      BY <1>4
    <3> QED
      BY <1>4, <3>1
  <2> HIDE DEF num, div
  <2>3. Frac(num, div) \in Nat \X (Nat \ {0})
    BY ONLY <2>2, FracValue
  <2> QED
    BY <2>1, <2>3 DEF Fractions
<1> QED
  BY <1>3, <1>4

\* The statistics with y in them are those of the results with y among them.
LEMMA StatsUpdate ==
  ASSUME IInv, phase = "stats"
  PROVE  StatsOf(Updated, Append(kept, y))
<1>1. /\ kept \in Seq(Nat) /\ y \in Nat /\ j \in Nat \ {0} /\ n \in Nat
      /\ n = Len(kept) + 1
      /\ IF j <= 2 THEN n = j ELSE n >= 3
  BY DEF IInv, Types, Ranges, ResultsCounted, FirstTwoKept, InParam, InSeries
<1>2. /\ rs \in Stats /\ rs.mean \in Proper /\ rs.variance \in Proper
      /\ kept # <<>> => rs.mean[1] * Len(kept) = rs.mean[2] * Sum(kept)
      /\ VarianceOf(rs, kept)
  BY DEF IInv, StatsOf
<1> DEFINE mean == MeanWith
           variance == VarianceWith(mean)
           s == [mean |-> mean, variance |-> variance, coeff |-> rs.coeff, k |-> rs.k]
<1>3. Updated = IF j > 2 THEN [s EXCEPT !.coeff = CoeffVariance(s)] ELSE s
  BY DEF Updated
<1>4. /\ mean \in Proper
      /\ mean[1] * n = mean[2] * (Sum(kept) + y)
      /\ rs.mean[1] * Len(kept) = rs.mean[2] * Sum(kept)
  BY <1>1, <1>2, MeanUpdate
<1>5. /\ variance \in Proper
      /\ \A r : r.variance = variance => VarianceOf(r, Append(kept, y))
  <2>1. CASE j > 2
    <3>1. n >= 3
      BY <1>1, <2>1
    <3> HIDE DEF mean
    <3>2. ASSUME NEW r, r.variance = variance
          PROVE  r.variance \in Proper /\ VarianceOf(r, Append(kept, y))
      BY <1>1, <1>2, <1>4, <2>1, <3>1, <3>2, VarianceUpdate
    <3> HIDE DEF variance
    <3>3. s.variance = variance
      OBVIOUS
    <3> QED
      BY <3>2, <3>3
  <2>2. CASE ~(j > 2)
    <3>1. Len(kept) < 2 /\ Append(kept, y) \in Seq(Nat) /\ Len(Append(kept, y)) <= 2
      BY <1>1, <2>2
    <3>2. variance = rs.variance
      BY <1>1, <2>2 DEF VarianceWith
    <3>3. rs.variance[1] = 0
      BY <1>2, <3>1 DEF VarianceOf
    <3>4. variance \in Proper /\ variance[1] = 0
      BY <1>2, <3>2, <3>3
    <3> HIDE DEF variance
    <3> QED
      BY <3>1, <3>4, VarianceStart
  <2> QED
    BY <2>1, <2>2
<1> HIDE DEF mean, variance
<1>6. s.mean = mean /\ s.variance = variance
  OBVIOUS
<1>7. CoeffVariance(s) \in Fractions /\ rs.coeff \in Fractions /\ rs.k \in Nat
  <2> HIDE DEF s
  <2> QED
    BY <1>2, <1>4, <1>5, <1>6, CoeffRange DEF Stats
<1>8. PICK d \in Fractions :
        Updated = [mean |-> mean, variance |-> variance, coeff |-> d, k |-> rs.k]
  <2>1. ASSUME NEW d
        PROVE  [s EXCEPT !.coeff = d]
                 = [mean |-> mean, variance |-> variance, coeff |-> d, k |-> rs.k]
    OBVIOUS
  <2>2. [s EXCEPT !.coeff = CoeffVariance(s)]
          = [mean |-> mean, variance |-> variance, coeff |-> CoeffVariance(s), k |-> rs.k]
    BY <2>1
  <2> QED
    BY <1>3, <1>7, <2>2, Zenon
<1>9. Updated \in Stats /\ Updated.mean = mean /\ Updated.variance = variance
  BY <1>4, <1>5, <1>7, <1>8 DEF Stats, Fractions, Proper
<1>10. Len(Append(kept, y)) = n /\ Sum(Append(kept, y)) = Sum(kept) + y
  BY <1>1, DeviationsAppend
<1> QED
  BY <1>4, <1>5, <1>9, <1>10, Zenon DEF StatsOf

\* Of no results, the statistics are the defaults.
LEMMA DefaultRight == StatsOf(Default, <<>>)
<1>1. /\ Default.mean = <<0, 1>> /\ Default.variance = <<0, 1>>
      /\ Default.coeff = <<0, 1>> /\ Default.k = StartingK
  BY DEF Default
<1>2. Default \in Stats
  BY Counts DEF Default, Stats, Fractions
<1>3. VarianceOf(Default, <<>>)
  BY <1>1 DEF VarianceOf
<1> QED
  BY <1>1, <1>2, <1>3 DEF StatsOf, Proper

\* rs->k = n.
LEMMA StatsWithK ==
  ASSUME NEW r, NEW s, StatsOf(r, s), NEW m \in Nat
  PROVE  StatsOf([r EXCEPT !.k = m], s)
<1>1. r \in Stats
  BY DEF StatsOf
<1> DEFINE u == [r EXCEPT !.k = m]
<1>2. u \in Stats /\ u.mean = r.mean /\ u.variance = r.variance
  BY <1>1 DEF Stats
<1> HIDE DEF u
<1> QED
  BY <1>2, Zenon DEF StatsOf, VarianceOf, u

--------------------------------------------------------------------------
(* The steps. *)

LEMMA InitRight == Init => IInv
<1> SUFFICES ASSUME Init PROVE IInv
  OBVIOUS
<1>1. Types
  BY DEF Init, Types
<1>2. Position
  BY ParamsFacts DEF Init, Position, InParam, InSeries
<1>3. ServicesKnown /\ ResultsCounted /\ KCountsResults /\ FirstTwoKept
  BY DEF Init, ServicesKnown, ResultsCounted, KCountsResults, FirstTwoKept, InParam, InSeries
<1>4. Ranges
  <2>1. 0 \in 0 .. Len(Params) /\ 0 \in 0 .. IgnoreCount /\ 1 \in 1 .. MaxK + 1
    BY ParamsFacts, ParamAssumption
  <2>2. [i \in {1, 2} |-> <<>>] \in [{1, 2} -> Seq(Nat)]
    OBVIOUS
  <2> QED
    BY <2>1, <2>2 DEF Init, Ranges
<1>5. StatsOf(rs, kept)
  BY DefaultRight DEF Init
<1> QED
  BY <1>1, <1>2, <1>3, <1>4, <1>5 DEF IInv

LEMMA ProgramStays == [Next]_vars => program' = program
  BY DEF Next, vars, create_services, next_param, pretest_run, start_series,
         client_failed, iterate, compare, update_stats, log_data, merge_data

LEMMA TypeStep == IInv /\ [Next]_vars => Types'
<1> SUFFICES ASSUME IInv, [Next]_vars PROVE Types'
  OBVIOUS
<1>0. Types
  BY DEF IInv
<1> USE DEF Types, InParam, InSeries
<1>1. CASE create_services
  BY <1>0, <1>1 DEF create_services, loopVars, runVars
<1>2. CASE next_param
  BY <1>0, <1>2 DEF next_param
<1>3. CASE pretest_run
  BY <1>0, <1>3 DEF pretest_run, runVars
<1>4. CASE start_series
  BY <1>0, <1>4 DEF start_series, loopVars
<1>5. CASE client_failed
  BY <1>0, <1>5 DEF client_failed, loopVars, runVars
<1>6. ASSUME NEW v \in Y, iterate(v) PROVE Types'
  BY <1>0, <1>6, Counts DEF iterate, loopVars
<1>7. CASE compare
  BY <1>0, <1>7 DEF compare, loopVars, runVars
<1>8. CASE update_stats
  <2>1. kept' \in Seq(Nat)
    BY <1>0, <1>8 DEF update_stats
  <2>2. n' \in Nat /\ j' \in Nat
    <3>1. n >= 1
      BY <1>0, <1>8 DEF IInv, ResultsCounted, update_stats
    <3> QED
      BY <1>0, <1>8, <3>1 DEF update_stats, StoppedAt, WithoutIt
  <2>3. phase' \in {"log", "iterate"}
    BY <1>8 DEF update_stats
  <2> QED
    BY <1>0, <1>8, <2>1, <2>2, <2>3 DEF update_stats, loopVars
<1>9. CASE log_data
  <2>1. /\ program' = program /\ given' = given /\ l' = l /\ y' = y /\ j' = j /\ n' = n
        /\ ksm' \in {ksm, 2} /\ kept' \in {kept, <<>>}
        /\ phase' \in {"pretest", "merge", "param"}
    BY <1>9 DEF log_data
  <2>2. kept' \in Seq(Nat)
    <3>1. kept' = kept \/ kept' = <<>>
      BY <2>1
    <3>2. kept \in Seq(Nat) /\ <<>> \in Seq(Nat)
      BY <1>0
    <3> QED
      BY <3>1, <3>2
  <2> HIDE DEF Types
  <2>3. ksm' \in {1, 2} /\ Types
    BY <1>0, <2>1 DEF Types
  <2> QED
    BY <2>1, <2>2, <2>3 DEF Types
<1>10. CASE merge_data
  BY <1>0, <1>10 DEF merge_data, loopVars, runVars
<1>11. CASE UNCHANGED vars
  BY <1>0, <1>11 DEF vars, loopVars, runVars
<1> QED
  BY <1>1, <1>2, <1>3, <1>4, <1>5, <1>6, <1>7, <1>8, <1>9, <1>10, <1>11 DEF Next

\* What the scripts make of the services, whatever they leave out.
LEMMA CreateScript ==
  ASSUME services \subseteq Nat, skipped \subseteq Nat, services \subseteq skipped,
         NEW count \in Nat, create_service(count)
  PROVE  UpTo(count)' /\ services' \subseteq Nat /\ skipped' \subseteq Nat
<1>1. PICK done \in SUBSET (1 .. count) :
        /\ services' = services \cup done
        /\ skipped' = (skipped \ 1 .. count) \cup (1 .. count \ done)
  BY DEF create_service, Skips
<1>2. 1 .. count \subseteq Nat
  OBVIOUS
<1> QED
  BY <1>1, <1>2 DEF UpTo

LEMMA DeleteScript ==
  ASSUME services \subseteq Nat, skipped \subseteq Nat,
         NEW count \in Nat, UpTo(count), delete_service(count)
  PROVE  services' \subseteq skipped' /\ services' \subseteq Nat /\ skipped' \subseteq Nat
<1>1. PICK done \in SUBSET (1 .. count) :
        /\ services' = services \ done
        /\ skipped' = (skipped \ 1 .. count) \cup (1 .. count \ done)
  BY DEF delete_service, Skips
<1>2. 1 .. count \subseteq Nat
  OBVIOUS
<1> QED
  BY <1>1, <1>2 DEF UpTo

LEMMA PlaceStep == IInv /\ [Next]_vars => (Position /\ ServicesKnown)'
<1> SUFFICES ASSUME IInv, [Next]_vars PROVE (Position /\ ServicesKnown)'
  OBVIOUS
<1>0. Types /\ Position /\ ServicesKnown
  BY DEF IInv
<1>a. program' = program /\ Params' = Params
  BY ProgramStays DEF Params
<1>b. Len(Params) \in Nat \ {0}
  BY ParamsFacts
<1> USE DEF InParam, InSeries
<1>c. phase \in InParam => group_count \in Nat
  BY <1>0, Counts, ParamsFacts DEF Position, group_count
<1>1. CASE create_services
  <2>1. /\ phase = "setup" /\ phase' = "param" /\ l' = l
        /\ IF program = "test2" THEN UNCHANGED groupVars ELSE create_service(GroupCount)
    BY <1>1 DEF create_services, loopVars
  <2>2. /\ services' \subseteq Nat /\ skipped' \subseteq Nat
        /\ IF program = "test2" THEN services' \subseteq skipped' ELSE UpTo(GroupCount)'
    BY <1>0, <2>1, Counts, CreateScript DEF ServicesKnown, groupVars
  <2> QED
    BY <1>0, <1>a, <2>1, <2>2 DEF Position, ServicesKnown, UpTo
<1>2. CASE next_param
  <2>1. phase = "param" /\ l' = l + 1 /\ phase' = "pretest"
    BY <1>2 DEF next_param
  <2>2. l' \in 1 .. Len(Params)
    BY <1>0, <1>b, <2>1 DEF Position, Types
  <2>3. UpTo(group_count)' /\ services' \subseteq Nat /\ skipped' \subseteq Nat
    <3>1. CASE program = "test2"
      <4>1. /\ create_service(Params[l']) /\ Params[l'] \in Nat
            /\ group_count' = Params[l']
        BY <1>2, <1>a, <2>2, <3>1, ParamsFacts DEF next_param, group_count
      <4>2. PICK c \in Nat : c = Params[l']
        BY <4>1
      <4>3. create_service(c) /\ group_count' = c
        BY <4>1, <4>2
      <4>4. UpTo(c)' /\ services' \subseteq Nat /\ skipped' \subseteq Nat
        BY <1>0, <2>1, <3>1, <4>3, CreateScript DEF ServicesKnown
      <4> QED
        BY <4>3, <4>4 DEF UpTo
    <3>2. CASE program # "test2"
      <4>1. services' = services /\ skipped' = skipped /\ group_count' = GroupCount
        BY <1>2, <1>a, <3>2 DEF next_param, groupVars, group_count
      <4> QED
        BY <1>0, <2>1, <3>2, <4>1 DEF ServicesKnown, UpTo
    <3> QED
      BY <3>1, <3>2
  <2> QED
    BY <1>a, <2>1, <2>2, <2>3 DEF Position, ServicesKnown, UpTo
<1>3. ASSUME phase \in InParam, phase' \in InParam, l' = l,
             services' = services, skipped' = skipped
      PROVE  (Position /\ ServicesKnown)'
  <2>1. group_count' = group_count
    BY <1>3, <1>a DEF group_count
  <2> QED
    BY <1>0, <1>3, <1>a, <2>1 DEF Position, ServicesKnown, UpTo
<1>4. CASE pretest_run
  BY <1>3, <1>4 DEF pretest_run, groupVars
<1>5. CASE start_series
  BY <1>3, <1>5 DEF start_series, loopVars, groupVars
<1>6. CASE client_failed
  <2>1. /\ phase \in InParam /\ phase' = "failed" /\ delete_service(group_count)
    BY <1>6 DEF client_failed
  <2>2. UpTo(group_count) /\ services \subseteq Nat /\ skipped \subseteq Nat
    BY <1>0, <2>1 DEF ServicesKnown
  <2>3. services' \subseteq skipped' /\ services' \subseteq Nat /\ skipped' \subseteq Nat
    BY <1>c, <2>1, <2>2, DeleteScript
  <2> QED
    BY <2>1, <2>3 DEF Position, ServicesKnown
<1>7. ASSUME NEW v \in Y, iterate(v) PROVE (Position /\ ServicesKnown)'
  BY <1>3, <1>7 DEF iterate, loopVars, groupVars
<1>8. CASE compare
  BY <1>3, <1>8 DEF compare, loopVars, groupVars
<1>9. CASE update_stats
  <2>1. /\ phase = "stats" /\ phase' \in {"log", "iterate"} /\ l' = l
        /\ services' = services /\ skipped' = skipped
    BY <1>9 DEF update_stats, loopVars, groupVars
  <2> QED
    BY <1>3, <2>1
<1>10. CASE log_data
  <2>1. CASE ksm = 1
    BY <1>3, <1>10, <2>1, <1>0 DEF log_data, groupVars
  <2>2. CASE ksm = 2
    <3>1. /\ l' = l /\ phase = "log"
          /\ phase' = (IF LastParam THEN "merge" ELSE "param")
          /\ IF program = "test2" THEN delete_service(group_count) ELSE UNCHANGED groupVars
      BY <1>10, <2>2 DEF log_data
    <3>2. /\ services' \subseteq Nat /\ skipped' \subseteq Nat
          /\ IF program = "test2" THEN services' \subseteq skipped' ELSE UpTo(GroupCount)'
      <4>1. UpTo(group_count) /\ services \subseteq Nat /\ skipped \subseteq Nat
        BY <1>0, <3>1 DEF ServicesKnown
      <4>2. CASE program = "test2"
        BY <1>c, <3>1, <4>1, <4>2, DeleteScript
      <4>3. CASE program # "test2"
        BY <3>1, <4>1, <4>3 DEF groupVars, group_count, UpTo
      <4> QED
        BY <4>2, <4>3
    <3>3. ~LastParam => l < Len(Params)
      BY <1>0, <1>b, <3>1 DEF LastParam, Position, Types
    <3> QED
      BY <1>a, <3>1, <3>2, <3>3 DEF Position, ServicesKnown, UpTo
  <2> QED
    BY <1>0, <2>1, <2>2 DEF Types
<1>11. CASE merge_data
  <2>1. /\ phase = "merge" /\ phase' = "done"
        /\ IF program = "test2" THEN UNCHANGED groupVars ELSE delete_service(GroupCount)
    BY <1>11 DEF merge_data
  <2>2. services' \subseteq skipped' /\ services' \subseteq Nat /\ skipped' \subseteq Nat
    BY <1>0, <2>1, Counts, DeleteScript DEF ServicesKnown, groupVars
  <2> QED
    BY <2>1, <2>2 DEF Position, ServicesKnown
<1>12. CASE UNCHANGED vars
  <2>1. /\ phase' = phase /\ l' = l /\ group_count' = group_count
        /\ services' = services /\ skipped' = skipped
    BY <1>12, <1>a DEF vars, loopVars, groupVars, group_count
  <2> QED
    BY <1>0, <1>a, <2>1 DEF Position, ServicesKnown, UpTo
<1> QED
  BY <1>1, <1>2, <1>4, <1>5, <1>6, <1>7, <1>8, <1>9, <1>10, <1>11, <1>12 DEF Next

LEMMA ResultsStep == IInv /\ [Next]_vars => (ResultsCounted /\ KCountsResults)'
<1> SUFFICES ASSUME IInv, [Next]_vars PROVE (ResultsCounted /\ KCountsResults)'
  OBVIOUS
<1>0. Types /\ ResultsCounted /\ KCountsResults
  BY DEF IInv
<1> USE DEF InParam, InSeries
<1>a. ASSUME phase' \notin InParam PROVE (ResultsCounted /\ KCountsResults)'
  BY <1>a DEF ResultsCounted, KCountsResults
<1>b. ASSUME phase' = "pretest", rs' = Default, kept' = <<>>
      PROVE  (ResultsCounted /\ KCountsResults)'
  BY <1>b DEF ResultsCounted, KCountsResults, Default
<1>c. ASSUME phase \in InSeries, phase' \in InSeries,
             rs' = rs, kept' = kept, n' = n, j' = j
      PROVE  (ResultsCounted /\ KCountsResults)'
  BY <1>0, <1>c DEF ResultsCounted, KCountsResults
<1>1. CASE create_services
  BY <1>1, <1>a DEF create_services
<1>2. CASE next_param
  BY <1>2, <1>b DEF next_param, set_default_running_stats
<1>3. CASE pretest_run
  BY <1>0, <1>3 DEF pretest_run, runVars, ResultsCounted, KCountsResults
<1>4. CASE start_series
  BY <1>0, <1>4, Counts DEF start_series, ResultsCounted, KCountsResults
<1>5. CASE client_failed
  BY <1>5, <1>a DEF client_failed
<1>6. ASSUME NEW v \in Y, iterate(v) PROVE (ResultsCounted /\ KCountsResults)'
  BY <1>6, <1>c DEF iterate
<1>7. CASE compare
  BY <1>7, <1>c DEF compare, runVars
<1>8. CASE update_stats
  <2> DEFINE stats == IF Unsteadier THEN rs ELSE Updated
             count == IF Unsteadier THEN WithoutIt ELSE n
             stop  == j >= StartingK /\ Less(stats.coeff, CoeffTarget)
  <2>1. /\ kept' = (IF Unsteadier THEN kept ELSE Append(kept, y))
        /\ rs' = (IF stop THEN [stats EXCEPT !.k = count] ELSE stats)
        /\ j' = (IF stop THEN j ELSE j + 1)
        /\ n' = (IF stop THEN count ELSE count + 1)
        /\ phase' = (IF stop \/ SeriesOver(j') THEN "log" ELSE "iterate")
        /\ phase = "stats"
    BY <1>8 DEF update_stats, StoppedAt
  <2>2. /\ n = Len(kept) + 1 /\ j <= MaxK /\ rs.k = StartingK
        /\ rs = [mean |-> rs.mean, variance |-> rs.variance, coeff |-> rs.coeff, k |-> rs.k]
        /\ kept \in Seq(Nat) /\ y \in Nat /\ j \in Nat
    BY <1>0, <2>1 DEF ResultsCounted, Types
  <2>3. /\ stats = [mean |-> stats.mean, variance |-> stats.variance,
                    coeff |-> stats.coeff, k |-> stats.k]
        /\ stats.k = StartingK
    BY <2>2, UpdatedForm
  <2>4. count = Len(kept') /\ Len(kept') \in Nat
    BY <2>1, <2>2 DEF WithoutIt
  <2> HIDE DEF stats, count, stop
  <2>5. CASE stop
    <3>1. phase' = "log" /\ j' = j /\ rs' = [stats EXCEPT !.k = count]
      BY <2>1, <2>5
    <3>2. rs' = [mean |-> stats.mean, variance |-> stats.variance,
                 coeff |-> stats.coeff, k |-> count]
      BY <2>3, <3>1
    <3> QED
      BY <2>2, <2>4, <3>1, <3>2 DEF ResultsCounted, KCountsResults
  <2>6. CASE ~stop
    <3>1. /\ rs' = stats /\ j' = j + 1 /\ n' = Len(kept') + 1
          /\ phase' = (IF j' > MaxK THEN "log" ELSE "iterate")
      BY <2>1, <2>4, <2>6 DEF SeriesOver
    <3>2. rs'.k = StartingK /\ rs' = [mean |-> rs'.mean, variance |-> rs'.variance,
                                      coeff |-> rs'.coeff, k |-> rs'.k]
      BY <2>3, <3>1
    <3>3. CASE j' > MaxK
      BY <2>2, <3>1, <3>2, <3>3, Counts DEF ResultsCounted, KCountsResults
    <3>4. CASE j' <= MaxK
      BY <2>2, <3>1, <3>2, <3>4, Counts DEF ResultsCounted, KCountsResults
    <3> QED
      BY <2>2, <3>1, <3>3, <3>4, Counts
  <2> QED
    BY <2>5, <2>6
<1>9. CASE log_data
  <2>1. CASE ksm = 1
    BY <1>9, <1>b, <2>1 DEF log_data, DefaultStats, set_default_running_stats
  <2>2. CASE ksm = 2
    BY <1>9, <1>a, <2>2 DEF log_data
  <2> QED
    BY <1>0, <2>1, <2>2 DEF Types
<1>10. CASE merge_data
  BY <1>10, <1>a DEF merge_data
<1>11. CASE UNCHANGED vars
  BY <1>0, <1>11 DEF vars, loopVars, runVars, ResultsCounted, KCountsResults
<1> QED
  BY <1>1, <1>2, <1>3, <1>4, <1>5, <1>6, <1>7, <1>8, <1>9, <1>10, <1>11 DEF Next

LEMMA RangesStep == IInv /\ [Next]_vars => Ranges'
<1> SUFFICES ASSUME IInv, [Next]_vars PROVE Ranges'
  OBVIOUS
<1>0. Types /\ Position /\ Ranges
  BY DEF IInv
<1>a. /\ Params' = Params /\ Len(Params) \in Nat \ {0}
      /\ IgnoreCount \in Nat /\ MaxK \in Nat \ {0} /\ Y \subseteq Nat
  BY ProgramStays, ParamsFacts, ParamAssumption DEF Params
<1>1. CASE create_services
  BY <1>0, <1>1, <1>a DEF create_services, loopVars, runVars, Ranges
<1>2. CASE next_param
  BY <1>0, <1>2, <1>a DEF next_param, Position, Ranges
<1>3. CASE pretest_run
  BY <1>0, <1>3, <1>a DEF pretest_run, runVars, Ranges
<1>4. CASE start_series
  BY <1>0, <1>4, <1>a DEF start_series, loopVars, Ranges
<1>5. CASE client_failed
  BY <1>0, <1>5, <1>a DEF client_failed, loopVars, runVars, Ranges
<1>6. ASSUME NEW v \in Y, iterate(v) PROVE Ranges'
  BY <1>0, <1>6, <1>a DEF iterate, loopVars, Ranges
<1>7. CASE compare
  BY <1>0, <1>7, <1>a DEF compare, loopVars, runVars, Ranges
<1>8. CASE update_stats
  <2>1. /\ n \in Nat /\ j \in Nat \ {0} /\ j <= MaxK /\ n <= j /\ y \in Nat
        /\ Unsteadier => n >= 3
    BY <1>0, <1>8 DEF IInv, update_stats, Types, Ranges, ResultsCounted, FirstTwoKept,
                      InSeries, Unsteadier
  <2>2. n \in Nat \ {0}
    BY <1>0 DEF Ranges
  <2>3. j' \in {j, j + 1} /\ n' \in {n, n + 1, n - 1, (n - 1) + 1}
    BY <1>8 DEF update_stats, StoppedAt, WithoutIt
  <2>4. n' = n - 1 => n >= 3
    BY <1>8, <2>1, <2>2 DEF update_stats, StoppedAt, WithoutIt
  <2>5. j' \in 1 .. MaxK + 1 /\ n' \in 1 .. MaxK + 1
    BY <1>a, <2>1, <2>2, <2>3, <2>4
  <2>6. l' = l /\ pre' = pre /\ prev_y' = y /\ rows' = rows
    BY <1>8 DEF update_stats, loopVars
  <2> QED
    BY <1>0, <1>a, <2>1, <2>5, <2>6 DEF Ranges
<1>9. CASE log_data
  <2>1. /\ l' = l /\ pre' \in {0, pre} /\ prev_y' = prev_y /\ j' = j /\ n' = n
        /\ rows' = [rows EXCEPT ![ksm] = Append(@, Params[l])]
    BY <1>9 DEF log_data
  <2>2. Params[l] \in Nat /\ ksm \in {1, 2}
    BY <1>0, <1>9, ParamsFacts DEF log_data, Position, Types, InParam
  <2>3. rows' \in [{1, 2} -> Seq(Nat)]
    BY <1>0, <2>1, <2>2 DEF Ranges
  <2> QED
    BY <1>0, <1>a, <2>1, <2>3 DEF Ranges
<1>10. CASE merge_data
  BY <1>0, <1>10, <1>a DEF merge_data, loopVars, runVars, Ranges
<1>11. CASE UNCHANGED vars
  BY <1>0, <1>11, <1>a DEF vars, loopVars, runVars, Ranges
<1> QED
  BY <1>1, <1>2, <1>3, <1>4, <1>5, <1>6, <1>7, <1>8, <1>9, <1>10, <1>11 DEF Next

\* The statistics stay those of the results kept: a round computes them anew
\* or puts the old ones back.
LEMMA StatsStep == IInv /\ [Next]_vars => StatsOf(rs', kept')
<1> SUFFICES ASSUME IInv, [Next]_vars PROVE StatsOf(rs', kept')
  OBVIOUS
<1>0. StatsOf(rs, kept) /\ Types /\ ResultsCounted
  BY DEF IInv
<1>a. ASSUME rs' = rs, kept' = kept PROVE StatsOf(rs', kept')
  BY <1>0, <1>a
<1>b. ASSUME rs' = Default, kept' = <<>> PROVE StatsOf(rs', kept')
  BY <1>b, DefaultRight
<1>1. CASE create_services
  BY <1>1, <1>a DEF create_services, runVars
<1>2. CASE next_param
  BY <1>2, <1>b DEF next_param, set_default_running_stats
<1>3. CASE pretest_run
  BY <1>3, <1>a DEF pretest_run, runVars
<1>4. CASE start_series
  BY <1>4, <1>a DEF start_series
<1>5. CASE client_failed
  BY <1>5, <1>a DEF client_failed, runVars
<1>6. ASSUME NEW v \in Y, iterate(v) PROVE StatsOf(rs', kept')
  BY <1>6, <1>a DEF iterate
<1>7. CASE compare
  BY <1>7, <1>a DEF compare, runVars
<1>8. CASE update_stats
  <2> DEFINE stats == IF Unsteadier THEN rs ELSE Updated
             count == IF Unsteadier THEN WithoutIt ELSE n
  <2>1. /\ kept' = (IF Unsteadier THEN kept ELSE Append(kept, y))
        /\ rs' \in {stats, [stats EXCEPT !.k = count]}
        /\ phase = "stats"
    BY <1>8 DEF update_stats, StoppedAt
  <2>2. StatsOf(stats, kept')
    <3>1. StatsOf(Updated, Append(kept, y))
      BY <2>1, StatsUpdate
    <3> QED
      BY <1>0, <2>1, <3>1
  <2>3. count \in Nat
    <3>1. n = Len(kept) + 1 /\ kept \in Seq(Nat)
      BY <1>0, <2>1 DEF Types, ResultsCounted, InSeries
    <3> QED
      BY <3>1 DEF WithoutIt
  <2> HIDE DEF stats, count
  <2> QED
    BY <2>1, <2>2, <2>3, StatsWithK
<1>9. CASE log_data
  BY <1>9, <1>a, <1>b DEF log_data, DefaultStats, set_default_running_stats
<1>10. CASE merge_data
  BY <1>10, <1>a DEF merge_data, runVars
<1>11. CASE UNCHANGED vars
  BY <1>11, <1>a DEF vars, runVars
<1> QED
  BY <1>1, <1>2, <1>3, <1>4, <1>5, <1>6, <1>7, <1>8, <1>9, <1>10, <1>11 DEF Next

LEMMA FirstTwoStep == IInv /\ [Next]_vars => FirstTwoKept'
<1> SUFFICES ASSUME IInv, [Next]_vars, phase' \in InSeries
             PROVE  (IF j <= 2 THEN n = j ELSE 3 <= n /\ n <= j)'
  BY DEF FirstTwoKept
<1>a. ASSUME phase \in InSeries, j' = j, n' = n
      PROVE  (IF j <= 2 THEN n = j ELSE 3 <= n /\ n <= j)'
  BY <1>a DEF IInv, FirstTwoKept
<1>1. CASE start_series
  BY <1>1 DEF start_series
<1>2. ASSUME NEW v \in Y, iterate(v)
      PROVE  (IF j <= 2 THEN n = j ELSE 3 <= n /\ n <= j)'
  BY <1>2, <1>a DEF iterate, InSeries
<1>3. CASE compare
  BY <1>3, <1>a DEF compare, runVars, InSeries
<1>4. CASE update_stats
  <2>1. /\ j \in Nat \ {0} /\ n \in Nat
        /\ IF j <= 2 THEN n = j ELSE 3 <= n /\ n <= j
    BY <1>4 DEF update_stats, IInv, Types, Ranges, FirstTwoKept, InSeries
  <2>2. phase' # "log"
    BY DEF InSeries
  <2>3. j' = j + 1 /\ n' = (IF Unsteadier THEN WithoutIt ELSE n) + 1
    BY <1>4, <2>2 DEF update_stats
  <2>4. Unsteadier => j > 2
    BY DEF Unsteadier
  <2> QED
    BY <2>1, <2>3, <2>4 DEF WithoutIt
<1>5. CASE UNCHANGED vars
  BY <1>5, <1>a DEF vars, runVars
<1> QED
  BY <1>1, <1>2, <1>3, <1>4, <1>5
     DEF Next, InSeries, create_services, next_param, pretest_run, client_failed,
         log_data, merge_data

--------------------------------------------------------------------------
\* The inductive invariant holds in every state of the mains.
THEOREM InductiveInvariant == Spec => []IInv
<1>1. IInv /\ [Next]_vars => IInv'
  <2> SUFFICES ASSUME IInv, [Next]_vars PROVE IInv'
    OBVIOUS
  <2>1. StatsOf(rs, kept)'
    BY StatsStep
  <2> QED
    BY TypeStep, PlaceStep, ResultsStep, RangesStep, FirstTwoStep, <2>1 DEF IInv
<1> QED
  BY <1>1, InitRight, PTL DEF Spec

\* Every group a client asks for has its service, through every value of the
\* parameter, and a program that comes to its end or gives up leaves none,
\* except for groups that a script left out when it was told of them.
THEOREM ServicesExplained == Spec => []ServicesMatchRequests
<1>1. IInv => ServicesMatchRequests
  <2> SUFFICES ASSUME IInv PROVE ServicesMatchRequests
    OBVIOUS
  <2>1. ASSUME phase \in {"pretest", "iterate"} PROVE Requested \ services \subseteq skipped
    <3>1. 1 .. group_count \subseteq services \cup skipped /\ l \in 1 .. Len(Params)
      BY <2>1 DEF IInv, ServicesKnown, UpTo, Position, InParam, InSeries
    <3>2. CASE program = "test4"
      <4>1. Params[l] = l /\ l <= GroupCount /\ l \in Int
        BY <3>1, <3>2, ParamsFacts
      <4>2. Requested = 1 .. l /\ group_count = GroupCount
        BY <3>2, <4>1 DEF Requested, group_count
      <4>3. 1 .. l \subseteq 1 .. GroupCount
        BY <4>1, Counts
      <4> QED
        BY <3>1, <4>2, <4>3
    <3> QED
      BY <3>1, <3>2 DEF Requested
  <2> QED
    BY <2>1 DEF IInv, ServicesKnown, ServicesMatchRequests
<1> QED
  BY <1>1, InductiveInvariant, PTL

\* The number logged beside a steady mean is that of the results in it.
THEOREM ResultsLogged == Spec => []KCountsResults
<1>1. IInv => KCountsResults
  BY DEF IInv
<1> QED
  BY <1>1, InductiveInvariant, PTL

\* Every variable of the mains has its type, whatever the iterations measure:
\* mean, variance and coefficient are never negative, no series makes more than
\* MaxK iterations, and the services are numbers.
THEOREM TypeCorrect == Spec => []TypeOK
<1>1. IInv => TypeOK
  <2> SUFFICES ASSUME IInv PROVE TypeOK
    OBVIOUS
  <2>1. {services, skipped} \subseteq SUBSET Nat
    BY DEF IInv, ServicesKnown
  <2>2. rs \in Stats
    BY DEF IInv, StatsOf
  <2> QED
    BY <2>1, <2>2 DEF IInv, Types, Ranges, TypeOK, InParam, InSeries
<1> QED
  BY <1>1, InductiveInvariant, PTL

\* The running mean of a series is the mean of the results that are kept, for
\* any number of iterations and through every sequence of results taken in and
\* taken out again.
THEOREM MeanRight == Spec => []MeanIsOfKept
<1>1. IInv => MeanIsOfKept
  BY DEF IInv, StatsOf, MeanIsOfKept
<1> QED
  BY <1>1, InductiveInvariant, PTL

\* The running variance of a series is that of the results that are kept, less
\* the spread of the first two, for any number of iterations.
THEOREM VarianceRight == Spec => []VarianceOfKept
<1>1. IInv => VarianceOfKept
  BY DEF IInv, StatsOf, VarianceOf, VarianceOfKept
<1> QED
  BY <1>1, InductiveInvariant, PTL
==========================================================================
