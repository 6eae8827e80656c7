-------------------------- MODULE Timing_proofs --------------------------
(***************************************************************************)
(* Proofs about the measurements, for every width of int and long and      *)
(* every unit of time with the relations of the real ones, for runs of any *)
(* length and a clock that is set by any amount.                           *)
(***************************************************************************)
EXTENDS Timing, TLAPS

--------------------------------------------------------------------------
(* Arithmetic. *)

\* Division with remainder.
LEMMA DivMod ==
  ASSUME NEW x \in Int, NEW d \in Nat \ {0}
  PROVE  /\ x \div d \in Int
         /\ x % d \in Int
         /\ 0 <= x % d
         /\ x % d < d
         /\ x = (d * (x \div d)) + (x % d)
  OBVIOUS

LEMMA TimesSum ==
  ASSUME NEW a \in Int, NEW b \in Int, NEW c \in Int
  PROVE  a * (b + c) = a * b + a * c
  OBVIOUS

LEMMA TimesTimes ==
  ASSUME NEW a \in Int, NEW b \in Int, NEW c \in Int
  PROVE  a * (b * c) = (a * b) * c
  OBVIOUS

LEMMA TimesLess ==
  ASSUME NEW a \in Int, NEW b \in Int, NEW d \in Nat \ {0}, d * a < d * b
  PROVE  a < b
  OBVIOUS

LEMMA TimesAtMost ==
  ASSUME NEW a \in Int, NEW b \in Int, NEW d \in Nat, a <= b
  PROVE  d * a <= d * b
  OBVIOUS

\* A conversion subtracts a multiple of the period and halves the range.
LEMMA WrapFacts ==
  ASSUME NEW x \in Int, NEW p \in Nat \ {0}
  PROVE  /\ Wrap(x, p) \in Int
         /\ -p <= 2 * Wrap(x, p) /\ 2 * Wrap(x, p) < p
         /\ \E k \in Int : Wrap(x, p) = x + p * k
<1>1. PICK q \in Int, r \in Int : r = x % p /\ x = p * q + r /\ 0 <= r /\ r < p
  BY DivMod
<1>2. Wrap(x, p) = IF 2 * r >= p THEN r - p ELSE r
  BY <1>1 DEF Wrap
<1>3. /\ p * (-q) + p * q = p * ((-q) + q)
      /\ p * (-(q + 1)) + p * (q + 1) = p * ((-(q + 1)) + (q + 1))
      /\ p * (q + 1) = p * q + p * 1
  BY <1>1, TimesSum
<1>4. r - p = x + p * (-(q + 1)) /\ r = x + p * (-q)
  BY <1>1, <1>3
<1>5. -(q + 1) \in Int /\ -q \in Int
  BY <1>1
<1>6. \E k \in Int : Wrap(x, p) = x + p * k
  BY <1>2, <1>4, <1>5
<1>7. Wrap(x, p) \in Int /\ -p <= 2 * Wrap(x, p) /\ 2 * Wrap(x, p) < p
  BY <1>1, <1>2
<1> QED
  BY <1>6, <1>7

\* What fits is not changed.
LEMMA WrapFits ==
  ASSUME NEW x \in Int, NEW p \in Nat \ {0}, -p <= 2 * x, 2 * x < p
  PROVE  Wrap(x, p) = x
<1>1. PICK k \in Int : Wrap(x, p) = x + p * k
  BY WrapFacts
<1>2. p * k < p * 1 /\ p * (-1) < p * k
  <2>1. -p <= 2 * Wrap(x, p) /\ 2 * Wrap(x, p) < p /\ Wrap(x, p) \in Int
    BY WrapFacts
  <2>2. p * k \in Int /\ p * 1 = p /\ p * (-1) = -p
    OBVIOUS
  <2> QED
    BY <1>1, <2>1, <2>2
<1>3. k = 0
  BY <1>2, TimesLess
<1> QED
  BY <1>1, <1>3

\* The constants, and half a period of long.
LEMMA Scale ==
  /\ NsPerMs \in Nat \ {0} /\ NsPerSec \in Nat \ {0}
  /\ IntPeriod \in Nat \ {0} /\ LongPeriod \in Nat \ {0}
  /\ MaxSample \in Nat /\ (MaxSample + 1) * NsPerMs < NsPerSec
  /\ NsPerMs <= (MaxSample + 1) * NsPerMs /\ (MaxSample + 1) * NsPerMs \in Nat
  /\ 2 * NsPerSec < IntPeriod /\ 4 * IntPeriod <= LongPeriod
  /\ LONG_MAX \in Nat /\ LongPeriod = 2 * (LONG_MAX + 1)
<1>1. /\ NsPerMs \in Nat \ {0} /\ NsPerSec \in Nat \ {0}
      /\ IntPeriod \in Nat \ {0} /\ LongPeriod \in Nat \ {0}
      /\ MaxSample \in Nat /\ (MaxSample + 1) * NsPerMs < NsPerSec
      /\ 2 * NsPerSec < IntPeriod /\ 4 * IntPeriod <= LongPeriod
  BY ScaleAssumption, LongAssumption
<1>2. (MaxSample + 1) * NsPerMs \in Nat /\ NsPerMs <= (MaxSample + 1) * NsPerMs
  <2>1. NsPerMs * 1 <= NsPerMs * (MaxSample + 1)
    BY <1>1, TimesAtMost
  <2> QED
    BY <1>1, <2>1
<1>3. PICK m \in Int : IntPeriod = 2 * m
  <2>1. IntPeriod % 2 = 0
    BY ScaleAssumption
  <2> QED
    BY <1>1, <2>1, DivMod
<1>4. PICK q \in Int : LongPeriod = IntPeriod * q
  <2>1. LongPeriod % IntPeriod = 0
    BY ScaleAssumption
  <2> QED
    BY <1>1, <2>1, DivMod
<1>5. LongPeriod = 2 * (m * q) /\ m * q \in Int
  BY <1>3, <1>4, TimesTimes
<1>6. LONG_MAX = m * q - 1
  <2>1. LongPeriod \div 2 = m * q
    BY <1>1, <1>5
  <2> QED
    BY <2>1 DEF LONG_MAX
<1> QED
  BY <1>1, <1>2, <1>5, <1>6

\* Division towards 0: what is in the range before and after.
LEMMA QuotientRange ==
  ASSUME NEW x \in Int
  PROVE  /\ Quotient(x, NsPerMs) \in Int
         /\ Quotient(x, NsPerMs) \in 0 .. MaxSample
              <=> -NsPerMs < x /\ x < (MaxSample + 1) * NsPerMs
<1> DEFINE q == x \div NsPerMs
           r == x % NsPerMs
           u == (-x) \div NsPerMs
           v == (-x) % NsPerMs
<1>1. /\ q \in Int /\ r \in Int /\ 0 <= r /\ r < NsPerMs /\ x = (NsPerMs * q) + r
      /\ u \in Int /\ v \in Int /\ 0 <= v /\ v < NsPerMs /\ -x = (NsPerMs * u) + v
  BY Scale, DivMod
<1>2. Quotient(x, NsPerMs) = IF x >= 0 THEN q ELSE -u
  BY DEF Quotient
<1> HIDE DEF q, r, u, v
<1>3. CASE x >= 0
  <2>1. q >= 0
    <3>1. NsPerMs * (-1) < NsPerMs * q
      BY <1>1, <1>3, Scale
    <3> QED
      BY <3>1, <1>1, Scale, TimesLess
  <2>2. ASSUME q <= MaxSample PROVE x < (MaxSample + 1) * NsPerMs
    <3>1. NsPerMs * q <= NsPerMs * MaxSample
      BY <1>1, <2>2, Scale, TimesAtMost
    <3>2. (MaxSample + 1) * NsPerMs = NsPerMs * MaxSample + NsPerMs
      BY Scale
    <3> QED
      BY <1>1, <3>1, <3>2, Scale
  <2>3. ASSUME x < (MaxSample + 1) * NsPerMs PROVE q <= MaxSample
    <3>1. NsPerMs * q < NsPerMs * (MaxSample + 1)
      BY <1>1, <2>3, Scale
    <3> QED
      BY <1>1, <3>1, Scale, TimesLess
  <2> QED
    BY <1>1, <1>2, <1>3, <2>1, <2>2, <2>3, Scale
<1>4. CASE x < 0
  <2>1. u >= 0
    <3>1. NsPerMs * (-1) < NsPerMs * u
      BY <1>1, <1>4, Scale
    <3> QED
      BY <3>1, <1>1, Scale, TimesLess
  <2>2. ASSUME u <= 0 PROVE -NsPerMs < x
    <3>1. u = 0
      BY <1>1, <2>1, <2>2
    <3> QED
      BY <1>1, <3>1, Scale
  <2>3. ASSUME -NsPerMs < x PROVE u <= 0
    <3>1. NsPerMs * u < NsPerMs * 1
      BY <1>1, <2>3, Scale
    <3> QED
      BY <1>1, <3>1, Scale, TimesLess
  <2> QED
    BY <1>1, <1>2, <1>4, <2>1, <2>2, <2>3, Scale
<1> QED
  BY <1>3, <1>4

\* A quotient is no larger than that of a larger number.
LEMMA QuotientBounds ==
  ASSUME NEW x \in Int, -LongPeriod <= 2 * x, 2 * x < LongPeriod
  PROVE  Quotient(x, NsPerMs)
           \in -((LONG_MAX + 1) \div NsPerMs) .. LONG_MAX \div NsPerMs
<1>1. ASSUME NEW a \in Int, NEW b \in Int, a <= b
      PROVE  /\ a \div NsPerMs \in Int /\ b \div NsPerMs \in Int
             /\ a \div NsPerMs <= b \div NsPerMs
  <2>1. PICK q \in Int, r \in Int :
          q = a \div NsPerMs /\ a = NsPerMs * q + r /\ 0 <= r /\ r < NsPerMs
    BY Scale, DivMod
  <2>2. PICK u \in Int, v \in Int :
          u = b \div NsPerMs /\ b = NsPerMs * u + v /\ 0 <= v /\ v < NsPerMs
    BY Scale, DivMod
  <2>3. NsPerMs * q < NsPerMs * (u + 1)
    <3>1. NsPerMs * (u + 1) = NsPerMs * u + NsPerMs * 1
      BY Scale, <2>2, TimesSum
    <3> QED
      BY <1>1, <2>1, <2>2, <3>1, Scale
  <2>4. q < u + 1
    BY <2>1, <2>2, <2>3, Scale, TimesLess
  <2> QED
    BY <2>1, <2>2, <2>4
<1>2. 0 \div NsPerMs = 0
  BY Scale
<1>3. CASE x >= 0
  <2>1. x <= LONG_MAX /\ 0 <= LONG_MAX + 1
    BY Scale
  <2>2. /\ x \div NsPerMs \in Int /\ 0 <= x \div NsPerMs
        /\ LONG_MAX \div NsPerMs \in Int /\ x \div NsPerMs <= LONG_MAX \div NsPerMs
        /\ (LONG_MAX + 1) \div NsPerMs \in Int /\ 0 <= (LONG_MAX + 1) \div NsPerMs
    BY <1>1, <1>2, <1>3, <2>1, Scale
  <2> QED
    BY <1>3, <2>2 DEF Quotient
<1>4. CASE x < 0
  <2>1. -x <= LONG_MAX + 1 /\ 0 <= LONG_MAX /\ 0 <= -x /\ -x \in Int
    BY <1>4, Scale
  <2>2. /\ (-x) \div NsPerMs \in Int /\ 0 <= (-x) \div NsPerMs
        /\ LONG_MAX \div NsPerMs \in Int /\ 0 <= LONG_MAX \div NsPerMs
        /\ (LONG_MAX + 1) \div NsPerMs \in Int
        /\ (-x) \div NsPerMs <= (LONG_MAX + 1) \div NsPerMs
    BY <1>1, <1>2, <2>1, Scale
  <2> QED
    BY <1>4, <2>2 DEF Quotient
<1> QED
  BY <1>3, <1>4

--------------------------------------------------------------------------
(* What a client logs. *)

\* Without a borrow, the product of int and the nanoseconds are added; with
\* one, the sum is far outside the range of samples, whatever wraps.
LEMMA Measurement ==
  ASSUME NEW start, NEW end,
         start.tv_sec = 0, start.tv_nsec \in 0 .. NsPerSec - 1,
         end.tv_sec \in Int, end.tv_nsec \in 0 .. NsPerSec - 1
  PROVE  LET t == time_elapsed(diff(start, end))
         IN  /\ t \in Int /\ -LongPeriod <= 2 * t /\ 2 * t < LongPeriod
             /\ Borrows(start, end)
                  => ~(-NsPerMs < t /\ t < (MaxSample + 1) * NsPerMs)
             /\ ~Borrows(start, end)
                  => t = IntOf(IntOf(end.tv_sec) * NsPerSec)
                           + (end.tv_nsec - start.tv_nsec)
<1> DEFINE t == time_elapsed(diff(start, end))
           s == start.tv_nsec
           e == end.tv_nsec
<1>1. s \in Int /\ 0 <= s /\ s < NsPerSec /\ e \in Int /\ 0 <= e /\ e < NsPerSec
  BY Scale
<1>2. ASSUME NEW sec \in Int
      PROVE  /\ IntOf(IntOf(sec) * NsPerSec) \in Int
             /\ -IntPeriod <= 2 * IntOf(IntOf(sec) * NsPerSec)
             /\ 2 * IntOf(IntOf(sec) * NsPerSec) < IntPeriod
  <2>1. IntOf(sec) \in Int
    BY Scale, WrapFacts DEF IntOf
  <2>2. IntOf(sec) * NsPerSec \in Int
    BY <2>1, Scale
  <2> QED
    BY <2>2, Scale, WrapFacts DEF IntOf
<1>3. ASSUME NEW x \in Int
      PROVE  LongOf(x) \in Int /\ -LongPeriod <= 2 * LongOf(x) /\ 2 * LongOf(x) < LongPeriod
  BY Scale, WrapFacts DEF LongOf
<1>4. CASE Borrows(start, end)
  <2>1. e < s
    BY <1>4 DEF Borrows
  <2>2. LongOf(Borrow + (e - s)) = LONG_MAX + (e - s)
    <3>1. /\ LONG_MAX + (e - s) \in Int
          /\ -LongPeriod <= 2 * (LONG_MAX + (e - s)) /\ 2 * (LONG_MAX + (e - s)) < LongPeriod
      BY <1>1, <2>1, Scale
    <3> QED
      BY <3>1, WrapFits, Scale DEF LongOf, Borrow
  <2>3. diff(start, end) = [tv_sec |-> end.tv_sec - 1, tv_nsec |-> LONG_MAX + (e - s)]
    <3>1. end.tv_sec - start.tv_sec - 1 = end.tv_sec - 1
      OBVIOUS
    <3> QED
      BY <1>4, <2>2, <3>1 DEF diff
  <2> DEFINE i == IntOf(IntOf(end.tv_sec - 1) * NsPerSec)
             x == i + (LONG_MAX + (e - s))
  <2>4. t = LongOf(x)
    BY <2>3 DEF time_elapsed
  <2>5. i \in Int /\ -IntPeriod <= 2 * i /\ 2 * i < IntPeriod
    BY <1>2
  <2> HIDE DEF i
  <2>6. x \in Int
    BY <1>1, <2>5, Scale
  <2>7. PICK k \in Int : t = x + LongPeriod * k
    <3> HIDE DEF x
    <3>1. \E k \in Int : Wrap(x, LongPeriod) = x + LongPeriod * k
      BY <2>6, Scale, WrapFacts
    <3> QED
      BY <2>4, <3>1 DEF LongOf
  <2>8. x >= NsPerSec /\ x - LongPeriod <= -NsPerSec
    BY <1>1, <2>1, <2>5, Scale
  <2>9. t \in Int /\ -LongPeriod <= 2 * t /\ 2 * t < LongPeriod
    BY <1>3, <2>4, <2>6
  <2>10. k >= 0 => t >= NsPerSec
    <3>1. ASSUME k >= 0 PROVE LongPeriod * 0 <= LongPeriod * k
      BY <3>1, Scale, TimesAtMost
    <3>2. LongPeriod * 0 = 0 /\ LongPeriod * k \in Int
      BY Scale
    <3> QED
      BY <3>1, <3>2, <2>7, <2>8, <2>6, Scale
  <2>11. k < 0 => t <= -NsPerSec
    <3>1. ASSUME k < 0 PROVE LongPeriod * k <= LongPeriod * (-1)
      BY <3>1, Scale, TimesAtMost
    <3>2. LongPeriod * (-1) = -LongPeriod /\ LongPeriod * k \in Int
      BY Scale
    <3> QED
      BY <3>1, <3>2, <2>7, <2>8, <2>6, Scale
  <2>12. ~(-NsPerMs < t /\ t < (MaxSample + 1) * NsPerMs)
    BY <2>9, <2>10, <2>11, Scale
  <2> QED
    BY <1>4, <2>9, <2>12
<1>5. CASE ~Borrows(start, end)
  <2>1. e >= s
    BY <1>1, <1>5 DEF Borrows
  <2>2. diff(start, end) = [tv_sec |-> end.tv_sec, tv_nsec |-> e - s]
    <3>1. end.tv_sec - start.tv_sec = end.tv_sec
      OBVIOUS
    <3> QED
      BY <1>5, <3>1 DEF diff
  <2> DEFINE i == IntOf(IntOf(end.tv_sec) * NsPerSec)
  <2>3. t = LongOf(i + (e - s))
    BY <2>2 DEF time_elapsed
  <2>4. i \in Int /\ -IntPeriod <= 2 * i /\ 2 * i < IntPeriod
    BY <1>2
  <2>5. t = i + (e - s)
    <3> HIDE DEF i
    <3>1. /\ i + (e - s) \in Int
          /\ -LongPeriod <= 2 * (i + (e - s)) /\ 2 * (i + (e - s)) < LongPeriod
      BY <1>1, <2>1, <2>4, Scale
    <3> QED
      BY <2>3, <3>1, WrapFits, Scale DEF LongOf
  <2>6. t \in Int /\ -LongPeriod <= 2 * t /\ 2 * t < LongPeriod
    <3>1. i + (e - s) \in Int
      BY <1>1, <2>4
    <3> QED
      BY <1>3, <2>3, <3>1
  <2> QED
    BY <1>5, <2>5, <2>6
<1> QED
  BY <1>4, <1>5

\* A reading of the clock.
LEMMA TimespecFacts ==
  ASSUME NEW ns \in Int
  PROVE  /\ Timespec(ns).tv_sec \in Int
         /\ Timespec(ns).tv_nsec \in 0 .. NsPerSec - 1
         /\ ns = NsPerSec * Timespec(ns).tv_sec + Timespec(ns).tv_nsec
  BY DivMod, Scale DEF Timespec

--------------------------------------------------------------------------
(* The invariant: what the client logs is computed from two readings whose *)
(* difference is the time that the clock says went by.                     *)

Types ==
  /\ pc \in {"idle", "running", "measured", "logged", "judged"}
  /\ start_ts = [tv_sec |-> 0, tv_nsec |-> start_ts.tv_nsec]
  /\ start_ts.tv_nsec \in 0 .. NsPerSec - 1
  /\ end_ts.tv_sec \in Int /\ end_ts.tv_nsec \in 0 .. NsPerSec - 1
  /\ elapsed \in Int
  /\ accepted \in BOOLEAN

ClockRead ==
  pc \in {"measured", "logged", "judged"} =>
    start_ts.tv_nsec + elapsed = NsPerSec * end_ts.tv_sec + end_ts.tv_nsec

Logged ==
  logged = IF pc \in {"logged", "judged"}
           THEN Quotient(time_elapsed(diff(start_ts, end_ts)), NsPerMs) ELSE 0

Judged == pc = "judged" => accepted = ~OutOfRange(logged)

IInv == Types /\ ClockRead /\ Logged /\ Judged

LEMMA ZeroRead ==
  ASSUME NEW ts, ts = Timespec(0)
  PROVE  /\ ts = [tv_sec |-> 0, tv_nsec |-> ts.tv_nsec]
         /\ ts.tv_sec \in Int /\ ts.tv_nsec \in 0 .. NsPerSec - 1
<1>1. 0 \div NsPerSec = 0 /\ 0 % NsPerSec = 0 /\ 0 \in 0 .. NsPerSec - 1
  BY Scale
<1> QED
  BY <1>1 DEF Timespec

\* The invariant holds after every measurement, of whatever length.
THEOREM InductiveInvariant == Spec => []IInv
<1>1. Init => IInv
  <2> SUFFICES ASSUME Init PROVE IInv
    OBVIOUS
  <2>1. /\ start_ts = [tv_sec |-> 0, tv_nsec |-> start_ts.tv_nsec]
        /\ start_ts.tv_nsec \in 0 .. NsPerSec - 1
        /\ end_ts.tv_sec \in Int /\ end_ts.tv_nsec \in 0 .. NsPerSec - 1
    BY ZeroRead DEF Init
  <2>2. pc = "idle" /\ elapsed = 0 /\ logged = 0 /\ accepted \in BOOLEAN
    BY DEF Init
  <2>3. ClockRead /\ Logged /\ Judged
    BY <2>2 DEF ClockRead, Logged, Judged
  <2> QED
    BY <2>1, <2>2, <2>3 DEF IInv, Types
<1>2. IInv /\ [Next]_vars => IInv'
  <2> SUFFICES ASSUME IInv, [Next]_vars PROVE IInv'
    OBVIOUS
  <2> USE DEF IInv, Types
  <2>1. CASE clock_gettime_start
    <3>1. PICK ns \in 0 .. NsPerSec - 1 : start_ts' = Timespec(ns)
      BY <2>1 DEF clock_gettime_start
    <3>2. start_ts' = [tv_sec |-> 0, tv_nsec |-> ns]
      <4>1. ns \div NsPerSec = 0 /\ ns % NsPerSec = ns
        BY Scale
      <4> QED
        BY <3>1, <4>1 DEF Timespec
    <3> QED
      BY <2>1, <3>2 DEF clock_gettime_start, ClockRead, Logged, Judged
  <2>2. CASE clock_gettime_end
    <3>1. PICK ns \in 0 .. MaxElapsed, step \in ClockStep :
            /\ elapsed' = ns + step
            /\ end_ts' = Timespec(start_ts.tv_nsec + ns + step)
      BY <2>2 DEF clock_gettime_end
    <3>2. /\ ns \in Int /\ step \in Int /\ elapsed' \in Int
          /\ start_ts.tv_nsec + ns + step = start_ts.tv_nsec + elapsed'
          /\ start_ts.tv_nsec + elapsed' \in Int
      BY <3>1, ScaleAssumption, Scale
    <3>3. /\ end_ts'.tv_sec \in Int /\ end_ts'.tv_nsec \in 0 .. NsPerSec - 1
          /\ start_ts.tv_nsec + elapsed' = NsPerSec * end_ts'.tv_sec + end_ts'.tv_nsec
      BY <3>1, <3>2, TimespecFacts
    <3> QED
      BY <2>2, <3>2, <3>3 DEF clock_gettime_end, ClockRead, Logged, Judged
  <2>3. CASE log_time
    BY <2>3 DEF log_time, ClockRead, Logged, Judged
  <2>4. CASE judge
    BY <2>4 DEF judge, ClockRead, Logged, Judged, OutOfRange
  <2>5. CASE next_run
    <3>1. /\ start_ts' = [tv_sec |-> 0, tv_nsec |-> start_ts'.tv_nsec]
          /\ start_ts'.tv_nsec \in 0 .. NsPerSec - 1
          /\ end_ts'.tv_sec \in Int /\ end_ts'.tv_nsec \in 0 .. NsPerSec - 1
      BY <2>5, ZeroRead DEF next_run
    <3>2. pc' = "idle" /\ elapsed' = 0 /\ logged' = 0 /\ accepted' \in BOOLEAN
      BY <2>5 DEF next_run
    <3>3. ClockRead' /\ Logged' /\ Judged'
      BY <3>2 DEF ClockRead, Logged, Judged
    <3> QED
      BY <3>1, <3>2, <3>3
  <2>6. CASE UNCHANGED vars
    BY <2>6 DEF vars, ClockRead, Logged, Judged
  <2> QED
    BY <2>1, <2>2, <2>3, <2>4, <2>5, <2>6 DEF Next
<1> QED
  BY <1>1, <1>2, PTL DEF Spec

\* The variables keep their types; a line of the log is a number of milliseconds
\* that fits in long.
THEOREM TypeCorrect == Spec => []TypeOK
<1>1. IInv => TypeOK
  <2> SUFFICES ASSUME IInv PROVE TypeOK
    OBVIOUS
  <2>1. start_ts \in [tv_sec : {0}, tv_nsec : 0 .. NsPerSec - 1]
    BY DEF IInv, Types
  <2>2. logged \in -((LONG_MAX + 1) \div NsPerMs) .. LONG_MAX \div NsPerMs
    <3>1. CASE pc \in {"logged", "judged"}
      <4> DEFINE t == time_elapsed(diff(start_ts, end_ts))
      <4>1. t \in Int /\ -LongPeriod <= 2 * t /\ 2 * t < LongPeriod
        BY Measurement DEF IInv, Types
      <4>2. logged = Quotient(t, NsPerMs)
        BY <3>1 DEF IInv, Logged
      <4> HIDE DEF t
      <4> QED
        BY <4>1, <4>2, QuotientBounds
    <3>2. CASE pc \notin {"logged", "judged"}
      <4>1. logged = Quotient(0, NsPerMs)
        <5>1. 0 \div NsPerMs = 0
          BY Scale
        <5> QED
          BY <3>2, <5>1 DEF IInv, Logged, Quotient
      <4> QED
        BY <4>1, Scale, QuotientBounds
    <3> QED
      BY <3>1, <3>2
  <2> QED
    BY <2>1, <2>2 DEF IInv, Types, TypeOK
<1> QED
  BY <1>1, InductiveInvariant, PTL

\* Within the period of int, what is believed is what went by, to the
\* millisecond: a borrow is never believed, and the product wraps by whole
\* periods, which lead out of the range.
THEOREM BelievedIsElapsed == Spec => []AcceptedIsElapsed
<1>1. IInv => AcceptedIsElapsed
  <2> SUFFICES ASSUME IInv, pc = "judged", accepted, WithinPeriod
               PROVE  logged = Milliseconds
    BY DEF AcceptedIsElapsed
  <2> DEFINE t == time_elapsed(diff(start_ts, end_ts))
             i == IntOf(end_ts.tv_sec)
             s == start_ts.tv_nsec
             e == end_ts.tv_nsec
             m == IntOf(i * NsPerSec)
  <2>1. /\ start_ts.tv_sec = 0 /\ s \in 0 .. NsPerSec - 1
        /\ end_ts.tv_sec \in Int /\ e \in 0 .. NsPerSec - 1 /\ elapsed \in Int
    BY DEF IInv, Types
  <2>2. logged = Quotient(t, NsPerMs)
    BY DEF IInv, Logged
  <2>3. /\ t \in Int
        /\ Borrows(start_ts, end_ts) => ~(-NsPerMs < t /\ t < (MaxSample + 1) * NsPerMs)
        /\ ~Borrows(start_ts, end_ts) => t = m + (e - s)
    BY <2>1, Measurement
  <2> HIDE DEF t
  <2>4. logged \in Int /\ -NsPerMs < t /\ t < (MaxSample + 1) * NsPerMs
    <3>1. logged \in Int /\ ~OutOfRange(logged)
      BY <2>2, <2>3, QuotientRange DEF IInv, Judged
    <3>2. logged \in 0 .. MaxSample
      BY <3>1, Scale DEF OutOfRange
    <3> QED
      BY <2>2, <2>3, <3>1, <3>2, QuotientRange
  <2>5. t = m + (e - s)
    BY <2>3, <2>4
  <2>6. PICK k \in Int : i = end_ts.tv_sec + IntPeriod * k
    BY <2>1, Scale, WrapFacts DEF IntOf
  <2>7. i \in Int
    BY <2>1, Scale, WrapFacts DEF IntOf
  <2> HIDE DEF i
  <2>8. PICK h \in Int : m = i * NsPerSec + IntPeriod * h
    <3>1. i * NsPerSec \in Int
      BY <2>7, Scale
    <3> QED
      BY <3>1, Scale, WrapFacts DEF IntOf
  <2> HIDE DEF m
  <2>9. s + elapsed = NsPerSec * end_ts.tv_sec + e
    BY DEF IInv, ClockRead
  <2>10. t = elapsed + IntPeriod * (k * NsPerSec + h)
    <3>1. i * NsPerSec = NsPerSec * end_ts.tv_sec + IntPeriod * (k * NsPerSec)
      <4>1. /\ i * NsPerSec = NsPerSec * i
            /\ NsPerSec * i = NsPerSec * end_ts.tv_sec + NsPerSec * (IntPeriod * k)
        BY <2>1, <2>6, <2>7, Scale, TimesSum
      <4>2. NsPerSec * (IntPeriod * k) = IntPeriod * (k * NsPerSec)
        <5>1. /\ NsPerSec * (IntPeriod * k) = (NsPerSec * IntPeriod) * k
              /\ IntPeriod * (NsPerSec * k) = (IntPeriod * NsPerSec) * k
          BY Scale, TimesTimes
        <5>2. k * NsPerSec = NsPerSec * k /\ NsPerSec * IntPeriod = IntPeriod * NsPerSec
          BY Scale
        <5> QED
          BY <5>1, <5>2
      <4> QED
        BY <4>1, <4>2
    <3>2. IntPeriod * (k * NsPerSec + h) = IntPeriod * (k * NsPerSec) + IntPeriod * h
      BY Scale, TimesSum
    <3>3. /\ NsPerSec * end_ts.tv_sec \in Int /\ IntPeriod * (k * NsPerSec) \in Int
          /\ IntPeriod * h \in Int
      BY <2>1, Scale
    <3> QED
      BY <2>1, <2>5, <2>8, <2>9, <3>1, <3>2, <3>3, Scale
  <2> DEFINE w == k * NsPerSec + h
  <2>11. w \in Int
    BY Scale
  <2>12. w = 0
    <3> HIDE DEF w
    <3>1. IntPeriod * w \in Int /\ IntPeriod * 1 = IntPeriod /\ IntPeriod * (-1) = -IntPeriod
      BY <2>11, Scale
    <3>2. t = elapsed + IntPeriod * w
      BY <2>10 DEF w
    <3>3. /\ elapsed <= IntPeriod - (MaxSample + 1) * NsPerMs
          /\ elapsed >= -(IntPeriod - (MaxSample + 1) * NsPerMs)
      BY <2>1, Scale DEF WithinPeriod
    <3>4. IntPeriod * w < IntPeriod * 1 /\ IntPeriod * (-1) < IntPeriod * w
      BY <2>1, <2>3, <2>4, <3>1, <3>2, <3>3, Scale
    <3>5. w < 1 /\ -1 < w
      BY <2>11, <3>4, Scale, TimesLess
    <3> QED
      BY <2>11, <3>5
  <2>13. t = elapsed
    BY <2>1, <2>10, <2>12, Scale
  <2> QED
    BY <2>2, <2>13 DEF Milliseconds
<1> QED
  BY <1>1, InductiveInvariant, PTL

\* A sample in the range is lost only by a borrow: in the second it started in,
\* a run is measured exactly.
THEOREM LostAtSecondOnly == Spec => []LostOnlyByBorrow
<1>1. IInv => LostOnlyByBorrow
  <2> SUFFICES ASSUME IInv, pc = "judged", ~accepted,
                      0 <= elapsed, Milliseconds <= MaxSample,
                      end_ts.tv_sec # start_ts.tv_sec + 1
               PROVE  FALSE
    BY DEF LostOnlyByBorrow
  <2> DEFINE t == time_elapsed(diff(start_ts, end_ts))
             s == start_ts.tv_nsec
             e == end_ts.tv_nsec
             q == end_ts.tv_sec
  <2>1. /\ start_ts.tv_sec = 0 /\ s \in Int /\ 0 <= s /\ s < NsPerSec
        /\ q \in Int /\ e \in Int /\ 0 <= e /\ e < NsPerSec /\ elapsed \in Int
        /\ s + elapsed = NsPerSec * q + e
        /\ q # 1
    <3>1. start_ts.tv_sec = 0 /\ q # 1
      BY DEF IInv, Types
    <3> QED
      BY <3>1, Scale DEF IInv, Types, ClockRead
  <2>2. Milliseconds \in 0 .. MaxSample /\ elapsed < (MaxSample + 1) * NsPerMs
    <3>1. elapsed \div NsPerMs >= 0 /\ elapsed \div NsPerMs \in Int
      <4>1. PICK u \in Int, v \in Int : /\ u = elapsed \div NsPerMs /\ elapsed = NsPerMs * u + v
                                        /\ 0 <= v /\ v < NsPerMs
        BY <2>1, Scale, DivMod
      <4>2. NsPerMs * (-1) < NsPerMs * u
        BY <2>1, <4>1, Scale
      <4>3. -1 < u
        BY <4>1, <4>2, Scale, TimesLess
      <4> QED
        BY <4>1, <4>3
    <3>2. Milliseconds \in 0 .. MaxSample
      BY <3>1, <2>1, Scale DEF Milliseconds, Quotient
    <3> QED
      BY <2>1, <3>2, QuotientRange DEF Milliseconds
  <2>3. q = 0
    <3>1. NsPerSec * (-1) < NsPerSec * q /\ NsPerSec * q < NsPerSec * 2
      BY <2>1, <2>2, Scale
    <3>2. -1 < q /\ q < 2
      BY <2>1, <3>1, Scale, TimesLess
    <3> QED
      BY <2>1, <3>2
  <2>4. e - s = elapsed /\ ~Borrows(start_ts, end_ts)
    BY <2>1, <2>3, Scale DEF Borrows
  <2>5. IntOf(IntOf(q) * NsPerSec) = 0
    <3>1. IntOf(0) = 0
      BY Scale, WrapFits DEF IntOf
    <3>2. IntOf(q) * NsPerSec = 0
      BY <2>3, <3>1, Scale
    <3> QED
      BY <3>1, <3>2
  <2>6. t = elapsed
    <3>1. /\ start_ts.tv_nsec \in 0 .. NsPerSec - 1
          /\ end_ts.tv_nsec \in 0 .. NsPerSec - 1
      BY DEF IInv, Types
    <3>2. t = IntOf(IntOf(q) * NsPerSec) + (e - s)
      BY <2>1, <2>4, <3>1, Measurement
    <3> QED
      BY <2>1, <2>4, <2>5, <3>2
  <2>7. logged = Milliseconds
    BY <2>6 DEF IInv, Logged, Milliseconds
  <2>8. ~OutOfRange(logged)
    BY <2>2, <2>7, Scale DEF OutOfRange
  <2> QED
    BY <2>8 DEF IInv, Judged
<1> QED
  BY <1>1, InductiveInvariant, PTL
==========================================================================
