------------------------------ MODULE Timing ------------------------------
(***************************************************************************)
(* How the clients measure: two readings of CLOCK_REALTIME, their          *)
(* difference by diff(), the sum in nanoseconds, the milliseconds that go  *)
(* to the time log, and the range in which the test programs believe them. *)
(*                                                                         *)
(* diff() borrows LONG_MAX where a second is meant, and the seconds are    *)
(* multiplied as int.  The widths of int and long and the units of time    *)
(* are constants, so that TLC can try every pair of readings at a small    *)
(* scale.  Overflow wraps, as the code is built (without optimisation, for *)
(* a two's complement machine).                                            *)
(***************************************************************************)
EXTENDS Integers

CONSTANTS
  NsPerSec,    \* 1000000000
  NsPerMs,     \* 1000000
  IntPeriod,   \* 2^32: number of values of int
  LongPeriod,  \* 2^64: number of values of long
  MaxSample,   \* 100: the largest number of milliseconds that is believed
  MaxElapsed,  \* bound: how long a run can take, in nanoseconds
  ClockStep    \* bound: by how much the clock may be set during a run

ASSUME ScaleAssumption ==
  /\ {NsPerMs, NsPerSec, IntPeriod, LongPeriod, MaxElapsed} \subseteq Nat \ {0}
  /\ MaxSample \in Nat /\ ClockStep \subseteq Int
  /\ NsPerSec % NsPerMs = 0
  /\ IntPeriod % 2 = 0 /\ LongPeriod % IntPeriod = 0
  /\ (MaxSample + 1) * NsPerMs < NsPerSec /\ 2 * NsPerSec < IntPeriod

\* long is wider than int.  Where it is not (a 32-bit build), the LONG_MAX that
\* diff() borrows is 2.15 s, and a run of about 3.2 s can be logged as one
\* within the range.
ASSUME LongAssumption == 4 * IntPeriod <= LongPeriod

VARIABLES
  pc,        \* "idle", "running", "measured", "logged" or "judged"
  start_ts,  \* clock when the client starts
  end_ts,    \* clock when it has finished
  elapsed,   \* what the clock says went by between the two, in nanoseconds
  logged,    \* the last line of the time log
  accepted   \* the test program keeps that line

vars == <<pc, start_ts, end_ts, elapsed, logged, accepted>>

----------------------------------------------------------------------------
(* Arithmetic of the C types. *)

Wrap(x, period) ==
  LET r == x % period IN IF 2 * r >= period THEN r - period ELSE r

IntOf(x)  == Wrap(x, IntPeriod)

Mut_Unwrapped(x) == x

LongOf(x) == Wrap(x, LongPeriod)

LONG_MAX  == LongPeriod \div 2 - 1

\* Division of C: towards 0.
Quotient(x, d) == IF x >= 0 THEN x \div d ELSE -((-x) \div d)

\* struct timespec of a number of nanoseconds.
Timespec(ns) == [tv_sec |-> ns \div NsPerSec, tv_nsec |-> ns % NsPerSec]

----------------------------------------------------------------------------

Mut_NoBorrow == 0

\* What is added to a negative difference of nanoseconds.
Borrow == LONG_MAX

Mut_AtMost(start, end) == end.tv_nsec <= start.tv_nsec

Borrows(start, end) == end.tv_nsec < start.tv_nsec

diff(start, end) ==
  IF Borrows(start, end)
  THEN [tv_sec  |-> end.tv_sec - start.tv_sec - 1,
        tv_nsec |-> LongOf(Borrow + (end.tv_nsec - start.tv_nsec))]
  ELSE [tv_sec  |-> end.tv_sec - start.tv_sec,
        tv_nsec |-> end.tv_nsec - start.tv_nsec]

time_elapsed(d) == LongOf(IntOf(IntOf(d.tv_sec) * NsPerSec) + d.tv_nsec)

OutOfRange(ms) == ms > MaxSample \/ ms < 0

Init ==
  /\ pc = "idle"
  /\ start_ts = Timespec(0) /\ end_ts = Timespec(0)
  /\ elapsed = 0 /\ logged = 0 /\ accepted = FALSE

\* The client starts at any fraction of a second.
clock_gettime_start ==
  /\ pc = "idle" /\ pc' = "running"
  /\ \E ns \in 0 .. NsPerSec - 1 : start_ts' = Timespec(ns)
  /\ UNCHANGED <<end_ts, elapsed, logged, accepted>>

\* It ends, and meanwhile the clock may have been set.
clock_gettime_end ==
  /\ pc = "running" /\ pc' = "measured"
  /\ \E ns \in 0 .. MaxElapsed, step \in ClockStep :
       /\ elapsed' = ns + step
       /\ end_ts' = Timespec(start_ts.tv_nsec + ns + step)
  /\ UNCHANGED <<start_ts, logged, accepted>>

\* It appends its time to the log.
log_time ==
  /\ pc = "measured" /\ pc' = "logged"
  /\ logged' = Quotient(time_elapsed(diff(start_ts, end_ts)), NsPerMs)
  /\ UNCHANGED <<start_ts, end_ts, elapsed, accepted>>

\* The test program believes the line, or deletes it and runs the client again.
judge ==
  /\ pc = "logged" /\ pc' = "judged"
  /\ accepted' = ~OutOfRange(logged)
  /\ UNCHANGED <<start_ts, end_ts, elapsed, logged>>

next_run ==
  /\ pc = "judged" /\ pc' = "idle"
  /\ start_ts' = Timespec(0) /\ end_ts' = Timespec(0)
  /\ elapsed' = 0 /\ logged' = 0 /\ accepted' = FALSE

Next == clock_gettime_start \/ clock_gettime_end \/ log_time \/ judge \/ next_run

Spec == Init /\ [][Next]_vars

----------------------------------------------------------------------------
(* Properties. *)

\* Every variable has its type.
TypeOK ==
  /\ pc \in {"idle", "running", "measured", "logged", "judged"}
  /\ start_ts \in [tv_sec : {0}, tv_nsec : 0 .. NsPerSec - 1]
  /\ end_ts.tv_sec \in Int /\ end_ts.tv_nsec \in 0 .. NsPerSec - 1
  /\ elapsed \in Int
  /\ logged \in -((LONG_MAX + 1) \div NsPerMs) .. LONG_MAX \div NsPerMs
  /\ accepted \in BOOLEAN

Milliseconds == Quotient(elapsed, NsPerMs)

\* Within one period of int (4.29 s), less the accepted range, nothing wraps
\* into that range.
WithinPeriod ==
  LET longest == IntPeriod - (MaxSample + 1) * NsPerMs
  IN elapsed \in -longest .. longest

\* A sample the test programs keep is the time the clock saw go by, unless the
\* run took about 4.29 s or more: what diff() and the product get wrong before
\* that falls outside the range of test4.c:105.
AcceptedIsElapsed ==
  (pc = "judged" /\ accepted /\ WithinPeriod) => logged = Milliseconds

\* A sample in the range is lost, and its request repeated, only when the run
\* goes past the end of a second: when diff() borrows (sclient2.cxx:65-68).
LostOnlyByBorrow ==
  (/\ pc = "judged" /\ ~accepted
   /\ 0 <= elapsed /\ Milliseconds <= MaxSample)
    => end_ts.tv_sec = start_ts.tv_sec + 1

===========================================================================
