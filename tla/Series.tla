------------------------------ MODULE Series ------------------------------
(***************************************************************************)
(* The test programs above their iterations: main, which goes through the  *)
(* values of its parameter, and for each of them makes a series of         *)
(* measurements with KSM1 and one with KSM2 (run_test1 .. run_test4); the  *)
(* running statistics of a series, its result in the data files, and the   *)
(* group services the clients ask for.  These are made and removed by      *)
(* scripts that system() runs; nobody looks at its result.                 *)
(*                                                                         *)
(* An iteration, test1() .. test4(), is one step here, with any result of  *)
(* a set; TestRun is what happens in it.                                   *)
(*                                                                         *)
(* mean and variance are doubles in the code and exact fractions           *)
(* <<numerator, denominator>> here.  Standard deviation and coefficient of *)
(* variation are represented by their squares.                             *)
(***************************************************************************)
EXTENDS Arithmetic

CONSTANTS
  Program,      \* the programs, a subset of {"test1", .. "test4"}
  Param,        \* test_array, group_count_array, group_size_array
  GroupCount,   \* group_count of test1, test3 and test4
  StartingK,    \* starting_k: iterations before a series may end
  MaxK,         \* max_k: iterations at most
  IgnoreCount,  \* ignore_count: pre-test runs
  Y             \* the results an iteration may have

ASSUME ParamAssumption ==
  /\ Param \in Seq(Nat \ {0}) /\ Param # <<>>
  /\ {GroupCount, StartingK, MaxK} \subseteq Nat \ {0}
  /\ IgnoreCount \in Nat
  /\ Program \subseteq {"test1", "test2", "test3", "test4"}
  /\ Y \subseteq Nat

VARIABLES
  program,   \* the program that runs
  given,     \* argc > 2: the number of clients comes from the command line
  phase,     \* where main is
  services,  \* the groups the KDC and the keytabs know
  skipped,   \* history: the groups that the last script for them left out
  l, ksm,    \* position in Param; key management measured
  pre,       \* pre-test runs made
  y, prev_y, \* result of this iteration; of the one before, or -1
  j, n,      \* run_test: iteration; results in the mean, and one
  rs,        \* the running statistics: mean, variance, k
  rows,      \* rows[i]: the values of the parameter KSM i has a row for
  kept       \* history: the results in the statistics of this series

loopVars == <<l, ksm, pre>>
runVars  == <<y, prev_y, j, n, rs, kept>>
groupVars == <<services, skipped>>
vars == <<program, given, phase, groupVars, loopVars, runVars, rows>>

(***************************************************************************)
(* Fractions.                                                              *)
(***************************************************************************)
\* 0/0, of the mean 0, is not a number, and no comparison with it is true.
NaN == <<0, 0>>
Less(p, q)    == p # NaN /\ q # NaN /\ p[1] * q[2] < q[1] * p[2]
AtLeast(p, q) == p # NaN /\ q # NaN /\ p[1] * q[2] >= q[1] * p[2]

\* The square of the coefficient of variation.
CoeffVariance(s) ==
  IF s.mean[1] = 0 THEN NaN
  ELSE Frac(s.variance[1] * s.mean[2] * s.mean[2], s.variance[2] * s.mean[1] * s.mean[1])

CoeffTarget == <<1, 400>>

Default == [mean |-> <<0, 1>>, variance |-> <<0, 1>>, coeff |-> <<0, 1>>, k |-> StartingK]

Init ==
  /\ program \in Program
  /\ given \in BOOLEAN
  /\ phase = "setup"
  /\ services = {} /\ skipped = {}
  /\ l = 0 /\ ksm = 1 /\ pre = 0
  /\ y = 0 /\ prev_y = -1 /\ j = 1 /\ n = 1
  /\ rs = Default
  /\ rows = [i \in {1, 2} |-> <<>>]
  /\ kept = <<>>

(***************************************************************************)
(* The four mains.                                                         *)
(***************************************************************************)
\* test4 goes through the numbers of groups a client asks for.
Params == IF program = "test4" THEN [i \in 1 .. GroupCount |-> i] ELSE Param

\* test2 has a number of groups of its own for each value.
Mut_Global == GroupCount
group_count == IF program = "test2" THEN Params[l] ELSE GroupCount

\* The groups that clients may ask for in an iteration.
Requested == IF program = "test4" THEN 1 .. Params[l] ELSE 1 .. group_count

\* A script for the groups 1 .. count, which does its work for some of them:
\* for all, for those before or after one whose kadmin command fails, or for
\* none, when it is not root's or system() cannot run it.
Skips(count, done) == skipped' = (skipped \ 1 .. count) \cup (1 .. count \ done)

\* service_create.sh and service_remove.sh.
create_service(count) ==
  \E done \in SUBSET (1 .. count) : services' = services \cup done /\ Skips(count, done)
delete_service(count) ==
  \E done \in SUBSET (1 .. count) : services' = services \ done /\ Skips(count, done)

set_default_running_stats == rs' = Default

\* With the number of clients given, test1 stops after the first value.
LastParam == l = Len(Params) \/ (program = "test1" /\ given)

\* test2 creates its services in the loop.
create_services ==
  /\ phase = "setup"
  /\ IF program = "test2" THEN UNCHANGED groupVars ELSE create_service(GroupCount)
  /\ phase' = "param"
  /\ UNCHANGED <<program, given, loopVars, runVars, rows>>

\* The next value of the parameter.
next_param ==
  /\ phase = "param"
  /\ l' = l + 1
  /\ IF program = "test2" THEN create_service(Params[l']) ELSE UNCHANGED groupVars
  /\ ksm' = 1 /\ pre' = 0
  /\ set_default_running_stats
  /\ kept' = <<>>
  /\ phase' = "pretest"
  /\ UNCHANGED <<program, given, y, prev_y, j, n, rows>>

\* An iteration whose result is not used.
pretest_run ==
  /\ phase = "pretest" /\ pre < IgnoreCount
  /\ pre' = pre + 1
  /\ UNCHANGED <<program, given, phase, groupVars, l, ksm, runVars, rows>>

\* run_test is called: n = j = 1.
start_series ==
  /\ phase = "pretest" /\ pre = IgnoreCount
  /\ prev_y' = -1 /\ j' = 1 /\ n' = 1
  /\ phase' = "iterate"
  /\ UNCHANGED <<program, given, groupVars, loopVars, y, rs, rows, kept>>

\* In an iteration system() returned -1: a script is told to remove the
\* services, exit(1).
client_failed ==
  /\ phase \in {"pretest", "iterate"}
  /\ phase = "pretest" => pre < IgnoreCount
  /\ delete_service(group_count)
  /\ phase' = "failed"
  /\ UNCHANGED <<program, given, loopVars, runVars, rows>>

(***************************************************************************)
(* run_test1 .. run_test4.                                                 *)
(***************************************************************************)
\* One iteration of the do-while.
iterate(v) ==
  /\ phase = "iterate"
  /\ y' = v
  /\ prev_y' = IF prev_y = -1 THEN v ELSE prev_y
  /\ phase' = "compare"
  /\ UNCHANGED <<program, given, groupVars, loopVars, j, n, rs, rows, kept>>

\* while( y > prev_y * 1.1 )
compare ==
  /\ phase = "compare"
  /\ phase' = IF 10 * y > 11 * prev_y THEN "iterate" ELSE "stats"
  /\ UNCHANGED <<program, given, groupVars, loopVars, runVars, rows>>

\* (prev_mean*(n-1) + y) / n
MeanWith == Frac(rs.mean[1] * (n - 1) + y * rs.mean[2], n * rs.mean[2])

\* ((n-2)*variance + (y-mean) * (y-prev_mean)) / (n-1), from the third
\* iteration on.  The product is not negative: y is on one side of both means.
VarianceWith(mean) ==
  IF j <= 2 THEN rs.variance
  ELSE LET dev == (y * mean[2] - mean[1]) * (y * rs.mean[2] - rs.mean[1])
           den == mean[2] * rs.mean[2]
       IN  Frac((n - 2) * rs.variance[1] * den + dev * rs.variance[2],
                (n - 1) * rs.variance[2] * den)

\* The statistics with y in them; the coefficient goes with the variance.
Updated ==
  LET m == MeanWith
      s == [mean |-> m, variance |-> VarianceWith(m), coeff |-> rs.coeff, k |-> rs.k]
  IN  IF j > 2 THEN [s EXCEPT !.coeff = CoeffVariance(s)] ELSE s

\* With y the coefficient of variation is no smaller than without.
Unsteadier == j > 2 /\ j > StartingK /\ AtLeast(Updated.coeff, rs.coeff)

\* The old values come back, n--.
Mut_CountsIt == n
WithoutIt == n - 1

\* The end of the for loop.
Mut_OneMore(i) == i > MaxK + 1
SeriesOver(i) == i > MaxK

\* What one round of the for loop does with its result: the statistics, then
\* break with rs->k = n, or j++ and n++.
Mut_Iterations(count) == j
StoppedAt(count) == count
update_stats ==
  /\ phase = "stats"
  /\ prev_y' = y
  /\ LET stats == IF Unsteadier THEN rs ELSE Updated
         count == IF Unsteadier THEN WithoutIt ELSE n
         stop  == j >= StartingK /\ Less(stats.coeff, CoeffTarget)
     IN  /\ kept' = IF Unsteadier THEN kept ELSE Append(kept, y)
         /\ rs' = IF stop THEN [stats EXCEPT !.k = StoppedAt(count)] ELSE stats
         /\ j' = IF stop THEN j ELSE j + 1
         /\ n' = IF stop THEN count ELSE count + 1
         /\ phase' = IF stop \/ SeriesOver(j') THEN "log" ELSE "iterate"
  /\ UNCHANGED <<program, given, groupVars, loopVars, y, rows>>

\* log_data, or log_data_f; then the defaults and KSM2, or the next value.
Mut_KeepsStats == rs' = rs
DefaultStats == set_default_running_stats
log_data ==
  /\ phase = "log"
  /\ rows' = [rows EXCEPT ![ksm] = Append(@, Params[l])]
  /\ \/ /\ ksm = 1
        /\ ksm' = 2 /\ pre' = 0
        /\ DefaultStats
        /\ kept' = <<>>
        /\ phase' = "pretest"
        /\ UNCHANGED groupVars
     \/ /\ ksm = 2
        /\ IF program = "test2" THEN delete_service(group_count) ELSE UNCHANGED groupVars
        /\ phase' = IF LastParam THEN "merge" ELSE "param"
        /\ UNCHANGED <<ksm, pre, rs, kept>>
  /\ UNCHANGED <<program, given, l, y, prev_y, j, n>>

\* The services are removed, the two files pasted line by line.
merge_data ==
  /\ phase = "merge"
  /\ IF program = "test2" THEN UNCHANGED groupVars ELSE delete_service(GroupCount)
  /\ phase' = "done"
  /\ UNCHANGED <<program, given, loopVars, runVars, rows>>

Next ==
  \/ create_services
  \/ next_param
  \/ pretest_run
  \/ start_series
  \/ client_failed
  \/ \E v \in Y : iterate(v)
  \/ compare
  \/ update_stats
  \/ log_data
  \/ merge_data

Spec == Init /\ [][Next]_vars

--------------------------------------------------------------------------
(***************************************************************************)
(* Properties.                                                             *)
(***************************************************************************)
Fractions == Nat \X Nat
Stats == [mean : Fractions, variance : Fractions, coeff : Fractions, k : Nat]

\* Every variable has its type; the product in VarianceWith is not negative.
TypeOK ==
  /\ program \in Program /\ given \in BOOLEAN
  /\ phase \in {"setup", "param", "pretest", "iterate", "compare", "stats",
                "log", "merge", "done", "failed"}
  /\ {services, skipped} \subseteq SUBSET Nat
  /\ l \in 0 .. Len(Params) /\ ksm \in {1, 2} /\ pre \in 0 .. IgnoreCount
  /\ y \in Nat /\ prev_y \in Nat \cup {-1}
  /\ j \in 1 .. MaxK + 1 /\ n \in 1 .. MaxK + 1
  /\ rs \in Stats
  /\ rows \in [{1, 2} -> Seq(Nat)]
  /\ kept \in Seq(Nat)

\* Len(s) times the sum of the squared deviations of s from their mean.
SquaredDeviations(s) ==
  Len(s) * Sum([i \in DOMAIN s |-> s[i] * s[i]]) - Sum(s) * Sum(s)

\* The mean is the mean of the results that are kept, whichever were taken
\* out again between them and whatever the series before left behind.
MeanIsOfKept ==
  kept # <<>> => rs.mean[1] * Len(kept) = rs.mean[2] * Sum(kept)

\* The variance of a series is the variance of the results in its mean, less
\* the spread of its first two (they enter the mean before the variance is
\* computed), through every sequence of kept and discarded results and
\* whatever the previous series left behind:
\*   (c-1) * variance = SS(kept) / c - SS(first two) / 2.
VarianceOfKept ==
  LET c == Len(kept)
  IN  IF c < 2 THEN rs.variance[1] = 0
      ELSE 2 * c * (c - 1) * rs.variance[1] =
             (2 * SquaredDeviations(kept) - c * SquaredDeviations(SubSeq(kept, 1, 2)))
               * rs.variance[2]

\* When a series ends because it is steady, rs->k, logged beside the mean, is
\* the number of results in that mean and not of iterations made.  (A series
\* that ends at max_k logs starting_k, whatever is in its mean.)
KCountsResults ==
  phase = "log" => rs.k = IF j <= MaxK THEN Len(kept) ELSE StartingK

\* A client asks for a group without a service only if the last script to
\* create that group left it out, and a program that has come to its end, or
\* gave up because it could not run a client, leaves the service of a group
\* behind only if the last script to remove it left it out - test2 through
\* every number of groups, larger or smaller than the one before.  (A program
\* that is killed, say in a series that does not end, removes nothing.)
ServicesMatchRequests ==
  /\ phase \in {"pretest", "iterate"} => Requested \ services \subseteq skipped
  /\ phase \in {"done", "failed"} => services \subseteq skipped
==========================================================================
