-------------------------- MODULE TestRun_proofs --------------------------
(***************************************************************************)
(* Proofs about an iteration of the test programs, for every number of     *)
(* clients, groups and rejected samples, and whatever the clients log.     *)
(***************************************************************************)
EXTENDS TestRun, Arithmetic_proofs, FiniteSetTheorems, SequenceTheorems, TLAPS

Requests == [client : Clients, group : Groups]

--------------------------------------------------------------------------
(* The plans: two nested loops ask for every pair once. *)

\* Round k of the loops is round (k - 1) % m of the inner one in round
\* (k - 1) \div m of the outer one.
LEMMA Rounds ==
  ASSUME NEW n \in Nat \ {0}, NEW m \in Nat \ {0}, NEW k \in 1 .. n * m
  PROVE  /\ (k - 1) \div m \in 0 .. n - 1
         /\ (k - 1) % m \in 0 .. m - 1
         /\ k = (m * ((k - 1) \div m)) + ((k - 1) % m) + 1
<1>1. n * m \in Int /\ k \in Int /\ k >= 1 /\ k <= n * m
  OBVIOUS
<1>2. PICK q \in Int, r \in Int :
        /\ q = (k - 1) \div m /\ r = (k - 1) % m
        /\ k - 1 = (m * q) + r /\ 0 <= r /\ r < m
  <2>1. ASSUME NEW x \in Int
        PROVE  /\ x \div m \in Int /\ x % m \in Int /\ 0 <= x % m /\ x % m < m
               /\ x = (m * (x \div m)) + (x % m)
    OBVIOUS
  <2>2. k - 1 \in Int
    BY <1>1
  <2> QED
    BY <2>1, <2>2
<1>3. q >= 0
  <2>1. ASSUME q <= -1 PROVE m * q <= m * (-1)
    BY <1>2, <2>1
  <2> QED
    BY <1>1, <1>2, <2>1
<1>4. q <= n - 1
  <2>1. ASSUME q >= n PROVE m * q >= m * n
    BY <1>2, <2>1
  <2>2. m * n = n * m
    OBVIOUS
  <2> QED
    BY <1>1, <1>2, <2>1, <2>2
<1> QED
  BY <1>2, <1>3, <1>4

\* A plan can be worked off, and names no request twice.
GoodPlan(p) ==
  /\ p \in Seq(Requests)
  /\ Len(p) >= 1
  /\ \A i, k \in DOMAIN p : p[i] = p[k] => i = k

LEMMA Counts ==
  /\ ClientCount \in Nat \ {0} /\ GroupCount \in Nat \ {0}
  /\ AssignedCount \in Nat \ {0} /\ AssignedCount <= GroupCount
  /\ Time \subseteq Int
  BY CountAssumption

\* A list of each member of a set.
LEMMA Permutation ==
  ASSUME NEW S, IsFiniteSet(S), NEW p \in SetToSeqs(S)
  PROVE  /\ p \in [1 .. Cardinality(S) -> S]
         /\ \A i, k \in 1 .. Cardinality(S) : p[i] = p[k] => i = k
  BY DEF SetToSeqs

LEMMA ClientsByNumber == IsFiniteSet(Clients) /\ Cardinality(Clients) = ClientCount
  BY Counts, FS_Interval DEF Clients

LEMMA GroupsByNumber == IsFiniteSet(Groups) /\ Cardinality(Groups) = GroupCount
  BY Counts, FS_Interval DEF Groups

LEMMA ByClientGood ==
  ASSUME NEW count \in Nat \ {0}, NEW f,
         \A c \in Clients, i \in 1 .. count : f[c][i] \in Groups,
         \A c \in Clients : \A i, k \in 1 .. count : f[c][i] = f[c][k] => i = k
  PROVE  GoodPlan(ByClient(f, count))
<1> DEFINE q(k) == (k - 1) \div count
           r(k) == ((k - 1) % count) + 1
           p == ByClient(f, count)
<1>1. p = [k \in 1 .. ClientCount * count |-> [client |-> q(k), group |-> f[q(k)][r(k)]]]
  BY DEF ByClient
<1>2. ClientCount * count \in Nat /\ ClientCount * count >= 1
  BY Counts
<1>3. ASSUME NEW k \in 1 .. ClientCount * count
      PROVE  /\ q(k) \in Clients /\ r(k) \in 1 .. count
             /\ k = (count * q(k)) + r(k)
  <2>1. /\ q(k) \in 0 .. ClientCount - 1 /\ (k - 1) % count \in 0 .. count - 1
        /\ k = (count * q(k)) + ((k - 1) % count) + 1
    BY Counts, Rounds
  <2> HIDE DEF q
  <2>2. count * q(k) \in Int
    BY <2>1
  <2> QED
    BY <2>1, <2>2, Counts DEF Clients
<1> HIDE DEF q, r, p
<1>4. p \in Seq(Requests) /\ Len(p) = ClientCount * count /\ DOMAIN p = 1 .. ClientCount * count
  <2>1. ASSUME NEW k \in 1 .. ClientCount * count
        PROVE  [client |-> q(k), group |-> f[q(k)][r(k)]] \in Requests
    BY <1>3 DEF Requests
  <2> QED
    BY <1>1, <1>2, <2>1
<1>5. ASSUME NEW i \in DOMAIN p, NEW k \in DOMAIN p, p[i] = p[k] PROVE i = k
  <2>1. q(i) = q(k) /\ f[q(i)][r(i)] = f[q(k)][r(k)]
    BY <1>1, <1>4, <1>5
  <2>2. r(i) = r(k)
    BY <1>3, <1>4, <2>1
  <2> QED
    BY <1>3, <1>4, <2>1, <2>2
<1> QED
  BY <1>2, <1>4, <1>5 DEF GoodPlan, p

\* Whatever the program and the permutations it draws.
LEMMA PlansGood == ASSUME program \in Program PROVE \A p \in Plans : GoodPlan(p)
<1>1. \A p \in test1_plans : GoodPlan(p)
  <2> SUFFICES ASSUME NEW p \in [Clients -> SetToSeqs(Groups)]
               PROVE  GoodPlan(ByClient(p, AssignedCount))
    BY DEF test1_plans
  <2>1. ASSUME NEW c \in Clients
        PROVE  /\ p[c] \in [1 .. GroupCount -> Groups]
               /\ \A i, k \in 1 .. GroupCount : p[c][i] = p[c][k] => i = k
    BY GroupsByNumber, Permutation
  <2>2. 1 .. AssignedCount \subseteq 1 .. GroupCount
    BY Counts
  <2> QED
    BY <2>1, <2>2, Counts, ByClientGood
<1>2. \A p \in test2_plans : GoodPlan(p)
  <2> DEFINE f == [c \in Clients |-> [g \in Groups |-> g]]
  <2>1. /\ \A c \in Clients, i \in 1 .. GroupCount : f[c][i] \in Groups
        /\ \A c \in Clients : \A i, k \in 1 .. GroupCount : f[c][i] = f[c][k] => i = k
    BY DEF Groups
  <2> HIDE DEF f
  <2>2. GoodPlan(ByClient(f, GroupCount))
    BY <2>1, Counts, ByClientGood
  <2> QED
    BY <2>2 DEF test2_plans, f
<1>4. \A p \in test4_plans : GoodPlan(p)
  <2> DEFINE f == [c \in Clients |-> [g \in 1 .. AssignedCount |-> ((g - 1) % GroupCount) + 1]]
  <2>1. ASSUME NEW c \in Clients, NEW i \in 1 .. AssignedCount
        PROVE  f[c][i] = i /\ i \in Groups
    <3>1. (i - 1) % GroupCount = i - 1
      BY Counts
    <3> QED
      BY <3>1, Counts DEF Groups
  <2> HIDE DEF f
  <2>2. GoodPlan(ByClient(f, AssignedCount))
    BY <2>1, Counts, ByClientGood
  <2> QED
    BY <2>2 DEF test4_plans, f
<1>3. \A p \in test3_plans : GoodPlan(p)
  <2> SUFFICES ASSUME NEW p \in [Groups -> SetToSeqs(Clients)]
               PROVE  GoodPlan([k \in 1 .. GroupCount * ClientCount |->
                        LET g == ((k - 1) \div ClientCount) + 1
                        IN  [client |-> p[g][((k - 1) % ClientCount) + 1], group |-> g]])
    BY DEF test3_plans
  <2> DEFINE q(k) == (k - 1) \div ClientCount
             r(k) == ((k - 1) % ClientCount) + 1
             s == [k \in 1 .. GroupCount * ClientCount |->
                     [client |-> p[q(k) + 1][r(k)], group |-> q(k) + 1]]
  <2>1. GroupCount * ClientCount \in Nat /\ GroupCount * ClientCount >= 1
    BY Counts
  <2>2. ASSUME NEW k \in 1 .. GroupCount * ClientCount
        PROVE  /\ q(k) \in Int /\ q(k) + 1 \in Groups /\ r(k) \in 1 .. ClientCount
               /\ k = (ClientCount * q(k)) + r(k)
    <3>1. /\ q(k) \in 0 .. GroupCount - 1
          /\ (k - 1) % ClientCount \in 0 .. ClientCount - 1
          /\ k = (ClientCount * q(k)) + ((k - 1) % ClientCount) + 1
      BY Counts, Rounds
    <3> HIDE DEF q
    <3>2. ClientCount * q(k) \in Int
      BY <3>1, Counts
    <3> QED
      BY <3>1, <3>2, Counts DEF Groups
  <2>3. ASSUME NEW g \in Groups
        PROVE  /\ p[g] \in [1 .. ClientCount -> Clients]
               /\ \A i, k \in 1 .. ClientCount : p[g][i] = p[g][k] => i = k
    BY ClientsByNumber, Permutation
  <2> HIDE DEF q, r
  <2>4. s \in Seq(Requests) /\ Len(s) = GroupCount * ClientCount
    <3>1. ASSUME NEW k \in 1 .. GroupCount * ClientCount
          PROVE  [client |-> p[q(k) + 1][r(k)], group |-> q(k) + 1] \in Requests
      BY <2>2, <2>3 DEF Requests
    <3> QED
      BY <2>1, <3>1
  <2>5. ASSUME NEW i \in DOMAIN s, NEW k \in DOMAIN s, s[i] = s[k] PROVE i = k
    <3>1. i \in 1 .. GroupCount * ClientCount /\ k \in 1 .. GroupCount * ClientCount
      OBVIOUS
    <3>2. q(i) + 1 = q(k) + 1 /\ p[q(i) + 1][r(i)] = p[q(k) + 1][r(k)]
      BY <2>5, <3>1
    <3>3. q(i) = q(k)
      BY <2>2, <3>1, <3>2
    <3>4. r(i) = r(k)
      BY <2>2, <2>3, <3>1, <3>2, <3>3
    <3> QED
      BY <2>2, <3>1, <3>3, <3>4
  <2>6. GoodPlan(s)
    BY <2>1, <2>4, <2>5 DEF GoodPlan
  <2> QED
    BY <2>6 DEF s, q, r
<1> QED
  BY <1>1, <1>2, <1>3, <1>4, ChoiceAssumption DEF Plans

--------------------------------------------------------------------------
(* The inductive invariant. *)

Counted == [request : Requests, ms : Int, fresh : BOOLEAN]

Types ==
  /\ program \in Program /\ ksm \in Ksm
  /\ phase \in {"start", "exec", "check", "sum", "failed"}
  /\ plan \in Seq(Requests)
  /\ pos \in Nat \ {0}
  /\ cached \in [Clients -> SUBSET Groups]
  /\ log \in Seq(Time)
  /\ fresh \in BOOLEAN
  /\ counted \in Seq(Counted)
  /\ rejected \in Nat

\* The counted requests are those before pos; a request is at hand when a
\* client runs, and none is left when the log is summed.
PlanFollowed ==
  /\ pos = Len(counted) + 1
  /\ \A i \in DOMAIN counted : counted[i].request = plan[i]
  /\ Len(counted) <= Len(plan)
  /\ phase \in {"exec", "check"} => pos <= Len(plan)
  /\ phase \in {"start", "sum"} => Len(counted) = Len(plan)

NoneTwice == \A i, k \in DOMAIN plan : plan[i] = plan[k] => i = k

\* The lines of l are the samples of the requests measured, all in the range,
\* and each request counted stands on one: its own, or the last one before it.
MeasuredIn(c) == {i \in DOMAIN c : c[i].fresh}
Line(c, i) == Cardinality({k \in MeasuredIn(c) : k <= i})
Settled(l, c) ==
  /\ Len(l) = Cardinality(MeasuredIn(c))
  /\ \A i \in DOMAIN c : Line(c, i) \in DOMAIN l /\ l[Line(c, i)] = c[i].ms
  /\ \A n \in DOMAIN l : ~OutOfRange(l[n])

\* When the sample is judged, one line may have come on top.
LogSettled ==
  /\ phase \in {"start", "exec", "sum"} => Settled(log, counted)
  /\ phase = "check" =>
       \/ fresh /\ \E l \in Seq(Time), v \in Time : log = Append(l, v) /\ Settled(l, counted)
       \/ ~fresh /\ Settled(log, counted)

\* In KSM2 the tickets in a cache are for requests already made.
RequestedBefore(c, g, last) ==
  \E i \in 1 .. last : i \in DOMAIN plan /\ plan[i] = [client |-> c, group |-> g]

TicketsRequested ==
  ksm = 2 =>
    \A c \in Clients : \A g \in cached[c] :
      /\ phase = "exec" => RequestedBefore(c, g, pos - 1)
      /\ phase = "check" => RequestedBefore(c, g, pos)

\* A sample that is about to be rejected is within the bound.
Bounded ==
  /\ y \in Nat
  /\ rejected \in 0 .. MaxReject
  /\ phase = "check" /\ OutOfRange(get_last_value) => rejected < MaxReject

IInv ==
  Types /\ PlanFollowed /\ NoneTwice /\ LogSettled /\ TicketsRequested /\ Bounded

--------------------------------------------------------------------------
(* Types. *)

\* No request made, empty caches and an empty log.
LEMMA NothingYet ==
  /\ <<>> \in Seq(Requests) /\ <<>> \in Seq(Time) /\ <<>> \in Seq(Counted)
  /\ [c \in Clients |-> {}] \in [Clients -> SUBSET Groups]
  /\ 1 \in Nat \ {0} /\ 0 \in Nat
  OBVIOUS

LEMMA TypeInit == Init => Types
  BY NothingYet DEF Init, Types

LEMMA Appended ==
  ASSUME NEW S, NEW s \in Seq(S), NEW e \in S
  PROVE  /\ Append(s, e) \in Seq(S) /\ Len(Append(s, e)) = Len(s) + 1
         /\ DOMAIN Append(s, e) = 1 .. Len(s) + 1 /\ DOMAIN s = 1 .. Len(s) /\ Len(s) \in Nat
         /\ \A i \in 1 .. Len(s) : Append(s, e)[i] = s[i]
         /\ Append(s, e)[Len(s) + 1] = e
  OBVIOUS

LEMMA LastLine ==
  ASSUME NEW l \in Seq(Time), NEW v \in Time
  PROVE  /\ Append(l, v) # <<>>
         /\ Last(Append(l, v)) = v
         /\ Front(Append(l, v)) = l
<1>1. Append(l, v) # <<>> /\ Last(Append(l, v)) = v
  BY DEF Last
<1>2. Front(Append(l, v)) = l
  <2> DEFINE a == Append(l, v)
             f == SubSeq(a, 1, Len(l))
  <2>1. a \in Seq(Time) /\ Len(a) = Len(l) + 1 /\ Len(l) \in Nat
        /\ \A i \in 1 .. Len(l) : a[i] = l[i]
    BY Appended
  <2>2. Front(a) = f
    BY <2>1 DEF Front
  <2> HIDE DEF a
  <2>3. f \in Seq(Time) /\ Len(f) = Len(l) /\ \A i \in 1 .. Len(l) : f[i] = a[i]
    <3>1. 1 \in 1 .. Len(a) + 1 /\ Len(l) \in 1 - 1 .. Len(a)
      BY <2>1
    <3> QED
      BY <2>1, <3>1, SubSeqProperties
  <2>4. f = l
    <3> HIDE DEF f
    <3> QED
      BY <2>1, <2>3
  <2> QED
    BY <2>2, <2>4 DEF a
<1> QED
  BY <1>1, <1>2

\* An empty log counts as out of range.
LEMMA NoLine == LONG_MAX \in Int /\ OutOfRange(LONG_MAX)
  BY SMT DEF LONG_MAX, OutOfRange

LEMMA TypeStep == IInv /\ [Next]_vars => Types'
<1> SUFFICES ASSUME IInv, [Next]_vars PROVE Types'
  OBVIOUS
<1> USE DEF Types
<1>0. Types /\ PlanFollowed
  BY DEF IInv
<1>1. CASE start_iteration
  <2>1. plan' \in Seq(Requests)
    BY <1>0, <1>1, PlansGood DEF start_iteration, GoodPlan
  <2> QED
    BY <1>0, <1>1, <2>1, NothingYet DEF start_iteration
<1>2. ASSUME GetsTicket \/ cached' = cached, phase = "exec"
      PROVE  cached' \in [Clients -> SUBSET Groups]
  <2>1. plan[pos] \in Requests
    BY <1>0, <1>2 DEF PlanFollowed
  <2>2. PICK c \in Clients, g \in Groups : plan[pos].client = c /\ plan[pos].group = g
    BY <2>1 DEF Requests
  <2>3. GetsTicket <=> cached' = [cached EXCEPT ![c] = @ \cup {g}]
    BY <2>2 DEF GetsTicket, Request
  <2> QED
    BY <1>0, <1>2, <2>3
<1>3. ASSUME NEW v \in Time, client_exec(v) PROVE Types'
  BY <1>0, <1>2, <1>3 DEF client_exec
<1>4. CASE client_exec_unlogged
  BY <1>0, <1>2, <1>4 DEF client_exec_unlogged
<1>5. CASE client_exec_fails
  BY <1>0, <1>5, NothingYet DEF client_exec_fails
<1>6. CASE sum_log
  BY <1>0, <1>6, NothingYet DEF sum_log
<1>7. CASE UNCHANGED vars
  BY <1>0, <1>7 DEF vars, iterVars
<1>8. CASE accept_sample
  <2>1. plan[pos] \in Requests
    BY <1>0, <1>8 DEF PlanFollowed, accept_sample
  <2>2. get_last_value \in Int
    <3>1. log # <<>> => log[Len(log)] \in Time
      BY <1>0
    <3> QED
      BY <3>1, Counts, NoLine DEF get_last_value, Last
  <2>3. [request |-> Request, ms |-> get_last_value, fresh |-> fresh] \in Counted
    BY <1>0, <2>1, <2>2 DEF Counted, Request
  <2>4. counted' \in Seq(Counted)
    BY <1>0, <1>8, <2>3 DEF accept_sample
  <2> QED
    BY <1>0, <1>8, <2>4 DEF accept_sample
<1>9. CASE reject_sample
  <2>1. log' \in Seq(Time)
    <3>1. log # <<>> => Front(log) \in Seq(Time)
      <4> SUFFICES ASSUME log # <<>> PROVE SubSeq(log, 1, Len(log) - 1) \in Seq(Time)
        BY DEF Front
      <4>1. \A i \in 1 .. Len(log) - 1 : log[i] \in Time
        BY <1>0
      <4>2. Len(log) - 1 \in Int
        BY <1>0
      <4> QED
        BY <4>1, <4>2, SubSeqProperties
    <3> QED
      BY <1>0, <1>9, <3>1 DEF reject_sample, del_last_line
  <2>2. cached' \in [Clients -> SUBSET Groups]
    BY <1>0, <1>9 DEF reject_sample, RecreateCache
  <2> QED
    BY <1>0, <1>9, <2>1, <2>2 DEF reject_sample, SameRequest
<1> QED
  BY <1>1, <1>3, <1>4, <1>5, <1>6, <1>7, <1>8, <1>9 DEF Next

--------------------------------------------------------------------------
(* The plan. *)

LEMMA PlanStep == IInv /\ [Next]_vars => (PlanFollowed /\ NoneTwice)'
<1> SUFFICES ASSUME IInv, [Next]_vars PROVE (PlanFollowed /\ NoneTwice)'
  OBVIOUS
<1>0. Types /\ PlanFollowed /\ NoneTwice
  BY DEF IInv
<1>1. CASE start_iteration
  <2>1. Len(plan') >= 1 /\ plan' \in Seq(Requests) /\ NoneTwice'
    BY <1>0, <1>1, PlansGood DEF start_iteration, GoodPlan, NoneTwice, Types
  <2>2. counted' = <<>> /\ pos' = 1 /\ phase' = "exec"
    BY <1>1 DEF start_iteration
  <2> QED
    BY <2>1, <2>2 DEF PlanFollowed
<1>2. ASSUME plan' = plan, pos' = pos, counted' = counted,
             phase' = phase \/ phase' = "failed" \/ (phase \in {"exec", "check"} /\ phase' = "check")
             \/ (phase = "sum" /\ phase' = "start")
      PROVE  (PlanFollowed /\ NoneTwice)'
  BY <1>0, <1>2 DEF PlanFollowed, NoneTwice
<1>3. ASSUME NEW v \in Time, client_exec(v) PROVE (PlanFollowed /\ NoneTwice)'
  BY <1>2, <1>3 DEF client_exec
<1>4. CASE client_exec_unlogged
  BY <1>2, <1>4 DEF client_exec_unlogged
<1>5. CASE client_exec_fails
  BY <1>2, <1>5 DEF client_exec_fails
<1>6. CASE sum_log
  BY <1>2, <1>6 DEF sum_log
<1>7. CASE UNCHANGED vars
  BY <1>2, <1>7 DEF vars, iterVars
<1>8. CASE accept_sample
  <2> DEFINE entry == [request |-> Request, ms |-> get_last_value, fresh |-> fresh]
  <2>1. /\ plan' = plan /\ counted' = Append(counted, entry) /\ pos' = pos + 1
        /\ phase' = (IF pos = Len(plan) THEN "sum" ELSE "exec") /\ phase = "check"
    BY <1>8 DEF accept_sample
  <2>2. entry.request = plan[pos]
    BY DEF Request
  <2> HIDE DEF entry
  <2>3. counted' \in Seq(Counted \cup {entry}) /\ Len(counted') = Len(counted) + 1 /\ Len(counted) \in Nat
        /\ \A i \in 1 .. Len(counted) : counted'[i] = counted[i]
        /\ counted'[Len(counted) + 1] = entry
    <3>1. counted \in Seq(Counted \cup {entry})
      BY <1>0 DEF Types
    <3> QED
      BY <2>1, <3>1, Appended
  <2>4. ASSUME NEW i \in DOMAIN counted' PROVE counted'[i].request = plan'[i]
    <3>1. i \in 1 .. Len(counted) \/ i = Len(counted) + 1
      BY <2>3
    <3> QED
      BY <1>0, <2>1, <2>2, <2>3, <3>1 DEF PlanFollowed, Types
  <2>5. pos <= Len(plan) /\ pos \in Nat /\ Len(plan) \in Nat
    BY <1>0, <2>1 DEF PlanFollowed, Types
  <2> QED
    BY <1>0, <2>1, <2>3, <2>4, <2>5 DEF PlanFollowed, NoneTwice
<1>9. CASE reject_sample
  <2>1. plan' = plan /\ pos' = pos /\ counted' = counted /\ phase = "check"
        /\ phase' = (IF pos > Len(plan) THEN "sum" ELSE "exec")
    BY <1>9 DEF reject_sample, SameRequest
  <2>2. pos <= Len(plan) /\ pos \in Nat /\ Len(plan) \in Nat
    BY <1>0, <2>1 DEF PlanFollowed, Types
  <2> QED
    BY <1>0, <2>1, <2>2 DEF PlanFollowed, NoneTwice
<1> QED
  BY <1>1, <1>3, <1>4, <1>5, <1>6, <1>7, <1>8, <1>9 DEF Next

--------------------------------------------------------------------------
(* The log. *)

\* A request without a sample changes no line and stands on the last one.
LEMMA SettledUnmeasured ==
  ASSUME NEW l \in Seq(Time), NEW c \in Seq(Counted), NEW e \in Counted,
         ~e.fresh, Len(l) \in DOMAIN l, e.ms = l[Len(l)], Settled(l, c)
  PROVE  Settled(l, Append(c, e))
<1> DEFINE d == Append(c, e)
           n == Len(c) + 1
<1>1. /\ Len(c) \in Nat /\ DOMAIN c = 1 .. Len(c) /\ DOMAIN d = 1 .. n
      /\ \A i \in 1 .. Len(c) : d[i] = c[i]
      /\ d[n] = e
  BY Appended
<1> HIDE DEF d
<1>2. MeasuredIn(d) = MeasuredIn(c)
  <2>1. ASSUME NEW i \in 1 .. n PROVE i \in 1 .. Len(c) \/ i = n
    BY <1>1
  <2> QED
    BY <1>1, <2>1 DEF MeasuredIn
<1>3. ASSUME NEW i \in DOMAIN d PROVE Line(d, i) \in DOMAIN l /\ l[Line(d, i)] = d[i].ms
  <2>1. CASE i = n
    <3>1. {k \in MeasuredIn(c) : k <= n} = MeasuredIn(c)
      BY <1>1 DEF MeasuredIn
    <3>2. Line(d, i) = Len(l)
      BY <1>2, <2>1, <3>1 DEF Line, Settled
    <3> QED
      BY <1>1, <2>1, <3>2
  <2>2. CASE i \in 1 .. Len(c)
    <3>1. Line(d, i) = Line(c, i)
      BY <1>2 DEF Line
    <3> QED
      BY <1>1, <2>2, <3>1 DEF Settled
  <2> QED
    BY <1>1, <2>1, <2>2
<1> QED
  BY <1>2, <1>3 DEF Settled, d

\* A sample is the next line.
LEMMA SettledMeasured ==
  ASSUME NEW l \in Seq(Time), NEW c \in Seq(Counted), NEW e \in Counted, NEW v \in Time,
         e.fresh, e.ms = v, ~OutOfRange(v), Settled(l, c)
  PROVE  Settled(Append(l, v), Append(c, e))
<1> DEFINE d == Append(c, e)
           m == Append(l, v)
           n == Len(c) + 1
<1>1. /\ Len(c) \in Nat /\ DOMAIN c = 1 .. Len(c) /\ DOMAIN d = 1 .. n
      /\ \A i \in 1 .. Len(c) : d[i] = c[i]
      /\ d[n] = e
  BY Appended
<1>2. /\ Len(l) \in Nat /\ DOMAIN l = 1 .. Len(l) /\ DOMAIN m = 1 .. Len(l) + 1
      /\ \A i \in 1 .. Len(l) : m[i] = l[i]
      /\ m[Len(l) + 1] = v /\ Len(m) = Len(l) + 1
  BY Appended
<1> HIDE DEF d, m
<1>3. MeasuredIn(d) = MeasuredIn(c) \cup {n} /\ n \notin MeasuredIn(c)
  <2>1. ASSUME NEW i \in 1 .. n PROVE i \in 1 .. Len(c) \/ i = n
    BY <1>1
  <2>2. n \notin 1 .. Len(c) /\ n \in 1 .. n
    BY <1>1
  <2> QED
    BY <1>1, <2>1, <2>2 DEF MeasuredIn
<1>4. IsFiniteSet(MeasuredIn(c)) /\ Cardinality(MeasuredIn(c)) \in Nat
  <2>1. IsFiniteSet(1 .. Len(c)) /\ MeasuredIn(c) \subseteq 1 .. Len(c)
    BY <1>1, FS_Interval DEF MeasuredIn
  <2> QED
    BY <2>1, FS_Subset, FS_CardinalityType
<1>5. Cardinality(MeasuredIn(d)) = Cardinality(MeasuredIn(c)) + 1
  BY <1>3, <1>4, FS_AddElement
<1>6. Len(l) = Cardinality(MeasuredIn(c))
  BY DEF Settled
<1>7. ASSUME NEW i \in DOMAIN d PROVE Line(d, i) \in DOMAIN m /\ m[Line(d, i)] = d[i].ms
  <2>1. CASE i = n
    <3>1. {k \in MeasuredIn(d) : k <= n} = MeasuredIn(d)
      BY <1>1 DEF MeasuredIn
    <3>2. Line(d, i) = Len(l) + 1
      BY <1>5, <1>6, <2>1, <3>1 DEF Line
    <3> QED
      BY <1>1, <1>2, <2>1, <3>2
  <2>2. CASE i \in 1 .. Len(c)
    <3>1. {k \in MeasuredIn(d) : k <= i} = {k \in MeasuredIn(c) : k <= i}
      BY <1>1, <1>3, <2>2
    <3>2. Line(d, i) = Line(c, i)
      BY <3>1 DEF Line
    <3>3. Line(c, i) \in 1 .. Len(l) /\ l[Line(c, i)] = c[i].ms
      BY <1>1, <1>2, <2>2 DEF Settled
    <3> QED
      BY <1>1, <1>2, <2>2, <3>2, <3>3
  <2> QED
    BY <1>1, <2>1, <2>2
<1>8. ASSUME NEW k \in DOMAIN m PROVE ~OutOfRange(m[k])
  <2>1. k \in 1 .. Len(l) \/ k = Len(l) + 1
    BY <1>2
  <2> QED
    BY <1>2, <2>1 DEF Settled
<1> QED
  BY <1>2, <1>5, <1>6, <1>7, <1>8 DEF Settled, d, m

\* An empty log goes with no request.
LEMMA SettledAtFirst == Settled(<<>>, <<>>)
<1>1. MeasuredIn(<<>>) = {}
  BY DEF MeasuredIn
<1> QED
  BY <1>1, FS_EmptySet DEF Settled

\* The last line is what the program sees.
LEMMA LastSeen ==
  ASSUME log \in Seq(Time)
  PROVE  /\ get_last_value = IF log = <<>> THEN LONG_MAX ELSE log[Len(log)]
         /\ log # <<>> => Len(log) \in DOMAIN log
  BY DEF get_last_value, Last

LEMMA LogStep == IInv /\ [Next]_vars => LogSettled'
<1> SUFFICES ASSUME IInv, [Next]_vars PROVE LogSettled'
  OBVIOUS
<1>0. Types /\ LogSettled /\ log \in Seq(Time) /\ counted \in Seq(Counted) /\ fresh \in BOOLEAN
  BY DEF IInv, Types
<1>1. CASE start_iteration
  BY <1>1, SettledAtFirst DEF start_iteration, LogSettled
<1>3. ASSUME NEW v \in Time, client_exec(v) PROVE LogSettled'
  <2>1. Settled(log, counted)
    BY <1>0, <1>3 DEF client_exec, LogSettled
  <2>2. log' = Append(log, v) /\ counted' = counted /\ fresh' /\ phase' = "check"
    BY <1>3 DEF client_exec
  <2> QED
    BY <1>0, <2>1, <2>2 DEF LogSettled
<1>4. CASE client_exec_unlogged
  BY <1>0, <1>4 DEF client_exec_unlogged, LogSettled
<1>5. CASE client_exec_fails
  BY <1>5 DEF client_exec_fails, LogSettled
<1>6. CASE sum_log
  BY <1>0, <1>6 DEF sum_log, LogSettled
<1>7. CASE UNCHANGED vars
  BY <1>0, <1>7 DEF vars, iterVars, LogSettled
<1>8. CASE accept_sample
  <2> DEFINE entry == [request |-> Request, ms |-> get_last_value, fresh |-> fresh]
  <2>1. /\ counted' = Append(counted, entry) /\ log' = log /\ phase = "check"
        /\ phase' \in {"sum", "exec"} /\ ~OutOfRange(get_last_value)
    BY <1>8 DEF accept_sample
  <2>2. log # <<>> /\ get_last_value = log[Len(log)] /\ Len(log) \in DOMAIN log
    BY <1>0, <2>1, LastSeen, NoLine
  <2>3. entry \in Counted /\ entry.ms = get_last_value /\ entry.fresh = fresh
    <3>1. plan[pos] \in Requests
      BY <2>1 DEF IInv, Types, PlanFollowed
    <3>2. get_last_value \in Int
      <4> DEFINE k == Len(log)
      <4>1. k \in DOMAIN log
        BY <2>2
      <4> HIDE DEF k
      <4>2. log[k] \in Time
        BY <1>0, <4>1
      <4> QED
        BY <2>2, <4>2, Counts DEF k
    <3> QED
      BY <1>0, <3>1, <3>2 DEF Counted, Request
  <2> HIDE DEF entry
  <2>4. CASE fresh
    <3>1. PICK l \in Seq(Time), v \in Time : log = Append(l, v) /\ Settled(l, counted)
      BY <1>0, <2>1, <2>4 DEF LogSettled
    <3>2. get_last_value = v
      BY <2>2, <3>1, Appended
    <3>3. Settled(log, counted')
      BY <1>0, <2>1, <2>3, <2>4, <3>1, <3>2, SettledMeasured
    <3> QED
      BY <2>1, <3>3 DEF LogSettled
  <2>5. CASE ~fresh
    <3>1. Settled(log, counted)
      BY <1>0, <2>1, <2>5 DEF LogSettled
    <3>2. Settled(log, counted')
      BY <1>0, <2>1, <2>2, <2>3, <2>5, <3>1, SettledUnmeasured
    <3> QED
      BY <2>1, <3>2 DEF LogSettled
  <2> QED
    BY <2>4, <2>5
<1>9. CASE reject_sample
  <2>1. /\ counted' = counted /\ log' = del_last_line(log) /\ phase = "check"
        /\ phase' \in {"sum", "exec"} /\ OutOfRange(get_last_value)
    BY <1>9 DEF reject_sample
  <2>2. CASE fresh
    <3>1. PICK l \in Seq(Time), v \in Time : log = Append(l, v) /\ Settled(l, counted)
      BY <1>0, <2>1, <2>2 DEF LogSettled
    <3>2. log' = l
      BY <2>1, <3>1, LastLine DEF del_last_line
    <3> QED
      BY <2>1, <3>1, <3>2 DEF LogSettled
  <2>3. CASE ~fresh
    <3>1. Settled(log, counted)
      BY <1>0, <2>1, <2>3 DEF LogSettled
    <3>2. log = <<>>
      BY <1>0, <2>1, <3>1, LastSeen DEF Settled
    <3>3. log' = log
      BY <2>1, <3>2 DEF del_last_line
    <3> QED
      BY <2>1, <3>1, <3>3 DEF LogSettled
  <2> QED
    BY <2>2, <2>3
<1> QED
  BY <1>1, <1>3, <1>4, <1>5, <1>6, <1>7, <1>8, <1>9 DEF Next

--------------------------------------------------------------------------
(* The caches. *)

LEMMA TicketsStep == IInv /\ [Next]_vars => TicketsRequested'
<1> SUFFICES ASSUME IInv, [Next]_vars PROVE TicketsRequested'
  OBVIOUS
<1>0. Types /\ TicketsRequested /\ PlanFollowed /\ NoneTwice
  BY DEF IInv
<1>1. CASE start_iteration
  BY <1>1 DEF start_iteration, TicketsRequested
<1>2. ASSUME GetsTicket \/ cached' = cached, phase = "exec", phase' = "check",
             plan' = plan, pos' = pos, ksm' = ksm
      PROVE  TicketsRequested'
  <2> SUFFICES ASSUME ksm = 2, NEW c \in Clients, NEW g \in cached'[c]
               PROVE  RequestedBefore(c, g, pos)'
    BY <1>2 DEF TicketsRequested
  <2>1. /\ plan[pos] \in Requests /\ pos \in DOMAIN plan /\ pos \in 1 .. pos
        /\ 1 .. pos - 1 \subseteq 1 .. pos
    BY <1>0, <1>2 DEF PlanFollowed, Types
  <2>2. PICK c0 \in Clients, g0 \in Groups : plan[pos] = [client |-> c0, group |-> g0]
    BY <2>1 DEF Requests
  <2>3. cached' = [cached EXCEPT ![c0] = @ \cup {g0}] \/ cached' = cached
    BY <1>2, <2>2 DEF GetsTicket, Request
  <2>4. g \in cached[c] \/ (c = c0 /\ g = g0)
    BY <1>0, <2>3 DEF Types
  <2>5. CASE g \in cached[c]
    <3>1. RequestedBefore(c, g, pos - 1)
      BY <1>0, <1>2, <2>5 DEF TicketsRequested
    <3> QED
      BY <1>2, <2>1, <3>1 DEF RequestedBefore
  <2>6. CASE c = c0 /\ g = g0
    BY <1>2, <2>1, <2>2, <2>6 DEF RequestedBefore
  <2> QED
    BY <2>4, <2>5, <2>6
<1>3. ASSUME NEW v \in Time, client_exec(v) PROVE TicketsRequested'
  BY <1>2, <1>3 DEF client_exec
<1>4. CASE client_exec_unlogged
  BY <1>2, <1>4 DEF client_exec_unlogged
<1>5. CASE client_exec_fails
  BY <1>5 DEF client_exec_fails, TicketsRequested
<1>6. CASE sum_log
  BY <1>6 DEF sum_log, TicketsRequested
<1>7. CASE UNCHANGED vars
  BY <1>0, <1>7 DEF vars, iterVars, TicketsRequested, RequestedBefore
<1>8. CASE accept_sample
  <2>1. /\ cached' = cached /\ plan' = plan /\ pos' = pos + 1 /\ ksm' = ksm
        /\ phase = "check" /\ phase' \in {"sum", "exec"}
    BY <1>8 DEF accept_sample
  <2>2. pos' - 1 = pos
    BY <1>0, <2>1 DEF Types
  <2> QED
    BY <1>0, <2>1, <2>2 DEF TicketsRequested, RequestedBefore
<1>9. CASE reject_sample
  <2>1. /\ plan' = plan /\ pos' = pos /\ ksm' = ksm /\ phase = "check"
        /\ phase' \in {"sum", "exec"} /\ RecreateCache(Request.client)
    BY <1>9 DEF reject_sample, SameRequest
  <2> SUFFICES ASSUME ksm = 2, NEW c \in Clients, NEW g \in cached'[c]
               PROVE  RequestedBefore(c, g, pos - 1)'
    BY <2>1 DEF TicketsRequested
  <2>2. plan[pos] \in Requests /\ pos \in Int
    BY <1>0, <2>1 DEF PlanFollowed, Types
  <2>3. PICK c0 \in Clients, g0 \in Groups : plan[pos] = [client |-> c0, group |-> g0]
    BY <2>2 DEF Requests
  <2>4. cached' = [cached EXCEPT ![c0] = {}]
    BY <2>1, <2>3 DEF RecreateCache, Request
  <2>5. c # c0 /\ g \in cached[c]
    BY <1>0, <2>4 DEF Types
  <2>6. PICK i \in 1 .. pos : i \in DOMAIN plan /\ plan[i] = [client |-> c, group |-> g]
    BY <1>0, <2>1, <2>5 DEF TicketsRequested, RequestedBefore
  <2>7. i # pos
    BY <2>3, <2>5, <2>6
  <2>8. i \in 1 .. pos - 1
    BY <2>2, <2>6, <2>7
  <2> QED
    BY <2>1, <2>6, <2>8 DEF RequestedBefore
<1> QED
  BY <1>1, <1>3, <1>4, <1>5, <1>6, <1>7, <1>8, <1>9 DEF Next

--------------------------------------------------------------------------
(* The result and the rejected samples. *)

\* The lines of a settled log are 0 .. 100.
LEMMA SettledNaturals ==
  ASSUME NEW l \in Seq(Time), NEW c, Settled(l, c)
  PROVE  l \in Seq(Nat)
<1>1. \A i \in 1 .. Len(l) : l[i] \in Nat
  <2> SUFFICES ASSUME NEW i \in 1 .. Len(l) PROVE l[i] \in Nat
    OBVIOUS
  <2>1. l[i] \in Time
    OBVIOUS
  <2>2. PICK v \in Int : v = l[i]
    BY <2>1, Counts
  <2>3. ~OutOfRange(v)
    BY <2>2 DEF Settled
  <2> QED
    BY <2>2, <2>3 DEF OutOfRange
<1> QED
  BY <1>1

\* What an iteration returns.
LEMMA ResultNatural ==
  ASSUME log \in Seq(Nat), plan \in Seq(Requests)
  PROVE  Result \in Nat
<1> DEFINE lines == IF Len(plan) < Len(log) THEN Len(plan) ELSE Len(log)
           total == Sum(SubSeq(log, 1, lines))
<1>1. lines \in 0 .. Len(log)
  OBVIOUS
<1> HIDE DEF lines
<1>2. SubSeq(log, 1, lines) \in Seq(Nat)
  <2>1. \A i \in 1 .. lines : log[i] \in Nat
    BY <1>1
  <2>2. lines \in Nat
    BY <1>1
  <2> QED
    BY <2>1, <2>2, SubSeqProperties
<1>3. total \in Nat
  BY <1>2, SumOfNaturals
<1> HIDE DEF total
<1>4. total \div ClientCount \in Nat
  BY <1>3, Counts, DivMod
<1>5. Result = IF program = "test4" THEN total \div ClientCount ELSE total
  BY DEF Result, total, lines
<1> QED
  BY <1>3, <1>4, <1>5

LEMMA BoundedStep == IInv /\ [Next]_vars => Bounded'
<1> SUFFICES ASSUME IInv, [Next]_vars PROVE Bounded'
  OBVIOUS
<1>0. Types /\ LogSettled /\ Bounded /\ log \in Seq(Time) /\ MaxReject \in Nat
  BY CountAssumption DEF IInv, Types
<1>a. ASSUME y' \in Nat, rejected' = rejected, phase' # "check" PROVE Bounded'
  BY <1>0, <1>a DEF Bounded
<1>1. CASE start_iteration
  BY <1>0, <1>1 DEF start_iteration, Bounded
<1>2. ASSUME NEW v \in Time, client_exec(v) PROVE Bounded'
  <2>1. /\ y' = y /\ rejected' = rejected /\ log' = Append(log, v)
        /\ OutOfRange(v) => rejected < MaxReject
    BY <1>2 DEF client_exec
  <2>2. get_last_value' = v
    BY <1>0, <2>1, LastLine DEF get_last_value
  <2> QED
    BY <1>0, <2>1, <2>2 DEF Bounded, OutOfRange
<1>3. CASE client_exec_unlogged
  <2>1. /\ y' = y /\ rejected' = rejected /\ log' = log /\ phase = "exec"
        /\ log = <<>> => rejected < MaxReject
    BY <1>3 DEF client_exec_unlogged
  <2>2. get_last_value' = get_last_value
    BY <2>1 DEF get_last_value
  <2>3. log # <<>> => ~OutOfRange(get_last_value)
    BY <1>0, <2>1, LastSeen DEF LogSettled, Settled
  <2> QED
    BY <1>0, <2>1, <2>2, <2>3 DEF Bounded, OutOfRange
<1>4. CASE client_exec_fails
  BY <1>0, <1>4, <1>a DEF client_exec_fails, Bounded
<1>5. CASE sum_log
  <2>1. Settled(log, counted) /\ plan \in Seq(Requests)
    BY <1>0, <1>5 DEF sum_log, LogSettled, Types
  <2>2. Result \in Nat
    BY <1>0, <2>1, SettledNaturals, ResultNatural
  <2> QED
    BY <1>5, <1>a, <2>2 DEF sum_log
<1>6. CASE accept_sample
  BY <1>0, <1>6, <1>a DEF accept_sample, Bounded
<1>7. CASE reject_sample
  <2>1. /\ y' = y /\ rejected' = rejected + 1 /\ rejected < MaxReject
        /\ phase' \in {"sum", "exec"}
    BY <1>0, <1>7 DEF reject_sample, Bounded
  <2> QED
    BY <1>0, <2>1 DEF Bounded
<1>8. CASE UNCHANGED vars
  <2>1. y' = y /\ rejected' = rejected /\ phase' = phase /\ get_last_value' = get_last_value
    BY <1>8 DEF vars, iterVars, get_last_value
  <2> QED
    BY <1>0, <2>1 DEF Bounded, OutOfRange
<1> QED
  BY <1>1, <1>2, <1>3, <1>4, <1>5, <1>6, <1>7, <1>8 DEF Next

--------------------------------------------------------------------------
\* The inductive invariant holds in every state of the test programs.
THEOREM InductiveInvariant == Spec => []IInv
<1>1. Init => IInv
  BY TypeInit, SettledAtFirst, CountAssumption
     DEF Init, IInv, PlanFollowed, NoneTwice, LogSettled, TicketsRequested, Bounded
<1>2. IInv /\ [Next]_vars => IInv'
  BY TypeStep, PlanStep, LogStep, TicketsStep, BoundedStep DEF IInv
<1> QED
  BY <1>1, <1>2, PTL DEF Spec

\* Every variable of an iteration has its type: the plans are lists of requests
\* whatever the permutations drawn, only as many samples are rejected as were
\* out of range, and the sum of the log is a natural number although a client
\* may log anything.
THEOREM TypeCorrect == Spec => []TypeOK
<1>1. IInv => TypeOK
  <2> SUFFICES ASSUME IInv PROVE TypeOK
    OBVIOUS
  <2>1. pos \in 1 .. Len(plan) + 1
    BY DEF IInv, Types, PlanFollowed
  <2> QED
    BY <2>1 DEF IInv, Types, Bounded, TypeOK, Requests, Counted
<1> QED
  BY <1>1, InductiveInvariant, PTL

\* Between two clients the log is the samples of the requests counted, each in
\* its line, whatever was rejected and whoever failed.
THEOREM LogHoldsSamples == Spec => []LogIsMeasured
<1>1. IInv => LogIsMeasured
  BY DEF IInv, LogSettled, LogIsMeasured, Settled, Line, MeasuredIn, Measured
<1> QED
  BY <1>1, InductiveInvariant, PTL

\* The plan is followed without a gap or a repetition.
THEOREM PlanWorkedOff == Spec => []RequestsInOrder
<1>1. IInv => RequestsInOrder
  BY DEF IInv, PlanFollowed, RequestsInOrder
<1> QED
  BY <1>1, InductiveInvariant, PTL

\* In KSM2 no client is run that would wait for ever for a call.
THEOREM NobodyHangs == Spec => []NeverRunCached
<1>1. IInv => NeverRunCached
  <2> SUFFICES ASSUME IInv, phase = "exec", ksm = 2, Request.group \in cached[Request.client]
               PROVE  FALSE
    BY DEF NeverRunCached, Hangs
  <2>1. plan[pos] \in Requests /\ pos \in DOMAIN plan /\ pos \in Int
    BY DEF IInv, PlanFollowed, Types
  <2>2. PICK c \in Clients, g \in Groups : plan[pos] = [client |-> c, group |-> g]
    BY <2>1 DEF Requests
  <2>3. g \in cached[c]
    BY <2>2 DEF Request
  <2>4. PICK i \in 1 .. pos - 1 : i \in DOMAIN plan /\ plan[i] = [client |-> c, group |-> g]
    BY <2>3 DEF IInv, TicketsRequested, RequestedBefore
  <2>5. i = pos
    BY <2>1, <2>2, <2>4 DEF IInv, NoneTwice
  <2> QED
    BY <2>1, <2>4, <2>5
<1> QED
  BY <1>1, InductiveInvariant, PTL
==========================================================================
