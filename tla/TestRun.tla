----------------------------- MODULE TestRun -----------------------------
(***************************************************************************)
(* One iteration of the test programs: test1() of test1.c to test4() of    *)
(* test4.c.  It creates the clients' caches and runs every client for its  *)
(* groups, one after the other.  A client that completes appends its time  *)
(* to the time log; the program looks at the log's last line and deletes   *)
(* it and repeats the request if the value is out of range.  The sum of    *)
(* the log is the iteration's result.  Series has what calls it, once and  *)
(* again.                                                                  *)
(*                                                                         *)
(* The programs differ in the order of their requests.  Clients are        *)
(* numbered from 0 and groups from 1.  In KSM2 a client whose ticket for   *)
(* the group is cached waits for a call that never comes (see Km2).        *)
(***************************************************************************)
EXTENDS Arithmetic, SequencesExt, FiniteSets

CONSTANTS
  Program,       \* the programs, a subset of {"test1", .. "test4"}
  Ksm,           \* the key management used: a subset of {1, 2}
  ClientCount,   \* num_of_clients; test3's group_size
  GroupCount,    \* group_count
  AssignedCount, \* assigned_group_count, of test1 and test4
  Time,          \* what a client may log, in milliseconds
  Fault,         \* subset of {"client_fails", "fork_fails"}
  MaxReject      \* bound: rejected samples per iteration

ASSUME CountAssumption ==
  /\ {ClientCount, GroupCount} \subseteq Nat \ {0}
  /\ AssignedCount \in 1 .. GroupCount
  /\ Time \subseteq Int
  /\ MaxReject \in Nat
ASSUME ChoiceAssumption ==
  /\ Program \subseteq {"test1", "test2", "test3", "test4"}
  /\ Ksm \subseteq {1, 2}
  /\ Fault \subseteq {"client_fails", "fork_fails"}

Clients == 0 .. ClientCount - 1
Groups  == 1 .. GroupCount
LONG_MAX == 1000000        \* stands for a value no client logs

VARIABLES
  program, ksm, \* the program, and the key management it measures
  phase,        \* where it is
  plan,         \* the requests of this iteration, in order
  pos,          \* the request it is at
  cached,       \* cached[c]: groups client c's cache holds a ticket for
  log,          \* the time log
  fresh,        \* the last client that ran has logged its time
  counted,      \* history: the requests taken as completed
  rejected,     \* number of samples rejected in this iteration
  y             \* what the last iteration returned

iterVars == <<plan, pos, cached, log, fresh, counted, rejected>>
vars == <<program, ksm, phase, iterVars, y>>

Init ==
  /\ program \in Program
  /\ ksm \in Ksm
  /\ phase = "start"
  /\ plan = <<>> /\ pos = 1
  /\ cached = [c \in Clients |-> {}]
  /\ log = <<>>
  /\ fresh = FALSE
  /\ counted = <<>>
  /\ rejected = 0
  /\ y = 0

(***************************************************************************)
(* The order of the requests.                                              *)
(***************************************************************************)
\* For each client in turn, the first count of its groups f[c].
ByClient(f, count) ==
  [k \in 1 .. ClientCount * count |->
     LET c == (k - 1) \div count
     IN  [client |-> c, group |-> f[c][((k - 1) % count) + 1]]]

\* Each client asks for the first groups of a permutation of its own.
test1_plans == {ByClient(p, AssignedCount) : p \in [Clients -> SetToSeqs(Groups)]}

\* Each client asks for every group.
test2_plans == {ByClient([c \in Clients |-> [g \in Groups |-> g]], GroupCount)}

\* For each group in turn, its members in an order of its own.
test3_plans ==
  {[k \in 1 .. GroupCount * ClientCount |->
      LET g == ((k - 1) \div ClientCount) + 1
      IN  [client |-> p[g][((k - 1) % ClientCount) + 1], group |-> g]] :
     p \in [Groups -> SetToSeqs(Clients)]}

\* Each client asks for the first groups (TEST4_CASE_B).
test4_plans ==
  {ByClient([c \in Clients |-> [g \in 1 .. AssignedCount |-> ((g - 1) % GroupCount) + 1]],
            AssignedCount)}

Plans == CASE program = "test1" -> test1_plans
           [] program = "test2" -> test2_plans
           [] program = "test3" -> test3_plans
           [] program = "test4" -> test4_plans

(***************************************************************************)
(* Helpers of test_util.c.                                                 *)
(***************************************************************************)
\* The number in the last line of the log, or LONG_MAX if it is empty.
get_last_value == IF log = <<>> THEN LONG_MAX ELSE Last(log)

Mut_TooHigh(v) == v > 100
OutOfRange(v) == v > 100 \/ v < 0

\* sed '$d': without the last line, if there is one.
Mut_KeepsLine(l) == l
del_last_line(l) == IF l = <<>> THEN l ELSE Front(l)

\* In KSM2 the client's cache is destroyed and made anew.
Mut_OldCache(c) == cached' = cached
RecreateCache(c) == cached' = IF ksm = 2 THEN [cached EXCEPT ![c] = {}] ELSE cached

\* The loop comes back to the same request: j--, j++.
Mut_NextRequest == pos' = pos + 1
SameRequest == pos' = pos

\* As many lines of the log as there were requests; test4 divides.
Result ==
  LET total == Sum(SubSeq(log, 1, IF Len(plan) < Len(log) THEN Len(plan) ELSE Len(log)))
  IN  IF program = "test4" THEN total \div ClientCount ELSE total

(***************************************************************************)
(* An iteration: test1() .. test4().                                       *)
(***************************************************************************)
\* The log is cleared, the principals and caches are created.
start_iteration ==
  /\ phase = "start"
  /\ plan' \in Plans
  /\ pos' = 1
  /\ cached' = [c \in Clients |-> {}]
  /\ log' = <<>>
  /\ fresh' = FALSE
  /\ counted' = <<>>
  /\ rejected' = 0
  /\ phase' = "exec"
  /\ UNCHANGED <<program, ksm, y>>

Request == plan[pos]

\* The client gets its ticket, if it has none.
GetsTicket == cached' = [cached EXCEPT ![Request.client] = @ \cup {Request.group}]

\* The client has the ticket and, in KSM2, will not be called.
Hangs == ksm = 2 /\ Request.group \in cached[Request.client]

client_exec(v) ==
  /\ phase = "exec" /\ ~Hangs
  /\ OutOfRange(v) => rejected < MaxReject
  /\ log' = Append(log, v)
  /\ fresh' = TRUE
  /\ GetsTicket
  /\ phase' = "check"
  /\ UNCHANGED <<program, ksm, plan, pos, counted, rejected, y>>

\* The client ends without logging; system() returns its status, not -1.
client_exec_unlogged ==
  /\ "client_fails" \in Fault
  /\ phase = "exec" /\ ~Hangs
  /\ log = <<>> => rejected < MaxReject
  /\ fresh' = FALSE
  /\ GetsTicket \/ cached' = cached
  /\ phase' = "check"
  /\ UNCHANGED <<program, ksm, plan, pos, log, counted, rejected, y>>

\* system() returns -1: everything is removed, exit(1).
client_exec_fails ==
  /\ "fork_fails" \in Fault
  /\ phase = "exec"
  /\ cached' = [c \in Clients |-> {}]
  /\ phase' = "failed"
  /\ UNCHANGED <<program, ksm, plan, pos, log, fresh, counted, rejected, y>>

reject_sample ==
  /\ phase = "check" /\ OutOfRange(get_last_value)
  /\ log' = del_last_line(log)
  /\ RecreateCache(Request.client)
  /\ SameRequest
  /\ rejected' = rejected + 1
  /\ phase' = IF pos' > Len(plan) THEN "sum" ELSE "exec"
  /\ UNCHANGED <<program, ksm, plan, fresh, counted, y>>

accept_sample ==
  /\ phase = "check" /\ ~OutOfRange(get_last_value)
  /\ counted' = Append(counted, [request |-> Request, ms |-> get_last_value, fresh |-> fresh])
  /\ pos' = pos + 1
  /\ phase' = IF pos = Len(plan) THEN "sum" ELSE "exec"
  /\ UNCHANGED <<program, ksm, plan, cached, log, fresh, rejected, y>>

\* The log is summed, the caches are removed.
sum_log ==
  /\ phase = "sum"
  /\ y' = Result
  /\ cached' = [c \in Clients |-> {}]
  /\ phase' = "start"
  /\ UNCHANGED <<program, ksm, plan, pos, log, fresh, counted, rejected>>

Next ==
  \/ start_iteration
  \/ \E v \in Time : client_exec(v)
  \/ client_exec_unlogged
  \/ client_exec_fails
  \/ reject_sample
  \/ accept_sample
  \/ sum_log

Spec == Init /\ [][Next]_vars

--------------------------------------------------------------------------
(***************************************************************************)
(* Properties.                                                             *)
(***************************************************************************)
\* Every variable has its type.
TypeOK ==
  /\ program \in Program /\ ksm \in Ksm
  /\ phase \in {"start", "exec", "check", "sum", "failed"}
  /\ plan \in Seq([client : Clients, group : Groups])
  /\ pos \in 1 .. Len(plan) + 1
  /\ cached \in [Clients -> SUBSET Groups]
  /\ log \in Seq(Time)
  /\ fresh \in BOOLEAN
  /\ counted \in Seq([request : [client : Clients, group : Groups], ms : Int, fresh : BOOLEAN])
  /\ rejected \in 0 .. MaxReject
  /\ y \in Nat

\* The requests counted so far whose client logged its time.
Measured == {i \in DOMAIN counted : counted[i].fresh}

\* Between two clients the log holds exactly the samples of the requests
\* counted so far, in their order, line n that of the n-th one measured:
\* deleting a last line never takes another client's sample, and leaves none
\* that was rejected, although the program never knows whether the last line is
\* from the client it has just run.  A request whose client logged nothing
\* passes for done on the sample of the last one measured before it
\* (get_last_value reads that line again), and on no other; the first client
\* has to log.
LogIsMeasured ==
  phase \in {"start", "exec", "sum"} =>
    /\ Len(log) = Cardinality(Measured)
    /\ \A i \in DOMAIN counted :
         LET line == Cardinality({k \in Measured : k <= i})
         IN  line > 0 /\ log[line] = counted[i].ms

\* The plan is worked off without a gap: the counted requests are the first
\* of the plan, each once, and all of it when the log is summed.
RequestsInOrder ==
  /\ Len(counted) <= Len(plan)
  /\ \A i \in DOMAIN counted : counted[i].request = plan[i]
  /\ phase \in {"start", "sum"} => Len(counted) = Len(plan)

\* No client is run in KSM2 with a ticket for its group in the cache: neither
\* the order of the groups, nor a repeated request, nor a client that failed
\* after it had got its ticket brings that about.  kdestroy and kinit are taken
\* to work when test_util.c has system() run them (it does not look).
NeverRunCached == phase = "exec" => ~Hangs
==========================================================================
