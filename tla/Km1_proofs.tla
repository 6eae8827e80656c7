---------------------------- MODULE Km1_proofs ----------------------------
(***************************************************************************)
(* Proofs about KM1 for every set of clients, every bound and every set of *)
(* failures: what a client accepts, where the TGKs are, the order of       *)
(* service, and the refinement of the abstract key transport.              *)
(***************************************************************************)
EXTENDS Km1, TLAPS

USE DEF NoKey

--------------------------------------------------------------------------
(***************************************************************************)
(* The inductive invariant: what the two ends of a connection agree on,    *)
(* whose key a message is made with, and the order of the connections.     *)
(***************************************************************************)
\* gcks1's answer in its parts, and how many of them c has read of the answer
\* to its run and gcks1 has written to the connection it has accepted.
Answer == <<"ap_rep", "length", "data">>
Consumed(c) == IF pc[c] = "body" THEN 2 ELSE IF pc[c] = "read" THEN 1 ELSE 0
Written     == IF gpc = "body" THEN 2 ELSE IF gpc \in {"create", "write"} THEN 1 ELSE 0

\* s is what is in the connection after the first n parts of an answer.
Follows(s, n) ==
  /\ n + Len(s) <= Len(Answer)
  /\ \A i \in DOMAIN s : s[i].kind = Answer[n + i]

Waiting(c) == pc[c] \in {"rep", "read", "body"}      \* it has sent its AP_REQ

\* A client reads a rejection, or the parts of one answer in their order.
StreamsFollow ==
  \A c \in Client :
    /\ ~Waiting(c) => wire[c] = <<>>
    /\ \/ Follows(wire[c], Consumed(c))
       \/ pc[c] = "rep" /\ wire[c] = <<[kind |-> "reject"]>>

\* It waits for what the server of its connection has still to write; in the
\* queue it has asked for nothing yet.
EndsAgree ==
  /\ acc # NONE /\ Alive(acc) =>
       /\ pc[acc.client] # "connect"
       /\ Waiting(acc.client) <=> apReq # NONE
       /\ Follows(wire[acc.client], Consumed(acc.client))
       /\ Consumed(acc.client) + Len(wire[acc.client]) = Written
  /\ \A i \in DOMAIN backlog :
       Alive(backlog[i]) => pc[backlog[i].client] \in {"creds", "auth"}

\* A session key stays its owner's, in the cache and in the AP_REQ.
IsIssued(c, k) == k \in DOMAIN owner /\ owner[k] = c
KeysOwned ==
  /\ \A c \in Client : ticket[c] # NoKey => IsIssued(c, ticket[c])
  /\ apReq # NONE => /\ acc # NONE /\ apReq.client = acc.client
                     /\ apReq.key # NoKey => IsIssued(acc.client, apReq.key)
  /\ gpc \in {"create", "write", "body"} => apReq.key # NoKey
  /\ \A n \in DOMAIN made : /\ made[n].tgk = n
                            /\ IsIssued(made[n].conn.client, made[n].key)

\* A message is one gcks1 made, or empty, and stays in its connection.
Genuine(m) ==
  IF m.key = NoKey THEN m.tgk = NoKey ELSE m.tgk \in DOMAIN made /\ m = made[m.tgk]
MessagesInPlace ==
  /\ reply # NONE => Genuine(reply) /\ reply.conn = acc
  /\ \A c \in Client : \A i \in DOMAIN wire[c] : wire[c][i].kind = "data" =>
       Genuine(wire[c][i].msg) /\ wire[c][i].msg.conn = ConnOf(c)
  /\ \A r \in receipts : /\ Genuine(r.msg) /\ r.msg.conn = r.conn
                         /\ r.ok => r.msg.key # NoKey

\* A run makes one connection.
ConnectsOnce ==
  /\ \A i, j \in DOMAIN arrivals : arrivals[i] = arrivals[j] => i = j
  /\ \A i \in DOMAIN arrivals :
       \/ arrivals[i].run < run[arrivals[i].client]
       \/ arrivals[i].run = run[arrivals[i].client] /\ pc[arrivals[i].client] # "connect"

\* gcks1 has served, serves and will serve connections in their order.
Came(x) == \E i \in DOMAIN arrivals : arrivals[i] = x
CameBefore(x, y) ==
  \E i, j \in DOMAIN arrivals : i < j /\ arrivals[i] = x /\ arrivals[j] = y
ConnectionsInOrder ==
  /\ \A n \in DOMAIN made : Came(made[n].conn)
  /\ acc # NONE => Came(acc)
  /\ \A i \in DOMAIN backlog : Came(backlog[i])
  /\ \A m, n \in DOMAIN made : m < n => CameBefore(made[m].conn, made[n].conn)
  /\ \A i, j \in DOMAIN backlog : i < j => CameBefore(backlog[i], backlog[j])
  /\ \A m \in DOMAIN made : \A i \in DOMAIN backlog : CameBefore(made[m].conn, backlog[i])
  /\ acc # NONE => \A i \in DOMAIN backlog : CameBefore(acc, backlog[i])
  /\ acc # NONE /\ reply = NONE => \A m \in DOMAIN made : CameBefore(made[m].conn, acc)

\* The inductive invariant.
IInv ==
  /\ TypeOK
  /\ StreamsFollow
  /\ EndsAgree
  /\ KeysOwned
  /\ MessagesInPlace
  /\ EveryTgkAccountedFor
  /\ ConnectsOnce
  /\ ConnectionsInOrder

--------------------------------------------------------------------------
(* Streams. *)

\* The TGKs in a stream are those of its data.
LEMMA TgkInStream ==
  ASSUME NEW s, NEW k
  PROVE  k \in TgksIn(s) <=> /\ k # NoKey
                             /\ \E i \in DOMAIN s : s[i].kind = "data" /\ s[i].msg.tgk = k
BY DEF TgksIn, ToSet

LEMMA TgksOfNone == TgksIn(<<>>) = {}
BY TgkInStream

\* A message that is written brings its TGK, and nothing else does.
LEMMA TgksOfAppend ==
  ASSUME NEW s \in Seq(Item), NEW e \in Item
  PROVE  TgksIn(Append(s, e)) =
           TgksIn(s) \cup (IF e.kind = "data" THEN {e.msg.tgk} \ {NoKey} ELSE {})
<1> DEFINE t == Append(s, e)
<1>1. /\ DOMAIN t = DOMAIN s \cup {Len(s) + 1}
      /\ \A i \in DOMAIN s : t[i] = s[i]
      /\ t[Len(s) + 1] = e
  OBVIOUS
<1> HIDE DEF t
<1>2. ASSUME NEW k
      PROVE  k \in TgksIn(t) <=> \/ k \in TgksIn(s)
                                 \/ e.kind = "data" /\ k = e.msg.tgk /\ k # NoKey
  BY <1>1, TgkInStream
<1>3. TgksIn(t) = TgksIn(s) \cup (IF e.kind = "data" THEN {e.msg.tgk} \ {NoKey} ELSE {})
  BY <1>2
<1> QED
  BY <1>3 DEF t

\* Reading something else than a message takes none away.
LEMMA TgksOfTail ==
  ASSUME NEW s \in Seq(Item), s # <<>>, Head(s).kind # "data"
  PROVE  TgksIn(Tail(s)) = TgksIn(s)
<1> DEFINE t == Tail(s)
<1>1. /\ s[1].kind # "data"
      /\ \A i \in DOMAIN s : i = 1 \/ (i - 1 \in DOMAIN t /\ t[i - 1] = s[i])
      /\ \A i \in DOMAIN t : i + 1 \in DOMAIN s /\ t[i] = s[i + 1]
  OBVIOUS
<1> HIDE DEF t
<1>2. ASSUME NEW k PROVE k \in TgksIn(t) <=> k \in TgksIn(s)
  BY <1>1, TgkInStream
<1> QED
  BY <1>2 DEF t

\* The parts of an answer.
LEMMA Parts == Len(Answer) = 3 /\ Answer[1] = "ap_rep" /\ Answer[2] = "length" /\ Answer[3] = "data"
BY DEF Answer

LEMMA NothingFollows == ASSUME NEW n \in 0 .. 3 PROVE Follows(<<>>, n)
BY Parts DEF Follows

LEMMA NextPartFollows ==
  ASSUME NEW s \in Seq(Item), NEW n \in 0 .. 2, Follows(s, n), n + Len(s) < 3,
         NEW e, e.kind = Answer[n + Len(s) + 1]
  PROVE  Follows(Append(s, e), n) /\ Len(Append(s, e)) = Len(s) + 1
<1> DEFINE t == Append(s, e)
<1>1. /\ Len(t) = Len(s) + 1 /\ Len(s) \in Nat
      /\ \A i \in DOMAIN t : \/ i \in DOMAIN s /\ t[i] = s[i]
                             \/ i = Len(s) + 1 /\ t[i] = e
  OBVIOUS
<1> HIDE DEF t
<1>2. \A i \in DOMAIN t : t[i].kind = Answer[n + i]
  BY <1>1 DEF Follows
<1>3. n + Len(t) <= Len(Answer)
  BY <1>1, Parts
<1> QED
  BY <1>1, <1>2, <1>3 DEF Follows, t

LEMMA RestFollows ==
  ASSUME NEW s \in Seq(Item), s # <<>>, NEW n \in 0 .. 2, Follows(s, n)
  PROVE  /\ Head(s).kind = Answer[n + 1]
         /\ Follows(Tail(s), n + 1)
         /\ Len(Tail(s)) = Len(s) - 1
<1> DEFINE t == Tail(s)
<1>1. /\ Len(t) = Len(s) - 1 /\ Len(s) \in Nat /\ 1 \in DOMAIN s /\ Head(s) = s[1]
      /\ \A i \in DOMAIN t : i \in Nat /\ i + 1 \in DOMAIN s /\ t[i] = s[i + 1]
  OBVIOUS
<1> HIDE DEF t
<1>2. \A i \in DOMAIN t : t[i].kind = Answer[n + 1 + i]
  <2> SUFFICES ASSUME NEW i \in DOMAIN t PROVE t[i].kind = Answer[n + 1 + i]
    OBVIOUS
  <2>1. t[i].kind = Answer[n + (i + 1)]
    BY <1>1 DEF Follows
  <2>2. n + (i + 1) = n + 1 + i
    BY <1>1
  <2> QED
    BY <2>1, <2>2
<1>3. n + 1 + Len(t) <= Len(Answer)
  BY <1>1, Parts DEF Follows
<1> QED
  BY <1>1, <1>2, <1>3 DEF Follows, t

\* After the length comes the message, and nothing behind it.
LEMMA MessageIsLast ==
  ASSUME NEW s \in Seq(Item), s # <<>>, Follows(s, 2)
  PROVE  /\ 1 \in DOMAIN s /\ Head(s) = s[1] /\ s[1] \in Item /\ s[1].kind = "data"
         /\ s[1].msg \in Msg
         /\ TgksIn(s) = {s[1].msg.tgk} \ {NoKey}
<1>1. /\ 1 \in DOMAIN s /\ Head(s) = s[1] /\ s[1] \in Item
      /\ Len(s) = 1 /\ DOMAIN s = {1}
  <2>1. Len(s) \in Nat /\ 2 + Len(s) <= 3 /\ Len(s) # 0
    BY Parts DEF Follows
  <2>2. \A n \in Nat : 2 + n <= 3 /\ n # 0 => n = 1
    OBVIOUS
  <2>3. Len(s) = 1
    BY <2>1, <2>2
  <2> QED
    BY <2>3
<1>2. s[1].kind = "data"
  BY <1>1, Parts DEF Follows
<1>3. s[1].msg \in Msg
  BY <1>1, <1>2 DEF Item
<1>4. \A k : k \in TgksIn(s) <=> k # NoKey /\ k = s[1].msg.tgk
  BY <1>1, <1>2, TgkInStream
<1> QED
  BY <1>1, <1>2, <1>3, <1>4

\* TGKs are numbers.
LEMMA TgksAreNumbers == ASSUME NEW s \in Seq(Item) PROVE TgksIn(s) \subseteq Nat
<1> SUFFICES ASSUME NEW k \in TgksIn(s) PROVE k \in Nat
  OBVIOUS
<1>1. PICK i \in DOMAIN s : s[i].kind = "data" /\ s[i].msg.tgk = k
  BY TgkInStream
<1>2. s[i] \in Item
  OBVIOUS
<1>3. s[i].msg \in Msg
  BY <1>1, <1>2 DEF Item
<1> QED
  BY <1>1, <1>3 DEF Msg

--------------------------------------------------------------------------
(* What a step does to a client's end of its connection. *)

Same(c)     == pc'[c] = pc[c] /\ wire'[c] = wire[c] /\ run'[c] = run[c]
Prepares(c) == /\ pc[c] \in {"connect", "creds"} /\ pc'[c] \in {"creds", "auth"}
               /\ wire'[c] = wire[c] /\ run'[c] = run[c]
Leaves(c)   == pc[c] \notin Idle /\ pc'[c] \in Idle /\ wire'[c] = <<>> /\ run'[c] = run[c]
Gets(c, item) ==
  /\ acc # NONE /\ Alive(acc) /\ acc.client = c
  /\ pc' = pc /\ run' = run /\ wire' = [wire EXCEPT ![c] = Append(wire[c], item)]

\* gcks1 writes to the client of its connection if it is alive.
LEMMA WriteGets ==
  ASSUME TypeOK, NEW item, acc # NONE, Write(item), pc' = pc, run' = run, NEW c \in Client
  PROVE  Same(c) \/ Gets(c, item)
<1>1. CASE Alive(acc) /\ acc.client = c
  BY <1>1 DEF Write, Gets
<1>2. CASE ~(Alive(acc) /\ acc.client = c)
  BY <1>2 DEF Write, Same, TypeOK
<1> QED
  BY <1>1, <1>2

\* A client's step leaves the others' ends alone.
LEMMA OthersStay ==
  ASSUME TypeOK, NEW d \in Client, UserNext(d) \/ RunStep(d), NEW c \in Client, c # d
  PROVE  Same(c)
BY DEF UserNext, RunStep, Same, TypeOK, Ends, client_exec, client_dies,
       recreate_client_cache, connect, connect_fails,
       obtain_credentials_cached, obtain_credentials_tgs,
       obtain_credentials_fails, sendauth, connection_lost,
       sendauth_accepted, sendauth_rejected, net_read_length, net_read_data

\* What it does to the client's own.
LEMMA OwnMoves ==
  ASSUME TypeOK, NEW c \in Client, UserNext(c) \/ RunStep(c)
  PROVE  \/ Same(c) \/ client_exec(c) \/ Prepares(c) \/ Leaves(c)
         \/ sendauth(c) \/ sendauth_accepted(c) \/ net_read_length(c)
<1>1. CASE client_dies(c) \/ connection_lost(c) \/ sendauth_rejected(c) \/ net_read_data(c)
  <2>1. Leaves(c)
    BY <1>1
       DEF client_dies, connection_lost, sendauth_rejected, net_read_data,
           Ends, Leaves, Idle, TypeOK
  <2> QED
    BY <2>1
<1>2. CASE \/ connect(c) \/ connect_fails(c) \/ obtain_credentials_cached(c)
           \/ obtain_credentials_tgs(c) \/ obtain_credentials_fails(c)
  <2>1. Prepares(c) \/ Leaves(c)
    BY <1>2
       DEF connect, connect_fails, obtain_credentials_cached,
           obtain_credentials_tgs, obtain_credentials_fails, Ends,
           Prepares, Leaves, Idle, TypeOK
  <2> QED
    BY <2>1
<1>3. CASE recreate_client_cache(c)
  BY <1>3 DEF recreate_client_cache, Same
<1> QED
  BY <1>1, <1>2, <1>3 DEF UserNext, RunStep

\* What a step, whoever's, does to c's.
LEMMA Sides ==
  ASSUME TypeOK, [Next]_vars, NEW c \in Client
  PROVE  \/ Same(c) \/ client_exec(c) \/ Prepares(c) \/ Leaves(c)
         \/ sendauth(c) \/ sendauth_accepted(c) \/ net_read_length(c)
         \/ recvauth_accepts /\ Gets(c, [kind |-> "ap_rep"])
         \/ recvauth_fails /\ Gets(c, [kind |-> "reject"])
         \/ net_write_length /\ Gets(c, [kind |-> "length"])
         \/ net_write_data /\ Gets(c, [kind |-> "data", msg |-> reply])
         \/ gcks_crash /\ gpc = "body" /\ Gets(c, [kind |-> "data", msg |-> Truncated])
<1> DEFINE Goal ==
         \/ Same(c) \/ client_exec(c) \/ Prepares(c) \/ Leaves(c)
         \/ sendauth(c) \/ sendauth_accepted(c) \/ net_read_length(c)
         \/ recvauth_accepts /\ Gets(c, [kind |-> "ap_rep"])
         \/ recvauth_fails /\ Gets(c, [kind |-> "reject"])
         \/ net_write_length /\ Gets(c, [kind |-> "length"])
         \/ net_write_data /\ Gets(c, [kind |-> "data", msg |-> reply])
         \/ gcks_crash /\ gpc = "body" /\ Gets(c, [kind |-> "data", msg |-> Truncated])
<1> SUFFICES Goal
  OBVIOUS
<1>1. ASSUME NEW d \in Client, UserNext(d) \/ RunStep(d) PROVE Goal
  <2>1. CASE d # c
    BY <1>1, <2>1, OthersStay
  <2>2. CASE d = c
    BY <1>1, <2>2, OwnMoves
  <2> QED
    BY <2>1, <2>2
<1>2. CASE recvauth_accepts
  <2>1. acc # NONE /\ Write([kind |-> "ap_rep"]) /\ pc' = pc /\ run' = run
    BY <1>2 DEF recvauth_accepts, TypeOK, clientVars
  <2> QED
    BY <1>2, <2>1, WriteGets
<1>3. CASE recvauth_fails
  <2>1. acc # NONE /\ pc' = pc /\ run' = run
    BY <1>3 DEF recvauth_fails, TypeOK, clientVars
  <2>2. wire' = wire \/ Write([kind |-> "reject"])
    BY <1>3 DEF recvauth_fails
  <2> QED
    BY <1>3, <2>1, <2>2, WriteGets DEF Same
<1>4. CASE net_write_length
  <2>1. acc # NONE /\ Write([kind |-> "length"]) /\ pc' = pc /\ run' = run
    BY <1>4 DEF net_write_length, TypeOK, clientVars
  <2> QED
    BY <1>4, <2>1, WriteGets
<1>5. CASE net_write_data
  <2>1. acc # NONE /\ Write([kind |-> "data", msg |-> reply]) /\ pc' = pc /\ run' = run
    BY <1>5 DEF net_write_data, TypeOK, clientVars
  <2> QED
    BY <1>5, <2>1, WriteGets
<1>6. CASE gcks_crash
  <2>1. pc' = pc /\ run' = run
    BY <1>6 DEF gcks_crash, clientVars
  <2>2. wire' = wire \/ (gpc = "body" /\ Write([kind |-> "data", msg |-> Truncated]))
    BY <1>6 DEF gcks_crash
  <2>3. gpc = "body" => acc # NONE
    BY DEF TypeOK
  <2> QED
    BY <1>6, <2>1, <2>2, <2>3, WriteGets DEF Same
<1>7. CASE \/ accept \/ initiatorCreate \/ unparse_fails \/ net_write_fails
           \/ gcks1_run \/ UNCHANGED vars
  <2>1. Same(c)
    BY <1>7 DEF accept, initiatorCreate, unparse_fails, net_write_fails, gcks1_run, vars,
                clientVars, Same
  <2> QED
    BY <2>1
<1> QED
  BY <1>1, <1>2, <1>3, <1>4, <1>5, <1>6, <1>7 DEF Next, ServeStep

\* What gcks1 is left with when a client moves.
LEMMA GcksSide ==
  ASSUME NEW c \in Client, UserNext(c) \/ RunStep(c)
  PROVE  /\ gpc' = gpc /\ acc' = acc /\ reply' = reply /\ made' = made
         /\ apReq' = apReq \/ sendauth(c)
         /\ backlog' = backlog \/ connect(c)
BY DEF UserNext, RunStep, gcksVars, client_exec, client_dies,
       recreate_client_cache, connect, connect_fails,
       obtain_credentials_cached, obtain_credentials_tgs,
       obtain_credentials_fails, sendauth, connection_lost,
       sendauth_accepted, sendauth_rejected, net_read_length, net_read_data

\* What initiatorCreate makes.
LEMMA MessageCreated ==
  ASSUME TypeOK, initiatorCreate
  PROVE  /\ acc \in Conn /\ acc # NONE /\ reply = NONE /\ apReq \in ApReq
         /\ reply' = [conn |-> acc, key |-> apReq.key, tgk |-> Len(made) + 1]
         /\ reply' \in Msg /\ reply' # NONE
         /\ made \in Seq(Msg) /\ made' = Append(made, reply')
<1>1. /\ acc \in Conn /\ acc # NONE /\ reply = NONE /\ apReq \in ApReq
      /\ made \in Seq(Msg) /\ made' = Append(made, reply')
  BY DEF initiatorCreate, TypeOK
<1>2. reply' = [conn |-> acc, key |-> apReq.key, tgk |-> Len(made) + 1]
  BY DEF initiatorCreate, NewTgk
<1>3. reply' \in Msg
  BY <1>1, <1>2 DEF ApReq, Msg
<1> QED
  BY <1>1, <1>2, <1>3, NoneAssumption

--------------------------------------------------------------------------
\* The variables keep their types.
LEMMA TypeStep ==
  ASSUME TypeOK, StreamsFollow, [Next]_vars
  PROVE  TypeOK'
<1>1. ASSUME NEW c \in Client, client_exec(c) PROVE TypeOK'
  BY <1>1 DEF client_exec, TypeOK, Idle, gcksVars, histVars
<1>2. ASSUME NEW c \in Client, recreate_client_cache(c) PROVE TypeOK'
  BY <1>2 DEF recreate_client_cache, TypeOK, gcksVars, histVars
<1>3. ASSUME NEW c \in Client, connect(c) PROVE TypeOK'
  <2>1. ConnOf(c) \in Conn
    BY DEF ConnOf, Conn, TypeOK
  <2>2. backlog' \in Seq(Conn) /\ arrivals' \in Seq(Conn)
    BY <1>3, <2>1 DEF connect, Enqueue, TypeOK
  <2> QED
    BY <1>3, <2>2 DEF connect, TypeOK, Idle
<1>4. ASSUME NEW c \in Client, connect_fails(c) PROVE TypeOK'
  BY <1>4 DEF connect_fails, TypeOK, Idle, gcksVars, histVars
<1>5. ASSUME NEW c \in Client, obtain_credentials_cached(c) PROVE TypeOK'
  BY <1>5 DEF obtain_credentials_cached, TypeOK, Idle, gcksVars, histVars
<1>6. ASSUME NEW c \in Client, obtain_credentials_tgs(c) PROVE TypeOK'
  <2>1. owner' \in Seq(Client) /\ Len(owner') \in Nat
    BY <1>6 DEF obtain_credentials_tgs, TypeOK
  <2> QED
    BY <1>6, <2>1 DEF obtain_credentials_tgs, TypeOK, Idle, gcksVars, histVars
<1>7. ASSUME NEW c \in Client, NEW how \in Idle, Ends(c, how),
             UNCHANGED <<run, ticket, gcksVars, owner, arrivals, receipts>>
      PROVE  TypeOK'
  <2>1. TgksIn(wire[c]) \subseteq Nat
    BY TgksAreNumbers DEF TypeOK
  <2>2. pc' \in [Client -> Idle \cup {"connect", "creds", "auth", "rep", "read", "body"}]
    BY <1>7 DEF Ends, TypeOK
  <2>3. wire' = [wire EXCEPT ![c] = <<>>] /\ lost' = lost \cup TgksIn(wire[c])
    BY <1>7 DEF Ends
  <2>4. wire' \in [Client -> Seq(Item)]
    BY <2>3 DEF TypeOK
  <2>5. lost' \subseteq Nat
    BY <2>1, <2>3 DEF TypeOK
  <2> QED
    BY <1>7, <2>2, <2>4, <2>5 DEF TypeOK, gcksVars
<1>8. ASSUME NEW c \in Client, obtain_credentials_fails(c) PROVE TypeOK'
  <2>1. CASE Ends(c, "killed")
    BY <1>7, <1>8, <2>1 DEF obtain_credentials_fails, Idle
  <2>2. CASE pc' = [pc EXCEPT ![c] = "auth"] /\ UNCHANGED <<wire, lost>>
    BY <1>8, <2>2 DEF obtain_credentials_fails, TypeOK, Idle, gcksVars
  <2> QED
    BY <1>8, <2>1, <2>2 DEF obtain_credentials_fails
<1>9. ASSUME NEW c \in Client, connection_lost(c) \/ sendauth_rejected(c) \/ client_dies(c) PROVE TypeOK'
  BY <1>7, <1>9 DEF connection_lost, sendauth_rejected, client_dies, Idle
<1>10. ASSUME NEW c \in Client, sendauth(c) PROVE TypeOK'
  <2>1. apReq' \in ApReq
    BY <1>10 DEF sendauth, ApReq, TypeOK
  <2> QED
    BY <1>10, <2>1, NoneAssumption DEF sendauth, TypeOK, Idle, histVars
<1>11. ASSUME NEW c \in Client, sendauth_accepted(c) \/ net_read_length(c) PROVE TypeOK'
  <2>1. wire[c] \in Seq(Item) /\ wire[c] # <<>>
    BY <1>11 DEF sendauth_accepted, net_read_length, TypeOK
  <2>2. Tail(wire[c]) \in Seq(Item)
    BY <2>1
  <2>3. wire' \in [Client -> Seq(Item)]
    BY <1>11, <2>2 DEF sendauth_accepted, net_read_length, TypeOK
  <2> QED
    BY <1>11, <2>3 DEF sendauth_accepted, net_read_length, TypeOK, Idle, gcksVars, histVars
<1>12. ASSUME NEW c \in Client, net_read_data(c) PROVE TypeOK'
  <2> DEFINE m == Head(wire[c]).msg
             ok == Authenticates(m, ticket[c])
  <2>1. wire[c] \in Seq(Item) /\ wire[c] # <<>> /\ Follows(wire[c], 2)
    BY <1>12 DEF net_read_data, TypeOK, StreamsFollow, Consumed
  <2>2. m \in Msg
    BY <2>1, MessageIsLast
  <2>3. ConnOf(c) \in Conn /\ ok \in BOOLEAN
    BY DEF ConnOf, Conn, TypeOK, Authenticates
  <2>4. receipts' = receipts \cup {[conn |-> ConnOf(c), msg |-> m, ok |-> ok]}
    BY <1>12 DEF net_read_data
  <2>5. receipts' \subseteq Receipt
    <3> HIDE DEF m, ok
    <3> QED
      BY <2>2, <2>3, <2>4 DEF Receipt, TypeOK
  <2>6. wire' \in [Client -> Seq(Item)]
    BY <1>12 DEF net_read_data, TypeOK
  <2> QED
    BY <1>12, <2>5, <2>6 DEF net_read_data, TypeOK, Idle, gcksVars
<1>13. ASSUME NEW item \in Item, acc # NONE, Write(item) PROVE wire' \in [Client -> Seq(Item)]
  <2>1. acc.client \in Client
    BY <1>13 DEF TypeOK, Conn
  <2>2. Append(wire[acc.client], item) \in Seq(Item)
    BY <1>13, <2>1 DEF TypeOK
  <2> QED
    BY <1>13, <2>2 DEF Write, TypeOK
<1>14. CASE accept
  <2>1. acc' \in Conn /\ backlog' \in Seq(Conn)
    BY <1>14 DEF accept, TypeOK
  <2> QED
    BY <1>14, <2>1, NoneAssumption DEF accept, TypeOK, clientVars, histVars
<1>15. CASE recvauth_accepts
  <2>1. wire' \in [Client -> Seq(Item)]
    <3>1. Write([kind |-> "ap_rep"]) /\ [kind |-> "ap_rep"] \in Item /\ acc # NONE
      BY <1>15 DEF recvauth_accepts, TypeOK, Item
    <3> QED
      BY <3>1, <1>13
  <2> QED
    BY <1>15, <2>1 DEF recvauth_accepts, TypeOK, clientVars, histVars
<1>16. CASE recvauth_fails
  <2>1. wire' \in [Client -> Seq(Item)]
    <3>1. [kind |-> "reject"] \in Item /\ acc # NONE
      BY <1>16 DEF recvauth_fails, TypeOK, Item
    <3>2. Write([kind |-> "reject"]) \/ wire' = wire
      BY <1>16 DEF recvauth_fails
    <3> QED
      BY <3>1, <3>2, <1>13 DEF TypeOK
  <2> QED
    BY <1>16, <2>1 DEF recvauth_fails, GcksExits, CloseConnection, TypeOK, clientVars, histVars
<1>17. CASE initiatorCreate
  <2>1. reply' \in Msg /\ reply' # NONE /\ made' \in Seq(Msg)
    BY <1>17, MessageCreated
  <2> QED
    BY <1>17, <2>1 DEF initiatorCreate, TypeOK, clientVars, histVars
<1>18. CASE unparse_fails
  <2>1. reply' \in Msg
    BY <1>18 DEF unparse_fails, UnparseError, TypeOK, Msg
  <2> QED
    BY <1>18, <2>1, NoneAssumption DEF unparse_fails, TypeOK, clientVars, histVars
<1>19. CASE net_write_length
  <2>1. wire' \in [Client -> Seq(Item)]
    <3>1. Write([kind |-> "length"]) /\ [kind |-> "length"] \in Item /\ acc # NONE
      BY <1>19 DEF net_write_length, TypeOK, Item
    <3> QED
      BY <3>1, <1>13
  <2> QED
    BY <1>19, <2>1 DEF net_write_length, TypeOK, clientVars, histVars
<1>20. InHand \subseteq Nat
  BY DEF InHand, TypeOK, Msg
<1>21. CASE net_write_data
  <2>1. wire' \in [Client -> Seq(Item)]
    <3>1. Write([kind |-> "data", msg |-> reply]) /\ [kind |-> "data", msg |-> reply] \in Item /\ acc # NONE
      BY <1>21 DEF net_write_data, TypeOK, Item
    <3> QED
      BY <3>1, <1>13
  <2>2. lost' \subseteq Nat
    BY <1>20, <1>21 DEF net_write_data, TypeOK
  <2> QED
    BY <1>21, <2>1, <2>2
       DEF net_write_data, NextConnection, CloseConnection, TypeOK, clientVars
<1>22. CASE net_write_fails
  BY <1>20, <1>22 DEF net_write_fails, GcksExits, CloseConnection, TypeOK, clientVars
<1>23. CASE gcks_crash
  <2>1. wire' \in [Client -> Seq(Item)]
    <3>1. gpc = "body" => acc # NONE /\ [kind |-> "data", msg |-> Truncated] \in Item
      BY DEF TypeOK, Item, Truncated, Msg
    <3>2. wire' = wire \/ (gpc = "body" /\ Write([kind |-> "data", msg |-> Truncated]))
      BY <1>23 DEF gcks_crash
    <3> QED
      BY <3>1, <3>2, <1>13 DEF TypeOK
  <2> QED
    BY <1>20, <1>23, <2>1 DEF gcks_crash, GcksExits, CloseConnection, TypeOK, clientVars
<1>24. CASE gcks1_run
  BY <1>24 DEF gcks1_run, TypeOK, clientVars, histVars
<1>25. CASE UNCHANGED vars
  BY <1>25 DEF vars, clientVars, gcksVars, histVars, TypeOK
<1> QED
  BY <1>1, <1>2, <1>3, <1>4, <1>5, <1>6, <1>8, <1>9, <1>10, <1>11, <1>12, <1>14, <1>15,
     <1>16, <1>17, <1>18, <1>19, <1>21, <1>22, <1>23, <1>24, <1>25
     DEF Next, UserNext, RunStep, ServeStep

--------------------------------------------------------------------------
(* The two ends of a connection agree. *)

\* A part gcks1 writes is the one its client reads next.
LEMMA PartFollows ==
  ASSUME TypeOK, EndsAgree, NEW c \in Client, NEW item, Gets(c, item),
         apReq # NONE, item.kind = Answer[Written + 1]
  PROVE  /\ Waiting(c)
         /\ Follows(wire'[c], Consumed(c))
         /\ Consumed(c) + Len(wire'[c]) = Written + 1
<1>1. /\ acc # NONE /\ Alive(acc) /\ acc.client = c
      /\ wire[c] \in Seq(Item) /\ wire'[c] = Append(wire[c], item)
  BY DEF Gets, TypeOK
<1>2. /\ Waiting(c) /\ Follows(wire[c], Consumed(c))
      /\ Consumed(c) + Len(wire[c]) = Written
  BY <1>1 DEF EndsAgree
<1>3. Consumed(c) \in 0 .. 2 /\ Written \in 0 .. 2 /\ Len(wire[c]) \in Nat
  BY <1>1 DEF Consumed, Written
<1>4. Follows(Append(wire[c], item), Consumed(c)) /\ Len(Append(wire[c], item)) = Len(wire[c]) + 1
  BY <1>1, <1>2, <1>3, NextPartFollows
<1> QED
  BY <1>1, <1>2, <1>3, <1>4

LEMMA StreamsStep ==
  ASSUME TypeOK, StreamsFollow, EndsAgree, [Next]_vars
  PROVE  StreamsFollow'
<1> SUFFICES ASSUME NEW c \in Client
             PROVE  /\ ~Waiting(c)' => wire'[c] = <<>>
                    /\ \/ Follows(wire'[c], Consumed(c)')
                       \/ pc'[c] = "rep" /\ wire'[c] = <<[kind |-> "reject"]>>
  BY DEF StreamsFollow, Follows
<1> DEFINE Goal == /\ ~Waiting(c)' => wire'[c] = <<>>
                   /\ \/ Follows(wire'[c], Consumed(c)')
                      \/ pc'[c] = "rep" /\ wire'[c] = <<[kind |-> "reject"]>>
<1>a. /\ ~Waiting(c) => wire[c] = <<>>
      /\ \/ Follows(wire[c], Consumed(c))
         \/ pc[c] = "rep" /\ wire[c] = <<[kind |-> "reject"]>>
  BY DEF StreamsFollow
<1>b. wire[c] \in Seq(Item)
  BY DEF TypeOK
<1>c. Follows(<<>>, 0)
  BY NothingFollows
<1>d. pc'[c] = pc[c] => Waiting(c)' = Waiting(c) /\ Consumed(c)' = Consumed(c)
  BY DEF Waiting, Consumed
<1>1. CASE Same(c)
  BY <1>1, <1>a, <1>d DEF Same
<1>2. CASE client_exec(c) \/ Prepares(c) \/ sendauth(c)
  <2>1. ~Waiting(c) /\ wire'[c] = wire[c] /\ pc'[c] \in {"connect", "creds", "auth", "rep"}
    BY <1>2 DEF client_exec, Prepares, sendauth, Waiting, Idle, TypeOK
  <2>2. Consumed(c)' = 0
    BY <2>1 DEF Consumed
  <2> QED
    BY <1>a, <1>c, <2>1, <2>2
<1>3. CASE Leaves(c)
  BY <1>3, <1>c DEF Leaves, Idle, Consumed
<1>4. CASE sendauth_accepted(c)
  <2>1. /\ pc[c] = "rep" /\ wire[c] # <<>> /\ Head(wire[c]).kind = "ap_rep"
        /\ wire'[c] = Tail(wire[c]) /\ pc'[c] = "read"
    BY <1>4 DEF sendauth_accepted, TypeOK
  <2>2. Consumed(c) = 0 /\ Consumed(c)' = 1 /\ Waiting(c)'
    BY <2>1 DEF Consumed, Waiting
  <2>3. Follows(wire[c], 0)
    <3>1. wire[c] # <<[kind |-> "reject"]>>
      BY <2>1
    <3> QED
      BY <1>a, <2>2, <3>1
  <2>4. Follows(Tail(wire[c]), 0 + 1)
    BY <1>b, <2>1, <2>3, RestFollows
  <2> QED
    BY <2>1, <2>2, <2>4
<1>5. CASE net_read_length(c)
  <2>1. /\ pc[c] = "read" /\ wire[c] # <<>>
        /\ wire'[c] = Tail(wire[c]) /\ pc'[c] = "body"
    BY <1>5 DEF net_read_length, TypeOK
  <2>2. Consumed(c) = 1 /\ Consumed(c)' = 2 /\ Waiting(c)'
    BY <2>1 DEF Consumed, Waiting
  <2>3. Follows(wire[c], 1)
    BY <1>a, <2>1, <2>2
  <2>4. Follows(Tail(wire[c]), 1 + 1)
    BY <1>b, <2>1, <2>3, RestFollows
  <2> QED
    BY <2>1, <2>2, <2>4
<1>6. ASSUME NEW item, Gets(c, item), apReq # NONE, item.kind = Answer[Written + 1] PROVE Goal
  BY <1>6, <1>d, PartFollows DEF Gets
<1>7. CASE recvauth_accepts /\ Gets(c, [kind |-> "ap_rep"])
  <2>1. apReq # NONE /\ Written = 0
    BY <1>7 DEF recvauth_accepts, Written
  <2> QED
    BY <1>6, <1>7, <2>1, Parts
<1>8. CASE recvauth_fails /\ Gets(c, [kind |-> "reject"])
  <2>1. acc # NONE /\ Alive(acc) /\ acc.client = c /\ wire'[c] = Append(wire[c], [kind |-> "reject"])
    BY <1>8 DEF Gets, TypeOK
  <2>2. Written = 0 /\ apReq # NONE
    <3>1. gpc = "recvauth" /\ (apReq # NONE \/ ~Alive(acc))
      BY <1>8 DEF recvauth_fails
    <3> QED
      BY <2>1, <3>1 DEF Written
  <2>3. Waiting(c) /\ Consumed(c) + Len(wire[c]) = 0
    BY <2>1, <2>2 DEF EndsAgree
  <2>4. Consumed(c) = 0 /\ wire[c] = <<>>
    <3>1. Consumed(c) \in Nat /\ Len(wire[c]) \in Nat
      BY <1>b DEF Consumed
    <3>2. Consumed(c) = 0 /\ Len(wire[c]) = 0
      BY <2>3, <3>1
    <3> QED
      BY <1>b, <3>2
  <2>5. pc[c] = "rep" /\ pc'[c] = pc[c]
    BY <1>8, <2>3, <2>4 DEF Waiting, Consumed, Gets
  <2>6. wire'[c] = <<[kind |-> "reject"]>>
    BY <2>1, <2>4
  <2> QED
    BY <2>5, <2>6 DEF Waiting
<1>9. CASE net_write_length /\ Gets(c, [kind |-> "length"])
  <2>1. apReq # NONE /\ Written = 1
    BY <1>9 DEF net_write_length, Written, TypeOK
  <2> QED
    BY <1>6, <1>9, <2>1, Parts
<1>10. ASSUME NEW m, gpc = "body", Gets(c, [kind |-> "data", msg |-> m]) PROVE Goal
  <2>1. apReq # NONE /\ Written = 2
    BY <1>10 DEF Written, TypeOK
  <2> QED
    BY <1>6, <1>10, <2>1, Parts
<1>11. gpc = "body" \/ ~net_write_data
  BY DEF net_write_data
<1> QED
  BY <1>1, <1>2, <1>3, <1>4, <1>5, <1>7, <1>8, <1>9, <1>10, <1>11, Sides

--------------------------------------------------------------------------
(* The connections and their order. *)

\* Which steps gcks1's queue, connection and messages make.
LEMMA ServerSteps ==
  ASSUME TypeOK, [Next]_vars
  PROVE  \/ /\ backlog' = backlog /\ acc' = acc /\ made' = made
            /\ reply' = reply \/ reply' # NONE
         \/ \E c \in Client : connect(c)
         \/ accept
         \/ initiatorCreate
         \/ acc' = NONE /\ made' = made /\ (backlog' = backlog \/ backlog' = <<>>)
<1> DEFINE Quiet == /\ backlog' = backlog /\ acc' = acc /\ made' = made
                    /\ reply' = reply \/ reply' # NONE
           Closes == acc' = NONE /\ made' = made /\ (backlog' = backlog \/ backlog' = <<>>)
<1>1. ASSUME NEW c \in Client, UserNext(c) \/ RunStep(c) PROVE Quiet \/ connect(c)
  BY <1>1, GcksSide
<1>2. CASE recvauth_accepts \/ net_write_length \/ gcks1_run
  BY <1>2 DEF recvauth_accepts, net_write_length, gcks1_run
<1>3. CASE unparse_fails
  BY <1>3, NoneAssumption DEF unparse_fails, UnparseError, TypeOK, Msg
<1>4. CASE recvauth_fails \/ net_write_data \/ net_write_fails \/ gcks_crash
  BY <1>4 DEF recvauth_fails, net_write_data, net_write_fails, gcks_crash, GcksExits, CloseConnection
<1>5. CASE UNCHANGED vars
  BY <1>5 DEF vars, gcksVars
<1> QED
  BY <1>1, <1>2, <1>3, <1>4, <1>5 DEF Next, ServeStep

LEMMA ArrivalsChange ==
  ASSUME [Next]_vars
  PROVE  arrivals' = arrivals \/ \E c \in Client : connect(c)
BY DEF Next, UserNext, RunStep, ServeStep, vars, histVars, client_exec, client_dies,
       recreate_client_cache, connect_fails, obtain_credentials_cached,
       obtain_credentials_tgs, obtain_credentials_fails, sendauth,
       connection_lost, sendauth_accepted, sendauth_rejected, net_read_length,
       net_read_data, accept, recvauth_accepts, recvauth_fails,
       initiatorCreate, unparse_fails, net_write_length, net_write_data,
       net_write_fails, gcks_crash, gcks1_run

\* What connect does.
LEMMA Connects ==
  ASSUME TypeOK, NEW c \in Client, connect(c)
  PROVE  /\ pc[c] = "connect" /\ pc' = [pc EXCEPT ![c] = "creds"] /\ run' = run
         /\ wire' = wire /\ acc' = acc /\ apReq' = apReq /\ gpc' = gpc
         /\ reply' = reply /\ made' = made
         /\ ConnOf(c) \in Conn
         /\ backlog \in Seq(Conn) /\ backlog' = Append(backlog, ConnOf(c))
         /\ arrivals \in Seq(Conn) /\ arrivals' = Append(arrivals, ConnOf(c))
BY DEF connect, Enqueue, TypeOK, ConnOf, Conn

\* The number of a client's run grows, and a run connects once.
LEMMA RunGrows ==
  ASSUME TypeOK, [Next]_vars, NEW c \in Client
  PROVE  \/ run'[c] = run[c] /\ (pc'[c] = "connect" => pc[c] = "connect")
         \/ run'[c] = run[c] + 1
<1>1. CASE client_exec(c)
  BY <1>1 DEF client_exec, TypeOK
<1>2. CASE Same(c) \/ Prepares(c) \/ Leaves(c)
  BY <1>2 DEF Same, Prepares, Leaves, Idle
<1>3. CASE sendauth(c) \/ sendauth_accepted(c) \/ net_read_length(c)
  BY <1>3 DEF sendauth, sendauth_accepted, net_read_length, TypeOK
<1>4. ASSUME NEW item, Gets(c, item) PROVE pc'[c] = pc[c] /\ run'[c] = run[c]
  BY <1>4 DEF Gets
<1> QED
  BY <1>1, <1>2, <1>3, <1>4, Sides

\* A connection is of the current run or of an older one.
LEMMA NotOfLaterRun ==
  ASSUME TypeOK, ConnectsOnce, NEW x, Came(x)
  PROVE  /\ x \in Conn /\ x.client \in Client /\ x.run \in Nat /\ run[x.client] \in Nat
         /\ x.run <= run[x.client]
         /\ x.run = run[x.client] => pc[x.client] # "connect"
<1>1. PICK i \in DOMAIN arrivals : arrivals[i] = x
  BY DEF Came
<1>2. x \in Conn /\ x.client \in Client /\ x.run \in Nat
  <2>1. x \in Conn
    BY <1>1 DEF TypeOK
  <2> QED
    BY <2>1 DEF Conn
<1>3. run[x.client] \in Nat
  BY <1>2 DEF TypeOK
<1> QED
  BY <1>1, <1>2, <1>3 DEF ConnectsOnce

\* So c has not made the connection that its next connect() makes.
LEMMA NotYetMade ==
  ASSUME TypeOK, ConnectsOnce, NEW c \in Client, pc[c] = "connect"
  PROVE  ~Came(ConnOf(c))
<1> SUFFICES ASSUME Came(ConnOf(c)) PROVE FALSE
  OBVIOUS
<1>1. ConnOf(c).client = c /\ ConnOf(c).run = run[c]
  BY DEF ConnOf
<1> HIDE DEF ConnOf
<1> QED
  BY <1>1, NotOfLaterRun

LEMMA ConnectsOnceStep ==
  ASSUME TypeOK, ConnectsOnce, [Next]_vars
  PROVE  ConnectsOnce'
<1>1. ASSUME NEW x, Came(x)
      PROVE  \/ x.run < run'[x.client]
             \/ x.run = run'[x.client] /\ pc'[x.client] # "connect"
  BY <1>1, NotOfLaterRun, RunGrows
<1>2. CASE arrivals' = arrivals
  BY <1>1, <1>2 DEF ConnectsOnce, Came
<1>3. ASSUME NEW c \in Client, connect(c) PROVE ConnectsOnce'
  <2> DEFINE a == arrivals
             b == arrivals'
             x == ConnOf(c)
  <2>1. /\ a \in Seq(Conn) /\ x \in Conn /\ b = Append(a, x)
        /\ run' = run /\ pc[c] = "connect" /\ pc'[c] = "creds"
    BY <1>3, Connects DEF TypeOK
  <2>2. \A i \in DOMAIN a : a[i] # x
    BY <2>1, NotYetMade DEF Came
  <2>3. x.client = c /\ x.run = run[c]
    BY DEF ConnOf
  <2>4. \A i \in DOMAIN a : \/ a[i].run < run'[a[i].client]
                            \/ a[i].run = run'[a[i].client] /\ pc'[a[i].client] # "connect"
    BY <1>1 DEF Came
  <2>5. \A i, j \in DOMAIN a : a[i] = a[j] => i = j
    BY DEF ConnectsOnce
  <2> HIDE DEF a, b, x
  <2>6. \A i \in DOMAIN b : \/ i \in DOMAIN a /\ b[i] = a[i]
                            \/ i = Len(a) + 1 /\ b[i] = x
    BY <2>1
  <2>7. \A i, j \in DOMAIN b : b[i] = b[j] => i = j
    BY <2>2, <2>5, <2>6
  <2>8. \A i \in DOMAIN b : \/ b[i].run < run'[b[i].client]
                            \/ b[i].run = run'[b[i].client] /\ pc'[b[i].client] # "connect"
    BY <2>1, <2>3, <2>4, <2>6
  <2> QED
    BY <2>7, <2>8 DEF ConnectsOnce, b
<1> QED
  BY <1>2, <1>3, ArrivalsChange

\* A new connection comes after all there are.
LEMMA NewComesLast ==
  ASSUME TypeOK, NEW c \in Client, connect(c)
  PROVE  /\ Came(ConnOf(c))'
         /\ \E i \in DOMAIN arrivals' : arrivals'[i] = ConnOf(c)
         /\ \A x : Came(x) =>
              \E i, j \in DOMAIN arrivals' :
                 i < j /\ arrivals'[i] = x /\ arrivals'[j] = ConnOf(c)
<1> DEFINE y == ConnOf(c)
           a == arrivals
           b == arrivals'
<1>1. a \in Seq(Conn) /\ y \in Conn /\ b = Append(a, y) /\ run' = run
  BY Connects
<1>2. ConnOf(c)' = y
  BY <1>1 DEF ConnOf
<1>3. \A x : Came(x) => \E i \in DOMAIN a : a[i] = x
  BY DEF Came
<1> HIDE DEF a, b, y
<1>4. /\ Len(a) + 1 \in DOMAIN b /\ b[Len(a) + 1] = y
      /\ \A i \in DOMAIN a : i < Len(a) + 1 /\ i \in DOMAIN b /\ b[i] = a[i]
  BY <1>1
<1>5. \A x : Came(x) => \E i, j \in DOMAIN b : i < j /\ b[i] = x /\ b[j] = y
  BY <1>3, <1>4
<1>6. \E i \in DOMAIN b : b[i] = y
  BY <1>4
<1> QED
  BY <1>2, <1>5, <1>6 DEF Came, b, y

\* The order of those there are stays.
LEMMA CameStays ==
  ASSUME TypeOK, [Next]_vars
  PROVE  /\ \A x : Came(x) => \E i \in DOMAIN arrivals' : arrivals'[i] = x
         /\ \A x, y : CameBefore(x, y) =>
              \E i, j \in DOMAIN arrivals' :
                 i < j /\ arrivals'[i] = x /\ arrivals'[j] = y
<1> DEFINE a == arrivals
           b == arrivals'
<1>1. \A i \in DOMAIN a : i \in DOMAIN b /\ b[i] = a[i]
  <2>1. CASE b = a
    BY <2>1
  <2>2. ASSUME NEW c \in Client, connect(c) PROVE \A i \in DOMAIN a : i \in DOMAIN b /\ b[i] = a[i]
    <3>1. a \in Seq(Conn) /\ ConnOf(c) \in Conn /\ b = Append(a, ConnOf(c))
      BY <2>2, Connects
    <3> QED
      BY <3>1
  <2> QED
    BY <2>1, <2>2, ArrivalsChange
<1>2. ASSUME NEW x, Came(x) PROVE \E i \in DOMAIN b : b[i] = x
  BY <1>1, <1>2 DEF Came
<1>3. ASSUME NEW x, NEW y, CameBefore(x, y)
      PROVE  \E i, j \in DOMAIN b : i < j /\ b[i] = x /\ b[j] = y
  <2>1. PICK i \in DOMAIN a, j \in DOMAIN a : i < j /\ a[i] = x /\ a[j] = y
    BY <1>3 DEF CameBefore
  <2> HIDE DEF a, b
  <2> QED
    BY <1>1, <2>1
<1> QED
  BY <1>2, <1>3

LEMMA OrderStep ==
  ASSUME TypeOK, ConnectionsInOrder, [Next]_vars
  PROVE  ConnectionsInOrder'
<1> DEFINE C(x)    == \E i \in DOMAIN arrivals' : arrivals'[i] = x
           B(x, y) == \E i, j \in DOMAIN arrivals' :
                         i < j /\ arrivals'[i] = x /\ arrivals'[j] = y
           Goal ==
             /\ \A n \in DOMAIN made' : C(made'[n].conn)
             /\ acc' # NONE => C(acc')
             /\ \A i \in DOMAIN backlog' : C(backlog'[i])
             /\ \A m, n \in DOMAIN made' : m < n => B(made'[m].conn, made'[n].conn)
             /\ \A i, j \in DOMAIN backlog' : i < j => B(backlog'[i], backlog'[j])
             /\ \A m \in DOMAIN made' : \A i \in DOMAIN backlog' : B(made'[m].conn, backlog'[i])
             /\ acc' # NONE => \A i \in DOMAIN backlog' : B(acc', backlog'[i])
             /\ acc' # NONE /\ reply' = NONE => \A m \in DOMAIN made' : B(made'[m].conn, acc')
<1> SUFFICES Goal
  BY DEF ConnectionsInOrder, Came, CameBefore
<1>a. \A x : Came(x) => C(x)
  BY CameStays
<1>b. \A x, y : CameBefore(x, y) => B(x, y)
  BY CameStays
<1>c. ASSUME NEW c \in Client, connect(c)
      PROVE  C(ConnOf(c)) /\ \A x : Came(x) => B(x, ConnOf(c))
  BY <1>c, NewComesLast
<1> HIDE DEF C, B
<1>d. /\ \A n \in DOMAIN made : C(made[n].conn)
      /\ acc # NONE => C(acc)
      /\ \A i \in DOMAIN backlog : C(backlog[i])
      /\ \A m, n \in DOMAIN made : m < n => B(made[m].conn, made[n].conn)
      /\ \A i, j \in DOMAIN backlog : i < j => B(backlog[i], backlog[j])
      /\ \A m \in DOMAIN made : \A i \in DOMAIN backlog : B(made[m].conn, backlog[i])
      /\ acc # NONE => \A i \in DOMAIN backlog : B(acc, backlog[i])
      /\ acc # NONE /\ reply = NONE => \A m \in DOMAIN made : B(made[m].conn, acc)
  BY <1>a, <1>b DEF ConnectionsInOrder
<1>1. CASE /\ backlog' = backlog /\ acc' = acc /\ made' = made
           /\ reply' = reply \/ reply' # NONE
  BY <1>1, <1>d
<1>2. ASSUME NEW c \in Client, connect(c) PROVE Goal
  <2> DEFINE q == backlog
             p == backlog'
             y == ConnOf(c)
  <2>1. /\ acc' = acc /\ made' = made /\ reply' = reply
        /\ q \in Seq(Conn) /\ y \in Conn /\ p = Append(q, y)
    BY <1>2, Connects
  <2>2. /\ C(y)
        /\ \A n \in DOMAIN made : B(made[n].conn, y)
        /\ acc # NONE => B(acc, y)
        /\ \A i \in DOMAIN q : B(q[i], y)
    BY <1>2, <1>c DEF ConnectionsInOrder
  <2> HIDE DEF p, y
  <2>3. \A i \in DOMAIN p : \/ i \in DOMAIN q /\ p[i] = q[i] /\ i \in Nat /\ i <= Len(q)
                            \/ i = Len(q) + 1 /\ p[i] = y
    BY <2>1
  <2>4. Len(q) \in Nat
    BY <2>1
  <2>5. \A i \in DOMAIN p : C(p[i])
    BY <1>d, <2>2, <2>3
  <2>6. \A m \in DOMAIN made : \A i \in DOMAIN p : B(made[m].conn, p[i])
    BY <1>d, <2>2, <2>3
  <2>7. acc # NONE => \A i \in DOMAIN p : B(acc, p[i])
    BY <1>d, <2>2, <2>3
  <2>8. ASSUME NEW i \in DOMAIN p, NEW j \in DOMAIN p, i < j PROVE B(p[i], p[j])
    <3>1. i \in DOMAIN q /\ p[i] = q[i]
      BY <2>3, <2>4, <2>8
    <3> QED
      BY <1>d, <2>2, <2>3, <2>8, <3>1
  <2> QED
    BY <1>d, <2>1, <2>5, <2>6, <2>7, <2>8 DEF p
<1>3. CASE accept
  <2> DEFINE q == backlog
             p == backlog'
  <2>1. /\ q \in Seq(Conn) /\ q # <<>> /\ acc' = Head(q) /\ p = Tail(q)
        /\ made' = made /\ reply' = NONE
    BY <1>3 DEF accept, TypeOK
  <2> HIDE DEF p
  <2>2. /\ 1 \in DOMAIN q /\ acc' = q[1]
        /\ \A i \in DOMAIN p : i \in Nat /\ i + 1 \in DOMAIN q /\ p[i] = q[i + 1] /\ 1 < i + 1
    BY <2>1
  <2>3. \A i, j \in DOMAIN p : i < j => B(p[i], p[j])
    <3>1. \A i, j \in DOMAIN p : i < j => i + 1 < j + 1
      BY <2>2
    <3> QED
      BY <1>d, <2>2, <3>1
  <2>4. \A i \in DOMAIN p : C(p[i]) /\ B(acc', p[i]) /\ \A m \in DOMAIN made : B(made[m].conn, p[i])
    BY <1>d, <2>2
  <2>5. C(acc') /\ \A m \in DOMAIN made : B(made[m].conn, acc')
    BY <1>d, <2>2
  <2> QED
    BY <1>d, <2>1, <2>3, <2>4, <2>5 DEF p
<1>4. CASE initiatorCreate
  <2> DEFINE p == made'
  <2>1. /\ acc # NONE /\ reply = NONE
        /\ made \in Seq(Msg) /\ reply'.conn = acc /\ p = Append(made, reply')
    BY <1>4, MessageCreated
  <2>2. reply' \in Msg /\ reply' # NONE /\ acc' = acc /\ backlog' = backlog
    BY <1>4, MessageCreated DEF initiatorCreate
  <2> HIDE DEF p
  <2>3. \A n \in DOMAIN p : \/ n \in DOMAIN made /\ p[n] = made[n] /\ n \in Nat /\ n <= Len(made)
                            \/ n = Len(made) + 1 /\ p[n] = reply'
    BY <2>1, <2>2
  <2>4. Len(made) \in Nat
    BY <2>1
  <2>5. \A n \in DOMAIN p : C(p[n].conn) /\ \A i \in DOMAIN backlog : B(p[n].conn, backlog[i])
    BY <1>d, <2>1, <2>3
  <2>6. ASSUME NEW m \in DOMAIN p, NEW n \in DOMAIN p, m < n PROVE B(p[m].conn, p[n].conn)
    <3>1. m \in DOMAIN made /\ p[m] = made[m]
      BY <2>3, <2>4, <2>6
    <3> QED
      BY <1>d, <2>1, <2>3, <2>6, <3>1
  <2> QED
    BY <1>d, <2>1, <2>2, <2>5, <2>6 DEF p
<1>5. CASE acc' = NONE /\ made' = made /\ (backlog' = backlog \/ backlog' = <<>>)
  BY <1>5, <1>d
<1> QED
  BY <1>1, <1>2, <1>3, <1>4, <1>5, ServerSteps

--------------------------------------------------------------------------
(* The two ends of a connection, through a step. *)

\* A connection that is alive after a step was so before.
LEMMA WasAlive ==
  ASSUME TypeOK, ConnectsOnce, [Next]_vars, NEW x, Came(x),
         run'[x.client] = x.run, pc'[x.client] \notin Idle
  PROVE  Alive(x)
<1> DEFINE c == x.client
<1>1. c \in Client /\ x.run \in Nat /\ run[c] \in Nat /\ x.run <= run[c]
  BY NotOfLaterRun
<1>2. run'[c] = run[c]
  BY <1>1, RunGrows
<1>3. CASE Same(c)
  BY <1>2, <1>3 DEF Same, Alive
<1>4. CASE client_exec(c)
  BY <1>1, <1>2, <1>4 DEF client_exec, TypeOK
<1>5. CASE Prepares(c) \/ Leaves(c)
  BY <1>2, <1>5 DEF Prepares, Leaves, Alive, Idle
<1>6. CASE sendauth(c) \/ sendauth_accepted(c) \/ net_read_length(c)
  BY <1>2, <1>6 DEF sendauth, sendauth_accepted, net_read_length, Alive, Idle
<1>7. ASSUME NEW item, Gets(c, item) PROVE Alive(x)
  BY <1>2, <1>7 DEF Gets, Alive
<1> QED
  BY <1>1, <1>3, <1>4, <1>5, <1>6, <1>7, Sides

\* Where the client of the accepted connection and gcks1 are after a step that
\* leaves both there.
LEMMA AgreeOnAccepted ==
  ASSUME TypeOK, StreamsFollow, EndsAgree, ConnectsOnce, [Next]_vars,
         acc # NONE, acc' = acc, Came(acc), Alive(acc),
         NEW c \in Client, c = acc.client,
         run'[c] = acc.run, pc'[c] \notin Idle
  PROVE  /\ pc'[c] # "connect"
         /\ Waiting(c)' <=> apReq' # NONE
         /\ Follows(wire'[c], Consumed(c)')
         /\ Consumed(c)' + Len(wire'[c]) = Written'
<1> DEFINE Goal == /\ pc'[c] # "connect"
                   /\ Waiting(c)' <=> apReq' # NONE
                   /\ Follows(wire'[c], Consumed(c)')
                   /\ Consumed(c)' + Len(wire'[c]) = Written'
<1>a. /\ pc[c] # "connect"
      /\ Waiting(c) <=> apReq # NONE
      /\ Follows(wire[c], Consumed(c))
      /\ Consumed(c) + Len(wire[c]) = Written
      /\ ~Waiting(c) => wire[c] = <<>>
  BY DEF EndsAgree, StreamsFollow
<1>b. pc'[c] = pc[c] => Waiting(c)' = Waiting(c) /\ Consumed(c)' = Consumed(c)
  BY DEF Waiting, Consumed
<1>c. wire[c] \in Seq(Item) /\ run[c] \in Nat /\ run[c] = acc.run /\ acc \in Conn
  BY DEF TypeOK, Alive
<1>d. Follows(<<>>, 0)
  BY NothingFollows
<1>1. CASE Same(c) /\ apReq' = apReq /\ Written' = Written
  BY <1>1, <1>a, <1>b DEF Same
<1>2. ASSUME NEW d \in Client, UserNext(d) \/ RunStep(d) PROVE Goal
  <2>1. gpc' = gpc /\ Written' = Written /\ (apReq' = apReq \/ sendauth(d))
    BY <1>2, GcksSide DEF Written
  <2>2. CASE sendauth(d)
    <3>1. acc = ConnOf(d) /\ d = c
      BY <2>2 DEF sendauth, ConnOf
    <3>2. pc[c] = "auth" /\ pc'[c] = "rep" /\ wire'[c] = wire[c]
      BY <2>2, <3>1 DEF sendauth, TypeOK
    <3>3. apReq' # NONE
      <4>1. apReq' \in ApReq
        BY <2>2 DEF sendauth, ApReq, TypeOK
      <4> QED
        BY <4>1, NoneAssumption
    <3>4. Consumed(c) = 0 /\ Consumed(c)' = 0 /\ ~Waiting(c) /\ Waiting(c)'
      BY <3>2 DEF Consumed, Waiting
    <3> QED
      BY <1>a, <2>1, <3>2, <3>3, <3>4
  <2>3. CASE ~sendauth(d)
    <3>1. apReq' = apReq
      BY <2>1, <2>3
    <3>2. \/ Same(c)
          \/ d = c /\ \/ client_exec(c) \/ Prepares(c) \/ Leaves(c)
                      \/ sendauth_accepted(c) \/ net_read_length(c)
      BY <1>2, <2>3, OthersStay, OwnMoves
    <3>3. CASE client_exec(c)
      BY <1>c, <3>3 DEF client_exec, TypeOK
    <3>4. CASE Prepares(c)
      <4>1. /\ pc[c] \in {"connect", "creds"} /\ pc'[c] \in {"creds", "auth"} /\ wire'[c] = wire[c]
        BY <3>4 DEF Prepares
      <4>2. Consumed(c) = 0 /\ Consumed(c)' = 0 /\ ~Waiting(c) /\ ~Waiting(c)'
        BY <4>1 DEF Consumed, Waiting
      <4> QED
        BY <1>a, <2>1, <3>1, <4>1, <4>2
    <3>5. CASE Leaves(c)
      BY <3>5 DEF Leaves
    <3>6. CASE sendauth_accepted(c)
      <4>1. /\ pc[c] = "rep" /\ wire[c] # <<>> /\ wire'[c] = Tail(wire[c]) /\ pc'[c] = "read"
        BY <3>6 DEF sendauth_accepted, TypeOK
      <4>2. Consumed(c) = 0 /\ Consumed(c)' = 1 /\ Waiting(c) /\ Waiting(c)'
        BY <4>1 DEF Consumed, Waiting
      <4>3. Follows(Tail(wire[c]), 0 + 1) /\ Len(Tail(wire[c])) = Len(wire[c]) - 1
        BY <1>a, <1>c, <4>1, <4>2, RestFollows
      <4>4. Len(wire[c]) \in Nat
        BY <1>c
      <4> QED
        BY <1>a, <2>1, <3>1, <4>1, <4>2, <4>3, <4>4
    <3>7. CASE net_read_length(c)
      <4>1. /\ pc[c] = "read" /\ wire[c] # <<>> /\ wire'[c] = Tail(wire[c]) /\ pc'[c] = "body"
        BY <3>7 DEF net_read_length, TypeOK
      <4>2. Consumed(c) = 1 /\ Consumed(c)' = 2 /\ Waiting(c) /\ Waiting(c)'
        BY <4>1 DEF Consumed, Waiting
      <4>3. Follows(Tail(wire[c]), 1 + 1) /\ Len(Tail(wire[c])) = Len(wire[c]) - 1
        BY <1>a, <1>c, <4>1, <4>2, RestFollows
      <4>4. Len(wire[c]) \in Nat
        BY <1>c
      <4> QED
        BY <1>a, <2>1, <3>1, <4>1, <4>2, <4>3, <4>4
    <3> QED
      BY <1>1, <2>1, <3>1, <3>2, <3>3, <3>4, <3>5, <3>6, <3>7
  <2> QED
    BY <2>2, <2>3
<1>3. ASSUME NEW item, Write(item), pc' = pc, run' = run, apReq' = apReq, apReq # NONE,
             item.kind = Answer[Written + 1], Written' = Written + 1
      PROVE  Goal
  <2>1. Gets(c, item)
    BY <1>3 DEF Write, Gets
  <2> QED
    BY <1>3, <1>a, <1>b, <2>1, PartFollows
<1>4. CASE recvauth_accepts
  <2>1. /\ Write([kind |-> "ap_rep"]) /\ pc' = pc /\ run' = run /\ apReq' = apReq /\ apReq # NONE
        /\ Written = 0 /\ Written' = 1
    BY <1>4 DEF recvauth_accepts, Written, clientVars
  <2> QED
    BY <1>3, <2>1, Parts
<1>5. CASE net_write_length
  <2>1. /\ Write([kind |-> "length"]) /\ pc' = pc /\ run' = run /\ apReq' = apReq /\ apReq # NONE
        /\ Written = 1 /\ Written' = 2
    BY <1>5 DEF net_write_length, Written, clientVars, TypeOK
  <2> QED
    BY <1>3, <2>1, Parts
<1>6. CASE initiatorCreate \/ unparse_fails
  <2>1. Same(c) /\ apReq' = apReq /\ Written' = Written
    BY <1>6 DEF initiatorCreate, unparse_fails, Same, Written, clientVars
  <2> QED
    BY <1>1, <2>1
<1>7. CASE accept \/ gcks1_run
  BY <1>7 DEF accept, gcks1_run, TypeOK
<1>8. CASE recvauth_fails \/ net_write_data \/ net_write_fails \/ gcks_crash
  BY <1>8 DEF recvauth_fails, net_write_data, net_write_fails, gcks_crash, GcksExits, CloseConnection
<1>9. CASE UNCHANGED vars
  <2>1. Same(c) /\ apReq' = apReq /\ Written' = Written
    BY <1>9 DEF vars, clientVars, gcksVars, Same, Written
  <2> QED
    BY <1>1, <2>1
<1> QED
  BY <1>2, <1>4, <1>5, <1>6, <1>7, <1>8, <1>9 DEF Next, ServeStep

\* A connection in the queue is not the accepted one.
LEMMA QueuedOnce ==
  ASSUME ConnectsOnce, NEW x, NEW y, CameBefore(x, y), TypeOK
  PROVE  x # y
<1>1. PICK i \in DOMAIN arrivals, j \in DOMAIN arrivals : i < j /\ arrivals[i] = x /\ arrivals[j] = y
  BY DEF CameBefore
<1>2. i \in Int /\ j \in Int /\ i # j
  BY <1>1 DEF TypeOK
<1> QED
  BY <1>1, <1>2 DEF ConnectsOnce

\* A client in the queue stays before its AP_REQ.
LEMMA QueuedPrepares ==
  ASSUME TypeOK, EndsAgree, ConnectsOnce, ConnectionsInOrder, [Next]_vars,
         NEW i \in DOMAIN backlog, NEW c \in Client, c = backlog[i].client,
         run'[c] = backlog[i].run, pc'[c] \notin Idle
  PROVE  pc'[c] \in {"creds", "auth"}
<1> DEFINE x == backlog[i]
<1>1. Came(x)
  BY DEF ConnectionsInOrder
<1>2. Alive(x)
  BY <1>1, WasAlive
<1>3. pc[c] \in {"creds", "auth"} /\ run[c] = x.run
  BY <1>2 DEF EndsAgree, Alive
<1>4. x \in Conn /\ run[c] \in Nat
  BY DEF TypeOK
<1>5. CASE Same(c) \/ Prepares(c) \/ Leaves(c)
  BY <1>3, <1>5 DEF Same, Prepares, Leaves
<1>6. CASE client_exec(c) \/ sendauth_accepted(c) \/ net_read_length(c)
  BY <1>3, <1>6 DEF client_exec, sendauth_accepted, net_read_length, Idle
<1>7. CASE sendauth(c)
  <2>1. acc = ConnOf(c)
    BY <1>7 DEF sendauth
  <2>2. x = ConnOf(c) /\ acc # NONE
    <3>1. x = [client |-> c, run |-> run[c]]
      BY <1>3, <1>4 DEF Conn
    <3> QED
      BY <1>4, <2>1, <3>1, NoneAssumption DEF ConnOf
  <2>3. CameBefore(acc, x)
    BY <2>2 DEF ConnectionsInOrder
  <2> QED
    BY <2>1, <2>2, <2>3, QueuedOnce
<1>8. ASSUME NEW item, Gets(c, item) PROVE pc'[c] = pc[c]
  BY <1>8 DEF Gets
<1> QED
  BY <1>3, <1>5, <1>6, <1>7, <1>8, Sides

LEMMA EndsStep ==
  ASSUME TypeOK, TypeOK', StreamsFollow, StreamsFollow', EndsAgree, KeysOwned,
         ConnectsOnce, ConnectionsInOrder, [Next]_vars
  PROVE  EndsAgree'
<1>1. ASSUME acc' # NONE, Alive(acc)'
      PROVE  /\ pc'[acc'.client] # "connect"
             /\ Waiting(acc.client)' <=> apReq' # NONE
             /\ Follows(wire'[acc'.client], Consumed(acc.client)')
             /\ Consumed(acc.client)' + Len(wire'[acc'.client]) = Written'
  <2>1. CASE acc' = acc
    <3> DEFINE c == acc.client
    <3>1. c \in Client /\ Came(acc)
      BY <1>1, <2>1 DEF TypeOK, Conn, ConnectionsInOrder
    <3>2. run'[c] = acc.run /\ pc'[c] \notin Idle
      BY <1>1, <2>1 DEF Alive
    <3>3. Alive(acc)
      BY <3>1, <3>2, WasAlive
    <3>4. /\ pc'[c] # "connect"
          /\ Waiting(c)' <=> apReq' # NONE
          /\ Follows(wire'[c], Consumed(c)')
          /\ Consumed(c)' + Len(wire'[c]) = Written'
      BY <1>1, <2>1, <3>1, <3>2, <3>3, AgreeOnAccepted
    <3> QED
      BY <2>1, <3>4 DEF Waiting, Consumed
  <2>2. CASE accept
    <3>1. /\ backlog \in Seq(Conn) /\ backlog # <<>> /\ acc' = Head(backlog)
          /\ pc' = pc /\ run' = run /\ wire' = wire /\ apReq' = apReq
          /\ gpc = "accept" /\ gpc' = "recvauth"
      BY <2>2 DEF accept, TypeOK, clientVars
    <3>2. 1 \in DOMAIN backlog /\ acc' = backlog[1] /\ backlog[1] \in Conn
      BY <3>1
    <3>3. pc[acc'.client] \in {"creds", "auth"} /\ acc'.client \in Client
      <4>1. Alive(backlog[1])
        BY <1>1, <3>1, <3>2 DEF Alive
      <4> QED
        BY <3>2, <4>1 DEF EndsAgree, Conn
    <3>4. apReq = NONE
      <4>1. acc = NONE
        BY <3>1 DEF TypeOK
      <4> QED
        BY <4>1 DEF KeysOwned
    <3>5. ~Waiting(acc.client)' /\ Consumed(acc.client)' = 0 /\ wire'[acc'.client] = <<>> /\ Written' = 0
      BY <3>1, <3>3 DEF Waiting, Consumed, Written, StreamsFollow
    <3> QED
      BY <3>1, <3>3, <3>4, <3>5, NothingFollows
  <2> QED
    BY <1>1, <2>1, <2>2, ServerSteps, Connects, MessageCreated DEF initiatorCreate
<1>2. ASSUME NEW i \in DOMAIN backlog', Alive(backlog[i])'
      PROVE  pc'[backlog'[i].client] \in {"creds", "auth"}
  <2> DEFINE q == backlog
             p == backlog'
  <2>1. p[i] \in Conn /\ p[i].client \in Client /\ run'[p[i].client] = p[i].run /\ pc'[p[i].client] \notin Idle
    <3>1. p[i] \in Conn
      BY DEF TypeOK
    <3> QED
      BY <1>2, <3>1 DEF Conn, Alive
  <2>2. ASSUME NEW j \in DOMAIN q, p[i] = q[j] PROVE pc'[p[i].client] \in {"creds", "auth"}
    BY <2>1, <2>2, QueuedPrepares
  <2>3. CASE p = q
    BY <2>2, <2>3
  <2>4. CASE p = <<>>
    BY <2>4
  <2>5. CASE accept
    <3>1. q \in Seq(Conn) /\ q # <<>> /\ p = Tail(q)
      BY <2>5 DEF accept, TypeOK
    <3>2. i + 1 \in DOMAIN q /\ p[i] = q[i + 1]
      BY <3>1
    <3> QED
      BY <2>2, <3>2
  <2>6. ASSUME NEW c \in Client, connect(c) PROVE pc'[p[i].client] \in {"creds", "auth"}
    <3>1. q \in Seq(Conn) /\ ConnOf(c) \in Conn /\ p = Append(q, ConnOf(c)) /\ pc'[c] = "creds"
      BY <2>6, Connects DEF TypeOK
    <3>2. (i \in DOMAIN q /\ p[i] = q[i]) \/ p[i] = ConnOf(c)
      BY <3>1
    <3> QED
      BY <2>2, <3>1, <3>2 DEF ConnOf
  <2>7. CASE initiatorCreate
    BY <2>3, <2>7 DEF initiatorCreate
  <2> QED
    BY <2>3, <2>4, <2>5, <2>6, <2>7, ServerSteps
<1> QED
  BY <1>1, <1>2 DEF EndsAgree, Follows

--------------------------------------------------------------------------
(* Whose keys, whose messages. *)

LEMMA OwnerGrows ==
  ASSUME [Next]_vars
  PROVE  owner' = owner \/ \E c \in Client : obtain_credentials_tgs(c)
BY DEF Next, UserNext, RunStep, ServeStep, vars, client_exec, client_dies,
       recreate_client_cache, connect, connect_fails, obtain_credentials_cached,
       obtain_credentials_fails, sendauth, connection_lost,
       sendauth_accepted, sendauth_rejected, net_read_length, net_read_data,
       accept, recvauth_accepts, recvauth_fails, initiatorCreate,
       unparse_fails, net_write_length, net_write_data, net_write_fails,
       gcks_crash, gcks1_run

LEMMA TicketChanges ==
  ASSUME [Next]_vars
  PROVE  \/ ticket' = ticket
         \/ \E c \in Client : obtain_credentials_tgs(c) \/ recreate_client_cache(c)
BY DEF Next, UserNext, RunStep, ServeStep, vars, clientVars, client_exec,
       client_dies, connect, connect_fails, obtain_credentials_cached,
       obtain_credentials_fails, sendauth, connection_lost,
       sendauth_accepted, sendauth_rejected, net_read_length, net_read_data,
       accept, recvauth_accepts, recvauth_fails, initiatorCreate,
       unparse_fails, net_write_length, net_write_data, net_write_fails,
       gcks_crash, gcks1_run

LEMMA ReceiptsChange ==
  ASSUME [Next]_vars
  PROVE  receipts' = receipts \/ \E c \in Client : net_read_data(c)
BY DEF Next, UserNext, RunStep, ServeStep, vars, histVars, client_exec,
       client_dies, recreate_client_cache, connect, connect_fails,
       obtain_credentials_cached, obtain_credentials_tgs,
       obtain_credentials_fails, sendauth, connection_lost,
       sendauth_accepted, sendauth_rejected, net_read_length,
       accept, recvauth_accepts, recvauth_fails, initiatorCreate,
       unparse_fails, net_write_length, net_write_data, net_write_fails,
       gcks_crash, gcks1_run

\* gcks1's part of a step, by what becomes of its request and its message.
LEMMA RequestSteps ==
  ASSUME TypeOK, KeysOwned, [Next]_vars
  PROVE  \/ /\ gpc' = gpc /\ acc' = acc /\ apReq' = apReq /\ reply' = reply /\ made' = made
         \/ \E c \in Client : sendauth(c)
         \/ accept
         \/ recvauth_accepts
         \/ initiatorCreate
         \/ unparse_fails
         \/ net_write_length
         \/ apReq' = NONE /\ reply' = NONE /\ made' = made /\ gpc' \in {"dead", "accept"}
<1> DEFINE Quiet == /\ gpc' = gpc /\ acc' = acc /\ apReq' = apReq
                    /\ reply' = reply /\ made' = made
           Closes == apReq' = NONE /\ reply' = NONE /\ made' = made /\ gpc' \in {"dead", "accept"}
<1>1. ASSUME NEW c \in Client, UserNext(c) \/ RunStep(c) PROVE Quiet \/ sendauth(c)
  BY <1>1, GcksSide
<1>2. CASE recvauth_fails \/ net_write_data \/ net_write_fails \/ gcks_crash
  BY <1>2 DEF recvauth_fails, net_write_data, net_write_fails, gcks_crash,
              GcksExits, NextConnection, CloseConnection
<1>3. CASE gcks1_run
  <2>1. gpc = "dead" /\ reply = NONE /\ apReq = NONE
    BY <1>3 DEF gcks1_run, TypeOK, KeysOwned
  <2> QED
    BY <1>3, <2>1 DEF gcks1_run
<1>4. CASE UNCHANGED vars
  BY <1>4 DEF vars, gcksVars
<1> QED
  BY <1>1, <1>2, <1>3, <1>4 DEF Next, ServeStep

\* A session key stays its owner's.
LEMMA IssuedStays ==
  ASSUME TypeOK, [Next]_vars, NEW c, NEW k, IsIssued(c, k)
  PROVE  k \in DOMAIN owner' /\ owner'[k] = c
<1>1. CASE owner' = owner
  BY <1>1 DEF IsIssued
<1>2. ASSUME NEW d \in Client, obtain_credentials_tgs(d) PROVE k \in DOMAIN owner' /\ owner'[k] = c
  <2>1. owner \in Seq(Client) /\ owner' = Append(owner, d)
    BY <1>2 DEF obtain_credentials_tgs, TypeOK
  <2> QED
    BY <2>1 DEF IsIssued
<1> QED
  BY <1>1, <1>2, OwnerGrows

LEMMA KeysStep ==
  ASSUME TypeOK, KeysOwned, EndsAgree, [Next]_vars
  PROVE  KeysOwned'
<1> DEFINE Iss(c, k) == k \in DOMAIN owner' /\ owner'[k] = c
<1>a. \A c, k : IsIssued(c, k) => Iss(c, k)
  BY IssuedStays
<1>b. /\ \A c \in Client : ticket[c] # NoKey => Iss(c, ticket[c])
      /\ apReq # NONE => /\ acc # NONE /\ apReq.client = acc.client
                         /\ apReq.key # NoKey => Iss(acc.client, apReq.key)
      /\ gpc \in {"create", "write", "body"} => apReq.key # NoKey
      /\ \A n \in DOMAIN made : made[n].tgk = n /\ Iss(made[n].conn.client, made[n].key)
  BY <1>a DEF KeysOwned
<1>1. ASSUME NEW c \in Client PROVE ticket'[c] # NoKey => Iss(c, ticket'[c])
  <2>1. CASE ticket' = ticket
    BY <1>b, <2>1
  <2>2. ASSUME NEW d \in Client, recreate_client_cache(d) PROVE ticket'[c] # NoKey => Iss(c, ticket'[c])
    <3>1. ticket'[c] = NoKey \/ ticket'[c] = ticket[c]
      BY <2>2 DEF recreate_client_cache, TypeOK
    <3> QED
      BY <1>b, <3>1
  <2>3. ASSUME NEW d \in Client, obtain_credentials_tgs(d) PROVE ticket'[c] # NoKey => Iss(c, ticket'[c])
    <3>1. /\ owner \in Seq(Client) /\ owner' = Append(owner, d)
          /\ ticket' = [ticket EXCEPT ![d] = Len(owner')] /\ ticket \in [Client -> Nat]
      BY <2>3 DEF obtain_credentials_tgs, TypeOK
    <3>2. Len(owner') \in DOMAIN owner' /\ owner'[Len(owner')] = d
      BY <3>1
    <3>3. (c = d /\ ticket'[c] = Len(owner')) \/ ticket'[c] = ticket[c]
      BY <3>1
    <3> QED
      BY <1>b, <3>2, <3>3
  <2> QED
    BY <2>1, <2>2, <2>3, TicketChanges
<1>2. ASSUME NEW n \in DOMAIN made'
      PROVE  made'[n].tgk = n /\ Iss(made'[n].conn.client, made'[n].key)
  <2>1. CASE made' = made
    BY <1>b, <2>1
  <2>2. CASE initiatorCreate
    <3>1. /\ made \in Seq(Msg) /\ reply' \in Msg /\ made' = Append(made, reply')
          /\ reply'.conn = acc /\ reply'.key = apReq.key /\ reply'.tgk = Len(made) + 1
      BY <2>2, MessageCreated
    <3>2. Iss(reply'.conn.client, reply'.key)
      <4>1. gpc = "create" /\ apReq # NONE
        BY <2>2 DEF initiatorCreate, TypeOK
      <4> HIDE DEF Iss
      <4> QED
        BY <1>b, <3>1, <4>1
    <3>3. (n \in DOMAIN made /\ made'[n] = made[n]) \/ (n = Len(made) + 1 /\ made'[n] = reply')
      BY <3>1
    <3> HIDE DEF Iss
    <3> QED
      BY <1>b, <3>1, <3>2, <3>3
  <2> QED
    BY <2>1, <2>2, ServerSteps, Connects DEF accept
<1>3. /\ apReq' # NONE => /\ acc' # NONE /\ apReq'.client = acc'.client
                          /\ apReq'.key # NoKey => Iss(acc'.client, apReq'.key)
      /\ gpc' \in {"create", "write", "body"} => apReq'.key # NoKey
  <2>1. CASE gpc' = gpc /\ acc' = acc /\ apReq' = apReq
    BY <1>b, <2>1
  <2>2. ASSUME NEW c \in Client, sendauth(c)
        PROVE  /\ apReq' # NONE => /\ acc' # NONE /\ apReq'.client = acc'.client
                                   /\ apReq'.key # NoKey => Iss(acc'.client, apReq'.key)
               /\ gpc' \in {"create", "write", "body"} => apReq'.key # NoKey
    <3>1. /\ acc' = acc /\ gpc' = gpc /\ acc = ConnOf(c) /\ pc[c] = "auth"
          /\ apReq' = [client |-> c, run |-> run[c], key |-> ticket[c]]
      BY <2>2 DEF sendauth
    <3>2. acc \in Conn /\ acc # NONE /\ acc.client = c /\ acc.run = run[c]
      BY <3>1, NoneAssumption DEF ConnOf, Conn, TypeOK
    <3>3. apReq = NONE
      BY <3>1, <3>2 DEF EndsAgree, Alive, Waiting, Idle
    <3>4. gpc \notin {"create", "write", "body"}
      BY <3>3 DEF TypeOK
    <3> HIDE DEF Iss
    <3> QED
      BY <1>b, <3>1, <3>2, <3>4
  <2>3. CASE accept
    <3>1. gpc' = "recvauth" /\ apReq' = apReq /\ gpc = "accept"
      BY <2>3 DEF accept
    <3>2. apReq = NONE
      BY <3>1 DEF KeysOwned, TypeOK
    <3> QED
      BY <3>1, <3>2
  <2>4. CASE recvauth_accepts
    <3>1. acc' = acc /\ apReq' = apReq /\ apReq.key # NoKey
      BY <2>4 DEF recvauth_accepts
    <3> QED
      BY <1>b, <3>1
  <2>5. CASE initiatorCreate \/ unparse_fails \/ net_write_length
    <3>1. acc' = acc /\ apReq' = apReq /\ gpc \in {"create", "write"}
      BY <2>5 DEF initiatorCreate, unparse_fails, net_write_length
    <3> QED
      BY <1>b, <3>1
  <2>6. CASE apReq' = NONE /\ gpc' \in {"dead", "accept"}
    BY <2>6
  <2> QED
    BY <2>1, <2>2, <2>3, <2>4, <2>5, <2>6, RequestSteps
<1> QED
  BY <1>1, <1>2, <1>3 DEF KeysOwned, IsIssued

\* A message gcks1 made stays made.
LEMMA GenuineStays ==
  ASSUME TypeOK, [Next]_vars, NEW m, Genuine(m)
  PROVE  IF m.key = NoKey THEN m.tgk = NoKey ELSE m.tgk \in DOMAIN made' /\ m = made'[m.tgk]
<1>1. CASE made' = made
  BY <1>1 DEF Genuine
<1>2. CASE initiatorCreate
  <2>1. /\ made \in Seq(Msg) /\ reply' \in Msg /\ made' = Append(made, reply')
    BY <1>2, MessageCreated
  <2> QED
    BY <2>1 DEF Genuine
<1> QED
  BY <1>1, <1>2, ServerSteps, Connects DEF accept

\* What a connection carries to c.
LEMMA WireMessages ==
  ASSUME TypeOK, StreamsFollow, MessagesInPlace, [Next]_vars, NEW c \in Client,
         NEW i \in DOMAIN wire'[c], wire'[c][i].kind = "data"
  PROVE  Genuine(wire'[c][i].msg) /\ wire'[c][i].msg.conn = [client |-> c, run |-> run'[c]]
<1> DEFINE s == wire[c]
           t == wire'[c]
           Goal == Genuine(t[i].msg) /\ t[i].msg.conn = [client |-> c, run |-> run'[c]]
<1> SUFFICES Goal
  OBVIOUS
<1>a. /\ s \in Seq(Item)
      /\ \A j \in DOMAIN s : s[j].kind = "data" =>
           Genuine(s[j].msg) /\ s[j].msg.conn = [client |-> c, run |-> run[c]]
  BY DEF TypeOK, MessagesInPlace, ConnOf
<1>b. i \in DOMAIN t /\ t[i].kind = "data"
  OBVIOUS
<1>1. ASSUME NEW j \in DOMAIN s, t[i] = s[j], run'[c] = run[c] PROVE Goal
  BY <1>1, <1>a, <1>b
<1>2. CASE Same(c) \/ Prepares(c) \/ sendauth(c)
  <2>1. t = s /\ run'[c] = run[c]
    BY <1>2 DEF Same, Prepares, sendauth
  <2> QED
    BY <1>1, <1>b, <2>1
<1>3. CASE client_exec(c)
  <2>1. t = s /\ s = <<>>
    BY <1>3 DEF client_exec, StreamsFollow, Waiting, Idle
  <2> QED
    BY <1>b, <2>1
<1>4. CASE Leaves(c)
  <2>1. t = <<>>
    BY <1>4 DEF Leaves
  <2> QED
    BY <1>b, <2>1
<1>5. CASE sendauth_accepted(c) \/ net_read_length(c)
  <2>1. s # <<>> /\ t = Tail(s) /\ run'[c] = run[c]
    BY <1>5 DEF sendauth_accepted, net_read_length, TypeOK
  <2>2. i + 1 \in DOMAIN s /\ t[i] = s[i + 1]
    BY <1>a, <1>b, <2>1
  <2> QED
    BY <1>1, <2>1, <2>2
<1>6. ASSUME NEW item, Gets(c, item), item.kind = "data" =>
             Genuine(item.msg) /\ item.msg.conn = acc
      PROVE  Goal
  <2>1. /\ acc = [client |-> c, run |-> run[c]] /\ run' = run /\ t = Append(s, item)
    BY <1>6 DEF Gets, TypeOK, Alive, Conn
  <2>2. (i \in DOMAIN s /\ t[i] = s[i]) \/ t[i] = item
    BY <1>a, <1>b, <2>1
  <2> HIDE DEF s, t
  <2> QED
    BY <1>1, <1>6, <1>b, <2>1, <2>2
<1>7. CASE \/ recvauth_accepts /\ Gets(c, [kind |-> "ap_rep"])
           \/ recvauth_fails /\ Gets(c, [kind |-> "reject"])
           \/ net_write_length /\ Gets(c, [kind |-> "length"])
  <2> HIDE DEF Goal
  <2> QED
    BY <1>6, <1>7
<1>8. CASE net_write_data /\ Gets(c, [kind |-> "data", msg |-> reply])
  <2>1. Genuine(reply) /\ reply.conn = acc
    BY <1>8 DEF net_write_data, TypeOK, MessagesInPlace
  <2> HIDE DEF Goal
  <2> QED
    BY <1>6, <1>8, <2>1
<1>9. CASE gcks_crash /\ gpc = "body" /\ Gets(c, [kind |-> "data", msg |-> Truncated])
  <2>1. Genuine(Truncated) /\ Truncated.conn = acc
    BY DEF Genuine, Truncated
  <2> HIDE DEF Goal
  <2> QED
    BY <1>6, <1>9, <2>1
<1> HIDE DEF Goal
<1> QED
  BY <1>2, <1>3, <1>4, <1>5, <1>7, <1>8, <1>9, Sides

\* What c reads.
LEMMA WhatIsRead ==
  ASSUME TypeOK, StreamsFollow, MessagesInPlace, NEW c \in Client, net_read_data(c)
  PROVE  \E m \in Msg : \E ok \in BOOLEAN :
           /\ receipts' = receipts \cup {[conn |-> ConnOf(c), msg |-> m, ok |-> ok]}
           /\ ok => m.key # NoKey
           /\ Genuine(m) /\ m.conn = ConnOf(c)
           /\ TgksIn(wire[c]) = {m.tgk} \ {NoKey}
           /\ wire' = [wire EXCEPT ![c] = <<>>]
<1> DEFINE m == Head(wire[c]).msg
           ok == Authenticates(m, ticket[c])
<1>1. wire[c] \in Seq(Item) /\ wire[c] # <<>> /\ Follows(wire[c], 2)
  BY DEF net_read_data, TypeOK, StreamsFollow, Consumed
<1>2. /\ 1 \in DOMAIN wire[c] /\ Head(wire[c]) = wire[c][1] /\ wire[c][1].kind = "data"
      /\ m \in Msg /\ TgksIn(wire[c]) = {m.tgk} \ {NoKey}
  BY <1>1, MessageIsLast
<1>3. Genuine(m) /\ m.conn = ConnOf(c)
  BY <1>2 DEF MessagesInPlace
<1>4. ok \in BOOLEAN /\ (ok => m.key # NoKey)
  BY DEF Authenticates
<1>5. /\ receipts' = receipts \cup {[conn |-> ConnOf(c), msg |-> m, ok |-> ok]}
      /\ wire' = [wire EXCEPT ![c] = <<>>]
  BY DEF net_read_data
<1> HIDE DEF m, ok
<1> QED
  BY <1>2, <1>3, <1>4, <1>5

LEMMA MessagesStep ==
  ASSUME TypeOK, StreamsFollow, KeysOwned, MessagesInPlace, [Next]_vars
  PROVE  MessagesInPlace'
<1> DEFINE G(m) == IF m.key = NoKey THEN m.tgk = NoKey
                   ELSE m.tgk \in DOMAIN made' /\ m = made'[m.tgk]
<1>a. \A m : Genuine(m) => G(m)
  BY GenuineStays
<1>1. reply' # NONE => G(reply') /\ reply'.conn = acc'
  <2>1. CASE acc' = acc /\ reply' = reply
    BY <1>a, <2>1 DEF MessagesInPlace
  <2>2. CASE \/ \E c \in Client : sendauth(c)
             \/ recvauth_accepts
             \/ net_write_length
    BY <2>1, <2>2 DEF sendauth, recvauth_accepts, net_write_length
  <2>3. CASE accept
    BY <2>3 DEF accept, TypeOK
  <2>4. CASE initiatorCreate
    <3>1. /\ made \in Seq(Msg) /\ reply' \in Msg /\ made' = Append(made, reply')
          /\ reply'.conn = acc /\ reply'.key = apReq.key /\ reply'.tgk = Len(made) + 1
      BY <2>4, MessageCreated
    <3>2. apReq.key # NoKey /\ acc' = acc
      BY <2>4 DEF initiatorCreate, KeysOwned
    <3>3. Len(made) + 1 \in DOMAIN made' /\ made'[Len(made) + 1] = reply'
      BY <3>1
    <3> QED
      BY <3>1, <3>2, <3>3
  <2>5. CASE unparse_fails
    BY <2>5 DEF unparse_fails, UnparseError
  <2>6. CASE reply' = NONE
    BY <2>6
  <2> QED
    BY <2>1, <2>2, <2>3, <2>4, <2>5, <2>6, RequestSteps
<1>2. ASSUME NEW c \in Client, NEW i \in DOMAIN wire'[c], wire'[c][i].kind = "data"
      PROVE  G(wire'[c][i].msg) /\ wire'[c][i].msg.conn = [client |-> c, run |-> run'[c]]
  BY <1>2, <1>a, WireMessages
<1>3. ASSUME NEW r \in receipts'
      PROVE  G(r.msg) /\ r.msg.conn = r.conn /\ (r.ok => r.msg.key # NoKey)
  <2> HIDE DEF G
  <2>1. CASE r \in receipts
    BY <1>a, <2>1 DEF MessagesInPlace
  <2>2. ASSUME NEW c \in Client, net_read_data(c), r \notin receipts
        PROVE  G(r.msg) /\ r.msg.conn = r.conn /\ (r.ok => r.msg.key # NoKey)
    <3>1. PICK m \in Msg, ok \in BOOLEAN :
            /\ receipts' = receipts \cup {[conn |-> ConnOf(c), msg |-> m, ok |-> ok]}
            /\ ok => m.key # NoKey
            /\ Genuine(m) /\ m.conn = ConnOf(c)
      BY <2>2, WhatIsRead
    <3>2. r = [conn |-> ConnOf(c), msg |-> m, ok |-> ok]
      BY <2>2, <3>1
    <3> QED
      BY <1>a, <3>1, <3>2
  <2> QED
    BY <2>1, <2>2, ReceiptsChange
<1> QED
  BY <1>1, <1>2, <1>3 DEF MessagesInPlace, Genuine, ConnOf

--------------------------------------------------------------------------
(* Where the TGKs are. *)

\* The TGKs K are divided among four places.
Accounted(K, H, W, R, L) ==
  /\ K = H \cup W \cup R \cup L
  /\ H \cap (W \cup R \cup L) = {}
  /\ W \cap (R \cup L) = {}
  /\ R \cap L = {}

OnTheWire == UNION {TgksIn(wire[c]) : c \in Client}
Read      == {r.msg.tgk : r \in receipts} \ {NoKey}

\* The two ways to say it.
LEMMA FourPlaces ==
  ASSUME NEW K, NEW H, NEW W, NEW R, NEW L
  PROVE  (LET place == <<H, W, R, L>>
          IN  /\ K = UNION {place[i] : i \in DOMAIN place}
              /\ \A i, j \in DOMAIN place : i # j => place[i] \cap place[j] = {})
         <=> Accounted(K, H, W, R, L)
<1> DEFINE place == <<H, W, R, L>>
<1>1. /\ DOMAIN place = {1, 2, 3, 4}
      /\ place[1] = H /\ place[2] = W /\ place[3] = R /\ place[4] = L
  OBVIOUS
<1> HIDE DEF place
<1>2. UNION {place[i] : i \in DOMAIN place} = H \cup W \cup R \cup L
  BY <1>1
<1>3. (\A i, j \in DOMAIN place : i # j => place[i] \cap place[j] = {})
        <=> /\ H \cap (W \cup R \cup L) = {}
            /\ W \cap (R \cup L) = {}
            /\ R \cap L = {}
  BY <1>1
<1>4. ( /\ K = UNION {place[i] : i \in DOMAIN place}
        /\ \A i, j \in DOMAIN place : i # j => place[i] \cap place[j] = {})
      <=> Accounted(K, H, W, R, L)
  BY <1>2, <1>3 DEF Accounted
<1> QED
  BY <1>4, Zenon DEF place

LEMMA AccountsNow == EveryTgkAccountedFor <=> Accounted(DOMAIN made, InHand, OnTheWire, Read, lost)
BY FourPlaces, Zenon DEF EveryTgkAccountedFor, OnTheWire, Read

LEMMA AccountsNext ==
  EveryTgkAccountedFor' <=> Accounted(DOMAIN made', InHand', OnTheWire', Read', lost')
BY FourPlaces, Zenon DEF EveryTgkAccountedFor, OnTheWire, Read

\* The places when what they are made of does not change.
LEMMA PlacesStay ==
  /\ reply' = reply => InHand' = InHand
  /\ reply' = NONE => InHand' = {}
  /\ wire' = wire => OnTheWire' = OnTheWire
  /\ receipts' = receipts => Read' = Read
BY DEF InHand, OnTheWire, Read

\* One TGK, one connection.
LEMMA ConnectionsApart ==
  ASSUME MessagesInPlace, NEW c \in Client, NEW d \in Client, d # c
  PROVE  TgksIn(wire[c]) \cap TgksIn(wire[d]) = {}
<1> SUFFICES ASSUME NEW k \in TgksIn(wire[c]), k \in TgksIn(wire[d]) PROVE FALSE
  OBVIOUS
<1>1. PICK i \in DOMAIN wire[c] : wire[c][i].kind = "data" /\ wire[c][i].msg.tgk = k /\ k # NoKey
  BY TgkInStream
<1>2. PICK j \in DOMAIN wire[d] : wire[d][j].kind = "data" /\ wire[d][j].msg.tgk = k
  BY TgkInStream
<1>3. made[k] = wire[c][i].msg /\ made[k].conn = ConnOf(c)
  BY <1>1 DEF MessagesInPlace, Genuine
<1>4. made[k] = wire[d][j].msg /\ made[k].conn = ConnOf(d)
  BY <1>1, <1>2 DEF MessagesInPlace, Genuine
<1> QED
  BY <1>3, <1>4 DEF ConnOf

\* What the end of c's run takes off the wire.
LEMMA WireCloses ==
  ASSUME TypeOK, MessagesInPlace, NEW c \in Client, wire' = [wire EXCEPT ![c] = <<>>]
  PROVE  OnTheWire' = OnTheWire \ TgksIn(wire[c])
<1>1. wire'[c] = <<>> /\ \A d \in Client : d # c => wire'[d] = wire[d]
  BY DEF TypeOK
<1>2. ASSUME NEW k
      PROVE  k \in OnTheWire' <=> k \in OnTheWire /\ k \notin TgksIn(wire[c])
  <2>1. ASSUME k \in OnTheWire' PROVE k \in OnTheWire /\ k \notin TgksIn(wire[c])
    <3>1. PICK d \in Client : k \in TgksIn(wire'[d])
      BY <2>1 DEF OnTheWire
    <3>2. d # c
      BY <1>1, <3>1, TgksOfNone
    <3> QED
      BY <1>1, <3>1, <3>2, ConnectionsApart DEF OnTheWire
  <2>2. ASSUME k \in OnTheWire, k \notin TgksIn(wire[c]) PROVE k \in OnTheWire'
    <3>1. PICK d \in Client : k \in TgksIn(wire[d])
      BY <2>2 DEF OnTheWire
    <3> QED
      BY <1>1, <2>2, <3>1 DEF OnTheWire
  <2> QED
    BY <2>1, <2>2
<1> QED
  BY <1>2

\* Reading a part that is no message takes no TGK.
LEMMA WireTail ==
  ASSUME TypeOK, NEW c \in Client, wire[c] # <<>>, Head(wire[c]).kind # "data",
         wire' = [wire EXCEPT ![c] = Tail(wire[c])]
  PROVE  OnTheWire' = OnTheWire
<1>1. wire[c] \in Seq(Item)
  BY DEF TypeOK
<1>2. TgksIn(wire'[c]) = TgksIn(wire[c])
  BY <1>1, TgksOfTail DEF TypeOK
<1>3. \A d \in Client : TgksIn(wire'[d]) = TgksIn(wire[d])
  BY <1>2 DEF TypeOK
<1> QED
  BY <1>3 DEF OnTheWire

\* What gcks1 writes adds a TGK if a living client's message is in it.
LEMMA WireAppend ==
  ASSUME TypeOK, acc # NONE, NEW item \in Item, Write(item)
  PROVE  OnTheWire' = OnTheWire \cup
           (IF Alive(acc) /\ item.kind = "data" THEN {item.msg.tgk} \ {NoKey} ELSE {})
<1>1. CASE ~Alive(acc)
  <2>1. wire' = wire
    BY <1>1 DEF Write
  <2> QED
    BY <1>1, <2>1, PlacesStay
<1>2. CASE Alive(acc)
  <2> DEFINE c == acc.client
             T == IF item.kind = "data" THEN {item.msg.tgk} \ {NoKey} ELSE {}
  <2>1. c \in Client /\ wire[c] \in Seq(Item)
    BY DEF TypeOK, Conn
  <2>2. wire' = [wire EXCEPT ![c] = Append(wire[c], item)]
    BY <1>2 DEF Write
  <2> HIDE DEF c
  <2>3. TgksIn(wire'[c]) = TgksIn(wire[c]) \cup T
    BY <2>1, <2>2, TgksOfAppend DEF TypeOK
  <2>4. \A d \in Client : d # c => TgksIn(wire'[d]) = TgksIn(wire[d])
    BY <2>2 DEF TypeOK
  <2> HIDE DEF T
  <2>5. OnTheWire' = OnTheWire \cup T
    BY <2>1, <2>3, <2>4 DEF OnTheWire
  <2> QED
    BY <1>2, <2>5 DEF T
<1> QED
  BY <1>1, <1>2

LEMMA PartWritten ==
  ASSUME TypeOK, acc # NONE, NEW p \in {"ap_rep", "reject", "length"}, Write([kind |-> p])
  PROVE  OnTheWire' = OnTheWire
<1> DEFINE item == [kind |-> p]
<1>1. item \in Item /\ item.kind # "data"
  BY DEF Item
<1> HIDE DEF item
<1>2. Write(item)
  BY DEF item
<1> QED
  BY <1>1, <1>2, WireAppend

\* A step takes a TGK from one place to another, or brings a new one.
LEMMA AccountsStep ==
  ASSUME TypeOK, StreamsFollow, MessagesInPlace, EveryTgkAccountedFor, [Next]_vars
  PROVE  EveryTgkAccountedFor'
<1> DEFINE Goal == Accounted(DOMAIN made', InHand', OnTheWire', Read', lost')
<1> SUFFICES Goal
  BY AccountsNext
<1>a. Accounted(DOMAIN made, InHand, OnTheWire, Read, lost)
  BY AccountsNow
<1>b. ASSUME made' = made, InHand' = InHand, OnTheWire' = OnTheWire, Read' = Read, lost' = lost
      PROVE  Goal
  BY <1>a, <1>b
<1>1. ASSUME NEW c \in Client,
             \/ client_exec(c) \/ recreate_client_cache(c) \/ connect(c) \/ connect_fails(c)
             \/ obtain_credentials_cached(c) \/ obtain_credentials_tgs(c) \/ sendauth(c)
      PROVE  Goal
  <2>1. made' = made /\ reply' = reply /\ wire' = wire /\ receipts' = receipts /\ lost' = lost
    BY <1>1 DEF client_exec, recreate_client_cache, connect, connect_fails,
                obtain_credentials_cached, obtain_credentials_tgs, sendauth, gcksVars, histVars
  <2> QED
    BY <2>1, <1>b, PlacesStay
<1>2. ASSUME NEW c \in Client, NEW how, Ends(c, how), UNCHANGED <<gcksVars, receipts>>
      PROVE  Goal
  <2>1. OnTheWire' = OnTheWire \ TgksIn(wire[c]) /\ lost' = lost \cup TgksIn(wire[c])
    BY <1>2, WireCloses DEF Ends
  <2>2. TgksIn(wire[c]) \subseteq OnTheWire
    BY DEF OnTheWire
  <2>3. made' = made /\ InHand' = InHand /\ Read' = Read
    BY <1>2, PlacesStay DEF gcksVars
  <2> QED
    BY <1>a, <2>1, <2>2, <2>3 DEF Accounted
<1>3. ASSUME NEW c \in Client,
             \/ obtain_credentials_fails(c) \/ connection_lost(c)
             \/ sendauth_rejected(c) \/ client_dies(c)
      PROVE  Goal
  <2>1. UNCHANGED <<gcksVars, receipts>>
    BY <1>3 DEF obtain_credentials_fails, connection_lost, sendauth_rejected, client_dies
  <2>2. Ends(c, "killed") \/ Ends(c, "off") \/ (wire' = wire /\ lost' = lost)
    BY <1>3 DEF obtain_credentials_fails, connection_lost, sendauth_rejected, client_dies
  <2>3. CASE wire' = wire /\ lost' = lost
    BY <1>b, <2>1, <2>3, PlacesStay DEF gcksVars
  <2> HIDE DEF Goal
  <2> QED
    BY <1>2, <2>1, <2>2, <2>3
<1>4. ASSUME NEW c \in Client, sendauth_accepted(c) \/ net_read_length(c) PROVE Goal
  <2>1. /\ wire[c] # <<>> /\ wire' = [wire EXCEPT ![c] = Tail(wire[c])]
        /\ made' = made /\ reply' = reply /\ receipts' = receipts /\ lost' = lost
    BY <1>4 DEF sendauth_accepted, net_read_length, gcksVars, histVars
  <2>2. Head(wire[c]).kind # "data"
    <3>1. CASE sendauth_accepted(c)
      BY <3>1 DEF sendauth_accepted
    <3>2. CASE net_read_length(c)
      <4>1. Follows(wire[c], 1) /\ wire[c] \in Seq(Item)
        BY <3>2 DEF net_read_length, StreamsFollow, Consumed, TypeOK
      <4> QED
        BY <2>1, <4>1, RestFollows, Parts
    <3> QED
      BY <1>4, <3>1, <3>2
  <2>3. OnTheWire' = OnTheWire
    BY <2>1, <2>2, WireTail
  <2> QED
    BY <1>b, <2>1, <2>3, PlacesStay
<1>5. ASSUME NEW c \in Client, net_read_data(c) PROVE Goal
  <2>1. PICK m \in Msg, ok \in BOOLEAN :
          /\ receipts' = receipts \cup {[conn |-> ConnOf(c), msg |-> m, ok |-> ok]}
          /\ TgksIn(wire[c]) = {m.tgk} \ {NoKey}
          /\ wire' = [wire EXCEPT ![c] = <<>>]
    BY <1>5, WhatIsRead
  <2>2. OnTheWire' = OnTheWire \ TgksIn(wire[c])
    BY <2>1, WireCloses
  <2>3. TgksIn(wire[c]) \subseteq OnTheWire
    BY DEF OnTheWire
  <2>4. Read' = Read \cup TgksIn(wire[c])
    <3> DEFINE r == [conn |-> ConnOf(c), msg |-> m, ok |-> ok]
    <3>1. receipts' = receipts \cup {r} /\ r.msg = m
      BY <2>1
    <3> HIDE DEF r
    <3> QED
      BY <2>1, <3>1 DEF Read
  <2>5. made' = made /\ InHand' = InHand /\ lost' = lost
    BY <1>5, PlacesStay DEF net_read_data, gcksVars
  <2> QED
    BY <1>a, <2>2, <2>3, <2>4, <2>5 DEF Accounted
<1>6. CASE accept \/ gcks1_run \/ UNCHANGED vars
  <2>1. made' = made /\ reply' = reply /\ wire' = wire /\ receipts' = receipts /\ lost' = lost
    BY <1>6 DEF accept, gcks1_run, vars, gcksVars, histVars
  <2> QED
    BY <2>1, <1>b, PlacesStay
<1>7. CASE recvauth_accepts \/ net_write_length
  <2>1. /\ acc # NONE /\ made' = made /\ reply' = reply /\ receipts' = receipts /\ lost' = lost
        /\ Write([kind |-> "ap_rep"]) \/ Write([kind |-> "length"])
    BY <1>7 DEF recvauth_accepts, net_write_length, histVars, TypeOK
  <2>2. OnTheWire' = OnTheWire
    BY <2>1, PartWritten
  <2> QED
    BY <1>b, <2>1, <2>2, PlacesStay
<1>8. CASE recvauth_fails
  <2>1. /\ acc # NONE /\ made' = made /\ reply = NONE /\ reply' = NONE
        /\ receipts' = receipts /\ lost' = lost
        /\ Write([kind |-> "reject"]) \/ wire' = wire
    BY <1>8 DEF recvauth_fails, GcksExits, CloseConnection, histVars, TypeOK
  <2>2. OnTheWire' = OnTheWire
    BY <2>1, PartWritten, PlacesStay
  <2> QED
    BY <1>b, <2>1, <2>2, PlacesStay
<1>9. CASE initiatorCreate
  <2>1. /\ reply = NONE /\ reply' # NONE /\ reply'.tgk = Len(made) + 1
        /\ made \in Seq(Msg) /\ reply' \in Msg /\ made' = Append(made, reply')
    BY <1>9, MessageCreated
  <2>2. DOMAIN made' = DOMAIN made \cup {Len(made) + 1} /\ Len(made) + 1 \notin DOMAIN made
    BY <2>1
  <2>3. Len(made) + 1 # 0
    BY <2>1
  <2>4. InHand = {} /\ InHand' = {Len(made) + 1}
    BY <2>1, <2>3 DEF InHand
  <2>5. OnTheWire' = OnTheWire /\ Read' = Read /\ lost' = lost
    BY <1>9, PlacesStay DEF initiatorCreate, histVars
  <2> QED
    BY <1>a, <2>2, <2>4, <2>5 DEF Accounted
<1>10. CASE unparse_fails
  <2>1. InHand = {} /\ InHand' = {}
    BY <1>10 DEF unparse_fails, UnparseError, InHand, TypeOK
  <2>2. made' = made /\ OnTheWire' = OnTheWire /\ Read' = Read /\ lost' = lost
    BY <1>10, PlacesStay DEF unparse_fails, histVars
  <2> QED
    BY <1>b, <2>1, <2>2
<1>11. CASE net_write_data
  <2>1. /\ acc # NONE /\ reply \in Msg /\ reply # NONE /\ reply' = NONE
        /\ made' = made /\ receipts' = receipts /\ Write([kind |-> "data", msg |-> reply])
        /\ lost' = IF Alive(acc) THEN lost ELSE lost \cup InHand
    BY <1>11, NoneAssumption DEF net_write_data, CloseConnection, TypeOK
  <2>2. InHand = {reply.tgk} \ {NoKey} /\ InHand' = {} /\ Read' = Read
    BY <2>1, PlacesStay DEF InHand
  <2>3. OnTheWire' = OnTheWire \cup (IF Alive(acc) THEN InHand ELSE {})
    <3>1. [kind |-> "data", msg |-> reply] \in Item
      BY <2>1 DEF Item
    <3> QED
      BY <2>1, <2>2, <3>1, WireAppend
  <2> QED
    BY <1>a, <2>1, <2>2, <2>3 DEF Accounted
<1>12. CASE net_write_fails
  <2>1. made' = made /\ reply' = NONE /\ wire' = wire /\ receipts' = receipts /\ lost' = lost \cup InHand
    BY <1>12 DEF net_write_fails, GcksExits, CloseConnection
  <2>2. InHand' = {} /\ OnTheWire' = OnTheWire /\ Read' = Read
    BY <2>1, PlacesStay
  <2> QED
    BY <1>a, <2>1, <2>2 DEF Accounted
<1>13. CASE gcks_crash
  <2>1. /\ made' = made /\ reply' = NONE /\ receipts' = receipts /\ lost' = lost \cup InHand
        /\ wire' = wire \/ (gpc = "body" /\ Write([kind |-> "data", msg |-> Truncated]))
    BY <1>13 DEF gcks_crash, GcksExits, CloseConnection
  <2>2. OnTheWire' = OnTheWire
    <3>1. CASE wire' = wire
      BY <3>1, PlacesStay
    <3>2. CASE gpc = "body" /\ Write([kind |-> "data", msg |-> Truncated])
      <4>1. acc \in Conn /\ acc # NONE
        BY <3>2 DEF TypeOK
      <4>2. Truncated \in Msg /\ Truncated.tgk = NoKey
        BY <4>1 DEF Truncated, Msg
      <4>3. [kind |-> "data", msg |-> Truncated] \in Item
        BY <4>2 DEF Item
      <4> HIDE DEF Truncated
      <4> QED
        BY <3>2, <4>1, <4>2, <4>3, WireAppend
    <3> QED
      BY <2>1, <3>1, <3>2
  <2>3. InHand' = {} /\ Read' = Read
    BY <2>1, PlacesStay
  <2> QED
    BY <1>a, <2>1, <2>2, <2>3 DEF Accounted
<1> HIDE DEF Goal
<1> QED
  BY <1>1, <1>3, <1>4, <1>5, <1>6, <1>7, <1>8, <1>9, <1>10, <1>11, <1>12, <1>13
     DEF Next, UserNext, RunStep, ServeStep

--------------------------------------------------------------------------
\* The inductive invariant holds in every state of KM1.
THEOREM InductiveInvariant == Spec => []IInv
<1>1. Init => IInv
  <2> SUFFICES ASSUME Init PROVE IInv
    OBVIOUS
  <2>1. TypeOK
    BY DEF Init, TypeOK, Idle
  <2>2. StreamsFollow
    BY NothingFollows DEF Init, StreamsFollow, Waiting, Consumed
  <2>3. EndsAgree /\ KeysOwned
    BY DEF Init, EndsAgree, KeysOwned
  <2>4. MessagesInPlace /\ ConnectsOnce /\ ConnectionsInOrder
    BY DEF Init, MessagesInPlace, ConnectsOnce, ConnectionsInOrder
  <2>5. InHand = {} /\ OnTheWire = {} /\ Read = {} /\ lost = {} /\ DOMAIN made = {}
    BY TgksOfNone DEF Init, InHand, OnTheWire, Read
  <2>6. EveryTgkAccountedFor
    BY <2>5, AccountsNow DEF Accounted
  <2> QED
    BY <2>1, <2>2, <2>3, <2>4, <2>6 DEF IInv
<1>2. IInv /\ [Next]_vars => IInv'
  <2> SUFFICES ASSUME IInv, [Next]_vars PROVE IInv'
    OBVIOUS
  <2>a. /\ TypeOK /\ StreamsFollow /\ EndsAgree /\ KeysOwned /\ MessagesInPlace
        /\ EveryTgkAccountedFor /\ ConnectsOnce /\ ConnectionsInOrder
    BY DEF IInv
  <2>1. TypeOK'
    BY <2>a, TypeStep
  <2>2. StreamsFollow'
    BY <2>a, StreamsStep
  <2>3. EndsAgree'
    BY <2>a, <2>1, <2>2, EndsStep
  <2>4. KeysOwned'
    BY <2>a, KeysStep
  <2>5. MessagesInPlace'
    BY <2>a, MessagesStep
  <2>6. EveryTgkAccountedFor'
    BY <2>a, AccountsStep
  <2>7. ConnectsOnce'
    BY <2>a, ConnectsOnceStep
  <2>8. ConnectionsInOrder'
    BY <2>a, OrderStep
  <2> QED
    BY <2>1, <2>2, <2>3, <2>4, <2>5, <2>6, <2>7, <2>8 DEF IInv
<1> QED
  BY <1>1, <1>2, PTL DEF Spec

\* The variables of KM1 keep their types.
THEOREM TypeCorrect == Spec => []TypeOK
<1>1. IInv => TypeOK
  BY DEF IInv
<1> QED
  BY <1>1, InductiveInvariant, PTL

\* A reply that authenticates is the one gcks1 made for this very run, under a
\* session key of this client, however old the ticket in its cache is.
THEOREM AcceptedIsOwn == Spec => []AuthenticAcceptance
<1>1. IInv => AuthenticAcceptance
  <2> SUFFICES ASSUME IInv, NEW r \in Accepted
               PROVE  /\ r.msg.tgk \in DOMAIN made
                      /\ r.msg = made[r.msg.tgk]
                      /\ r.msg.conn = r.conn
                      /\ r.msg.key \in DOMAIN owner
                      /\ owner[r.msg.key] = r.conn.client
    BY DEF AuthenticAcceptance
  <2>1. r.msg.tgk \in DOMAIN made /\ r.msg = made[r.msg.tgk] /\ r.msg.conn = r.conn
    BY DEF Accepted, IInv, MessagesInPlace, Genuine
  <2>2. IsIssued(r.msg.conn.client, r.msg.key)
    BY <2>1 DEF IInv, KeysOwned
  <2> QED
    BY <2>1, <2>2 DEF IsIssued
<1> QED
  BY <1>1, InductiveInvariant, PTL

\* No TGK is ever in two places, and none vanishes.
THEOREM NothingDuplicatedOrVanished == Spec => []EveryTgkAccountedFor
<1>1. IInv => EveryTgkAccountedFor
  BY DEF IInv
<1> QED
  BY <1>1, InductiveInvariant, PTL

\* gcks1 serves the clients in the order they connected, each connection once.
THEOREM ServiceInOrder == Spec => []ServedInConnectOrder
<1>1. IInv => ServedInConnectOrder
  BY DEF IInv, ServedInConnectOrder, ConnectionsInOrder, CameBefore
<1> QED
  BY <1>1, InductiveInvariant, PTL

--------------------------------------------------------------------------
(* The abstract key transport: which of its steps a step of KM1 is. *)

\* The session keys the group keys were made under, and who accepted which.
Wrapped    == [n \in DOMAIN made |-> made[n].key]
TakenBy(R) == {[tgk |-> r.msg.tgk, client |-> r.conn.client] : r \in R}

\* The KDC's step.
LEMMA SessionKeyIssued ==
  ASSUME NEW c \in Client, obtain_credentials_tgs(c)
  PROVE  Transport!IssueSessionKey(c)
<1>1. owner' = Append(owner, c) /\ made' = made /\ receipts' = receipts
  BY DEF obtain_credentials_tgs, gcksVars, histVars
<1> QED
  BY <1>1 DEF Transport!IssueSessionKey, Accepted

\* gcks1's step: the session key of a ticket serves any number of its runs.
LEMMA GroupKeyWrapped ==
  ASSUME IInv, initiatorCreate
  PROVE  \E k \in DOMAIN owner : Transport!WrapGroupKey(k)
<1> DEFINE k == apReq.key
<1>1. /\ reply'.key = k /\ made \in Seq(Msg) /\ reply' \in Msg /\ made' = Append(made, reply')
  BY MessageCreated DEF IInv
<1>2. k \in DOMAIN owner
  BY DEF initiatorCreate, IInv, TypeOK, KeysOwned, IsIssued
<1>3. owner' = owner /\ receipts' = receipts
  BY DEF initiatorCreate, histVars
<1> HIDE DEF k
<1>4. Wrapped' = Append(Wrapped, k)
  <2>1. /\ DOMAIN made = 1 .. Len(made) /\ Len(made) \in Nat
        /\ DOMAIN made' = 1 .. Len(made) + 1
        /\ \A n \in 1 .. Len(made) : made'[n] = made[n]
        /\ made'[Len(made) + 1] = reply'
    BY <1>1
  <2>2. Wrapped = [n \in 1 .. Len(made) |-> made[n].key]
    BY <2>1 DEF Wrapped
  <2>3. Wrapped' = [n \in 1 .. Len(made) + 1 |-> IF n = Len(made) + 1 THEN k ELSE made[n].key]
    BY <1>1, <2>1 DEF Wrapped
  <2>4. Append(Wrapped, k) = [n \in 1 .. Len(made) + 1 |-> IF n = Len(made) + 1 THEN k ELSE Wrapped[n]]
    BY <2>1, <2>2
  <2> QED
    BY <2>1, <2>2, <2>3, <2>4
<1>5. Transport!WrapGroupKey(k)
  BY <1>3, <1>4 DEF Transport!WrapGroupKey, Wrapped, Accepted
<1> QED
  BY <1>2, <1>5 DEF Transport!WrapGroupKey

\* The client's step: the group key is its own, and nobody's yet.
LEMMA GroupKeyAccepted ==
  ASSUME IInv, NEW c \in Client, net_read_data(c)
  PROVE  \/ \E g \in DOMAIN made : Transport!AcceptGroupKey(g)
         \/ UNCHANGED Transport!gktVars
<1>1. PICK m \in Msg, ok \in BOOLEAN :
        /\ receipts' = receipts \cup {[conn |-> ConnOf(c), msg |-> m, ok |-> ok]}
        /\ ok => m.key # NoKey
        /\ Genuine(m) /\ m.conn = ConnOf(c)
        /\ TgksIn(wire[c]) = {m.tgk} \ {NoKey}
  BY WhatIsRead DEF IInv
<1> DEFINE r == [conn |-> ConnOf(c), msg |-> m, ok |-> ok]
<1>2. receipts' = receipts \cup {r} /\ r.msg = m /\ r.conn.client = c /\ r.ok = ok
  BY <1>1 DEF ConnOf
<1>3. owner' = owner /\ made' = made
  BY DEF net_read_data, gcksVars
<1> HIDE DEF r
<1>4. CASE ~ok
  <2>1. Accepted' = Accepted
    BY <1>2, <1>4 DEF Accepted
  <2> QED
    BY <1>3, <2>1 DEF Transport!gktVars
<1>5. CASE ok
  <2>1. Accepted' = Accepted \cup {r}
    BY <1>2, <1>5 DEF Accepted
  <2>2. m.tgk \in DOMAIN made /\ m = made[m.tgk] /\ m.tgk # NoKey
    BY <1>1, <1>5 DEF Genuine, IInv, TypeOK
  <2>3. owner[m.key] = c
    <3>1. IsIssued(m.conn.client, m.key)
      BY <2>2 DEF IInv, KeysOwned
    <3> QED
      BY <1>1, <3>1 DEF IsIssued, ConnOf
  <2>4. m.tgk \notin Read
    <3>1. m.tgk \in OnTheWire
      BY <1>1, <2>2 DEF OnTheWire
    <3> QED
      BY <3>1, AccountsNow DEF IInv, Accounted
  <2>5. ASSUME NEW s \in Accepted, s.msg.tgk = m.tgk PROVE FALSE
    BY <2>2, <2>4, <2>5 DEF Accepted, Read
  <2>6. TakenBy(Accepted') = TakenBy(Accepted) \cup {[tgk |-> m.tgk, client |-> c]}
    BY <1>2, <2>1 DEF TakenBy
  <2>7. owner[Wrapped[m.tgk]] = c
    BY <2>2, <2>3 DEF Wrapped
  <2>8. \A a \in TakenBy(Accepted) : a.tgk # m.tgk
    BY <2>5 DEF TakenBy
  <2>9. Transport!AcceptGroupKey(m.tgk)
    BY <1>3, <2>6, <2>7, <2>8 DEF Transport!AcceptGroupKey, TakenBy, Wrapped
  <2> QED
    BY <2>2, <2>9 DEF Transport!AcceptGroupKey
<1> QED
  BY <1>4, <1>5

\* KM1 implements the abstract key transport.
THEOREM KeyTransportImplemented == Spec => ImplementsTransport
<1>1. Init => Transport!GktInit
  BY DEF Init, Transport!GktInit, Accepted
<1>2. IInv /\ [Next]_vars => [Transport!GktNext]_(Transport!gktVars)
  <2> SUFFICES ASSUME IInv, [Next]_vars
               PROVE  Transport!GktNext \/ UNCHANGED Transport!gktVars
    OBVIOUS
  <2>a. TypeOK
    BY DEF IInv
  <2>1. ASSUME NEW c \in Client, obtain_credentials_tgs(c) PROVE Transport!GktNext
    BY <2>1, SessionKeyIssued DEF Transport!GktNext
  <2>2. CASE initiatorCreate
    BY <2>2, GroupKeyWrapped DEF Transport!GktNext
  <2>3. ASSUME NEW c \in Client, net_read_data(c)
        PROVE  Transport!GktNext \/ UNCHANGED Transport!gktVars
    <3>1. CASE UNCHANGED Transport!gktVars
      BY <3>1
    <3>2. ASSUME NEW g \in DOMAIN made, Transport!AcceptGroupKey(g) PROVE Transport!GktNext
      BY <3>2 DEF Transport!GktNext
    <3> QED
      BY <2>3, <3>1, <3>2, GroupKeyAccepted
  <2>4. CASE owner' = owner /\ made' = made /\ receipts' = receipts
    BY <2>4 DEF Transport!gktVars, Accepted
  <2>5. made' = made \/ initiatorCreate
    BY <2>a, ServerSteps, Connects DEF accept
  <2> QED
    BY <2>1, <2>2, <2>3, <2>4, <2>5, OwnerGrows, ReceiptsChange
<1> QED
  BY <1>1, <1>2, InductiveInvariant, PTL
     DEF Spec, ImplementsTransport, Transport!GktSpec
===========================================================================
