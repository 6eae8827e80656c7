------------------------------- MODULE Km1 -------------------------------
(***************************************************************************)
(* The KM1 model of the key management: the GCKS (gcks1.cxx) is a Kerberos *)
(* service.  A client (sclient.cxx) connects to it, obtains a service      *)
(* ticket, authenticates with krb5_sendauth, and reads from the same       *)
(* connection the MIKEY message gcks1 protected with the ticket's session  *)
(* key.                                                                    *)
(*                                                                         *)
(* gcks1 serves one connection at a time, and the client makes its         *)
(* connection before it asks the KDC for the ticket.  Any failure in       *)
(* recvauth ends gcks1; gcks1_run.sh does not start it again.              *)
(*                                                                         *)
(* A Client is one sclient command line with its credentials cache, as in  *)
(* Km2.  The ticket is for the GCKS, not for a group, so a cached one      *)
(* serves any number of runs.  Session keys and TGKs are numbered, and 0   *)
(* stands for a key that matches nothing, as in Km2.                       *)
(***************************************************************************)
EXTENDS Integers, Sequences, SequencesExt

CONSTANTS
  Client,   \* sclient command lines: principal and cache file
  MaxRun,   \* bound: how often each client is run
  Backlog,  \* connections gcks1's listening socket holds
  Fault,    \* the failures that may happen, a subset of FaultKind
  NONE      \* no connection, no message

FaultKind ==
  {"tgs_error",      \* the client gets no ticket
   "connect_timeout",\* connect() to gcks1 with a full queue times out
   "bad_ap_req",     \* krb5_rd_req rejects the request: clock, replay, keytab
   "unparse_error",  \* krb5_unparse_name fails in gcks1
   "client_dies",    \* sclient is killed
   "gcks_crash"}     \* gcks1 is killed

NoKey == 0

Conn    == [client : Client, run : Nat]
ApReq   == [client : Client, run : Nat, key : Nat]
Msg     == [conn : Conn, key : Nat, tgk : Nat]
Item    == {[kind |-> "ap_rep"], [kind |-> "reject"], [kind |-> "length"]}
             \cup [kind : {"data"}, msg : Msg]
Receipt == [conn : Conn, msg : Msg, ok : BOOLEAN]

ASSUME BoundAssumption == MaxRun \in [Client -> Nat] /\ Backlog \in Nat \ {0}
ASSUME FaultAssumption == Fault \subseteq FaultKind
ASSUME NoneAssumption  == NONE \notin Conn /\ NONE \notin ApReq /\ NONE \notin Msg

VARIABLES
  pc,       \* pc[c]: where c's run of sclient is
  run,      \* run[c]: number of c's current or last run
  ticket,   \* ticket[c]: session key of the GCKS ticket in c's cache
  wire,     \* wire[c]: what gcks1 has written to c and c has not read
  backlog,  \* connections gcks1 has not accepted
  gpc,      \* where gcks1 is
  acc,      \* the connection it has accepted
  apReq,    \* the AP_REQ that connection carries to gcks1
  reply,    \* the MIKEY message it is about to write
  owner,    \* owner[k]: the client the KDC generated session key k for
  arrivals, \* history: the connections, in the order they were made
  made,     \* made[n]: the MIKEY message with the n-th TGK gcks1 generated
  receipts, \* history: every reply a client read, and the verdict
  lost      \* history: TGKs whose message nobody will read

clientVars == <<pc, run, ticket>>
gcksVars   == <<backlog, gpc, acc, apReq, reply, made>>
histVars   == <<arrivals, receipts, lost>>
vars == <<clientVars, wire, gcksVars, owner, histVars>>

Init ==
  /\ pc = [c \in Client |-> "off"]
  /\ run = [c \in Client |-> 0]
  /\ ticket = [c \in Client |-> NoKey]
  /\ wire = [c \in Client |-> <<>>]
  /\ backlog = <<>>
  /\ gpc = "accept"
  /\ acc = NONE
  /\ apReq = NONE
  /\ reply = NONE
  /\ owner = <<>>
  /\ arrivals = <<>>
  /\ made = <<>>
  /\ receipts = {}
  /\ lost = {}

(***************************************************************************)
(* Operators the actions are built from.                                   *)
(***************************************************************************)
\* The connection of c's current run.
ConnOf(c) == [client |-> c, run |-> run[c]]

\* A client that is not running: it never was, came to an exit(), or was
\* killed by a signal.
Idle == {"off", "killed"}

\* The client at the other end still runs.
Alive(conn) == run[conn.client] = conn.run /\ pc[conn.client] \notin Idle

\* gcks1 has c's connection, accepted or not.
Connected(c) == ConnOf(c) = acc \/ ConnOf(c) \in ToSet(backlog)

\* c reads the end of its connection: gcks1 closed it, or there is none.
Mut_ReadsAgain(c) == FALSE
EndOfStream(c) == wire[c] = <<>> /\ ~Connected(c)

\* The TGKs on their way in a stream.
TgksIn(s) == {i.msg.tgk : i \in {j \in ToSet(s) : j.kind = "data"}} \ {NoKey}

\* The TGK of the message gcks1 is about to write.
InHand == IF reply = NONE THEN {} ELSE {reply.tgk} \ {NoKey}

\* The process of c's run is gone, and what it had not read with it.
Ends(c, how) ==
  /\ pc' = [pc EXCEPT ![c] = how]
  /\ wire' = [wire EXCEPT ![c] = <<>>]
  /\ lost' = lost \cup TgksIn(wire[c])

\* gcks1 writes to the connection it has accepted; a dead reader gets nothing.
Write(item) ==
  wire' = IF Alive(acc) THEN [wire EXCEPT ![acc.client] = Append(@, item)] ELSE wire

\* The accepted connection is closed, and what belongs to it freed.
Mut_KeepsConnection ==
  /\ acc' = acc
  /\ apReq' = apReq
  /\ reply' = NONE
CloseConnection ==
  /\ acc' = NONE
  /\ apReq' = NONE
  /\ reply' = NONE

\* The process of gcks1 is gone, and all its connections with it.
GcksExits ==
  /\ gpc' = "dead"
  /\ backlog' = <<>>
  /\ CloseConnection

\* The loop of main goes round.
Mut_ServesOnce == gpc' = "dead"
NextConnection == gpc' = "accept"

\* responderAuthenticate: the message's MAC verifies under the psk.
Mut_AnyMessage(m, psk) == TRUE
Authenticates(m, psk) == m.key # NoKey /\ m.key = psk

\* generateTgk: a group key nobody has seen.
NewTgk == Len(made) + 1

(***************************************************************************)
(* The client: sclient.cxx.                                                *)
(***************************************************************************)
client_exec(c) ==
  /\ pc[c] \in Idle /\ run[c] < MaxRun[c]
  /\ pc' = [pc EXCEPT ![c] = "connect"]
  /\ run' = [run EXCEPT ![c] = @ + 1]
  /\ UNCHANGED <<ticket, wire, gcksVars, owner, histVars>>

\* The kernel completes the connection when gcks1's queue has room.
Mut_NewestFirst(q, x) == <<x>> \o q
Enqueue(q, x) == Append(q, x)
connect(c) ==
  /\ pc[c] = "connect"
  /\ gpc # "dead" /\ Len(backlog) < Backlog
  /\ backlog' = Enqueue(backlog, ConnOf(c))
  /\ arrivals' = Append(arrivals, ConnOf(c))
  /\ pc' = [pc EXCEPT ![c] = "creds"]
  /\ UNCHANGED <<run, ticket, wire, gpc, acc, apReq, reply, made, owner,
                 receipts, lost>>

\* Refused or timed out: main prints "Connecting" and goes on unconnected.
connect_fails(c) ==
  /\ pc[c] = "connect"
  /\ \/ gpc = "dead"
     \/ "connect_timeout" \in Fault /\ Len(backlog) >= Backlog
  /\ pc' = [pc EXCEPT ![c] = "creds"]
  /\ UNCHANGED <<run, ticket, wire, gcksVars, owner, histVars>>

obtain_credentials_cached(c) ==
  /\ pc[c] = "creds" /\ ticket[c] # NoKey
  /\ pc' = [pc EXCEPT ![c] = "auth"]
  /\ UNCHANGED <<run, ticket, wire, gcksVars, owner, histVars>>

\* A TGS exchange with the KDC, without the MIKEY option.
obtain_credentials_tgs(c) ==
  /\ pc[c] = "creds" /\ ticket[c] = NoKey
  /\ owner' = Append(owner, c)
  /\ ticket' = [ticket EXCEPT ![c] = Len(owner')]
  /\ pc' = [pc EXCEPT ![c] = "auth"]
  /\ UNCHANGED <<run, wire, gcksVars, histVars>>

\* retval is not looked at, and creds, never set, is written through: the
\* process ends there, or goes on with credentials nobody issued.
obtain_credentials_fails(c) ==
  /\ "tgs_error" \in Fault
  /\ pc[c] = "creds" /\ ticket[c] = NoKey
  /\ \/ Ends(c, "killed")
     \/ pc' = [pc EXCEPT ![c] = "auth"] /\ UNCHANGED <<wire, lost>>
  /\ UNCHANGED <<run, ticket, gcksVars, owner, arrivals, receipts>>

\* krb5_sendauth: versions are exchanged once gcks1 has accepted; AP_REQ.
sendauth(c) ==
  /\ pc[c] = "auth" /\ acc = ConnOf(c)
  /\ apReq' = [client |-> c, run |-> run[c], key |-> ticket[c]]
  /\ pc' = [pc EXCEPT ![c] = "rep"]
  /\ UNCHANGED <<run, ticket, wire, backlog, gpc, acc, reply, made, owner, histVars>>

\* krb5_sendauth or net_read finds the connection closed: exit(1).
connection_lost(c) ==
  /\ pc[c] \in {"auth", "rep", "read", "body"} /\ EndOfStream(c)
  /\ Ends(c, "off")
  /\ UNCHANGED <<run, ticket, gcksVars, owner, arrivals, receipts>>

\* krb5_sendauth returns with the AP_REP.
sendauth_accepted(c) ==
  /\ pc[c] = "rep" /\ wire[c] # <<>> /\ Head(wire[c]).kind = "ap_rep"
  /\ wire' = [wire EXCEPT ![c] = Tail(@)]
  /\ pc' = [pc EXCEPT ![c] = "read"]
  /\ UNCHANGED <<run, ticket, gcksVars, owner, histVars>>

\* KRB5_SENDAUTH_REJECTED: reported, then the time log and exit(0).
sendauth_rejected(c) ==
  /\ pc[c] = "rep" /\ wire[c] # <<>> /\ Head(wire[c]).kind = "reject"
  /\ Ends(c, "off")
  /\ UNCHANGED <<run, ticket, gcksVars, owner, arrivals, receipts>>

\* The first net_read: the length of the reply.
net_read_length(c) ==
  /\ pc[c] = "read" /\ wire[c] # <<>>
  /\ wire' = [wire EXCEPT ![c] = Tail(@)]
  /\ pc' = [pc EXCEPT ![c] = "body"]
  /\ UNCHANGED <<run, ticket, gcksVars, owner, histVars>>

\* The second, which a part of the data followed by the end of the connection
\* satisfies too; then responderAuthenticate, setMikeyOffer, the line that
\* says "authenticated" whatever the verdict, and exit(0).
net_read_data(c) ==
  /\ pc[c] = "body" /\ wire[c] # <<>>
  /\ LET m == Head(wire[c]).msg
     IN  receipts' = receipts \cup
           {[conn |-> ConnOf(c), msg |-> m, ok |-> Authenticates(m, ticket[c])]}
  /\ pc' = [pc EXCEPT ![c] = "off"]
  /\ wire' = [wire EXCEPT ![c] = <<>>]
  /\ UNCHANGED <<run, ticket, gcksVars, owner, arrivals, lost>>

client_dies(c) ==
  /\ "client_dies" \in Fault
  /\ pc[c] \notin Idle
  /\ Ends(c, "killed")
  /\ UNCHANGED <<run, ticket, gcksVars, owner, arrivals, receipts>>

\* kdestroy and kinit.
recreate_client_cache(c) ==
  /\ pc[c] \in Idle /\ ticket[c] # NoKey
  /\ ticket' = [ticket EXCEPT ![c] = NoKey]
  /\ UNCHANGED <<pc, run, wire, gcksVars, owner, histVars>>

(***************************************************************************)
(* The server: gcks1.cxx, and recvauth as krb5.patch changes it.           *)
(***************************************************************************)
\* accept() takes the oldest connection; then recvauth reads from it.
accept ==
  /\ gpc = "accept" /\ backlog # <<>>
  /\ acc' = Head(backlog)
  /\ backlog' = Tail(backlog)
  /\ gpc' = "recvauth"
  /\ UNCHANGED <<clientVars, wire, apReq, reply, made, owner, histVars>>

\* krb5_rd_req accepts the request, and the AP_REP is written.
recvauth_accepts ==
  /\ gpc = "recvauth" /\ apReq # NONE /\ apReq.key # NoKey
  /\ Write([kind |-> "ap_rep"])
  /\ gpc' = "create"
  /\ UNCHANGED <<clientVars, backlog, acc, apReq, reply, made, owner, histVars>>

\* krb5_rd_req rejects it and says so, or the client is gone before it sent
\* one: retval is not 0, exit(1).
recvauth_fails ==
  /\ gpc = "recvauth"
  /\ \/ /\ apReq # NONE
        /\ apReq.key = NoKey \/ "bad_ap_req" \in Fault
        /\ Write([kind |-> "reject"])
     \/ apReq = NONE /\ ~Alive(acc) /\ wire' = wire
  /\ GcksExits
  /\ UNCHANGED <<clientVars, made, owner, histVars>>

\* repbuf holds a MIKEY message with a new TGK under the session key.
initiatorCreate ==
  /\ gpc = "create"
  /\ reply' = [conn |-> acc, key |-> apReq.key, tgk |-> NewTgk]
  /\ made' = Append(made, reply')
  /\ gpc' = "write"
  /\ UNCHANGED <<clientVars, wire, backlog, acc, apReq, owner, histVars>>

\* repbuf holds "You are <unparse error>": no MIKEY message.  Without that
\* strncpy it would hold the previous client's.
Mut_StaleBuffer ==
  IF made = <<>> THEN [conn |-> acc, key |-> NoKey, tgk |-> NoKey] ELSE made[Len(made)]
UnparseError == [conn |-> acc, key |-> NoKey, tgk |-> NoKey]
unparse_fails ==
  /\ "unparse_error" \in Fault
  /\ gpc = "create"
  /\ reply' = UnparseError
  /\ gpc' = "write"
  /\ UNCHANGED <<clientVars, wire, backlog, acc, apReq, made, owner, histVars>>

\* The length of the reply is written ...
net_write_length ==
  /\ gpc = "write"
  /\ Write([kind |-> "length"])
  /\ gpc' = "body"
  /\ UNCHANGED <<clientVars, backlog, acc, apReq, reply, made, owner, histVars>>

\* ... and the reply, and the connection is closed.  A client that is gone
\* loses the message ...
net_write_data ==
  /\ gpc = "body"
  /\ Write([kind |-> "data", msg |-> reply])
  /\ lost' = IF Alive(acc) THEN lost ELSE lost \cup InHand
  /\ NextConnection
  /\ CloseConnection
  /\ UNCHANGED <<clientVars, backlog, made, owner, arrivals, receipts>>

\* ... or ends gcks1 while it writes that, the length or the AP_REP: exit(1)
\* or SIGPIPE, which is not ignored.
net_write_fails ==
  /\ gpc \in {"create", "write", "body"} /\ ~Alive(acc)
  /\ lost' = lost \cup InHand
  /\ GcksExits
  /\ UNCHANGED <<clientVars, wire, made, owner, arrivals, receipts>>

\* Killed at any point: between length and data, or with a part of the data
\* written, which is no MIKEY message.
Truncated == [conn |-> acc, key |-> NoKey, tgk |-> NoKey]
gcks_crash ==
  /\ "gcks_crash" \in Fault
  /\ gpc # "dead"
  /\ \/ wire' = wire
     \/ gpc = "body" /\ Write([kind |-> "data", msg |-> Truncated])
  /\ lost' = lost \cup InHand
  /\ GcksExits
  /\ UNCHANGED <<clientVars, made, owner, arrivals, receipts>>

\* Somebody runs gcks1_run.sh, which has no loop.
gcks1_run ==
  /\ gpc = "dead"
  /\ gpc' = "accept"
  /\ UNCHANGED <<clientVars, wire, backlog, acc, apReq, reply, made, owner, histVars>>

(***************************************************************************)
(* The specification.                                                      *)
(***************************************************************************)
\* The steps of a running sclient that nothing but the system calls delay.
RunStep(c) ==
  \/ connect(c)
  \/ connect_fails(c)
  \/ obtain_credentials_cached(c)
  \/ obtain_credentials_tgs(c)
  \/ obtain_credentials_fails(c)
  \/ sendauth(c)
  \/ connection_lost(c)
  \/ sendauth_accepted(c)
  \/ sendauth_rejected(c)
  \/ net_read_length(c)
  \/ net_read_data(c)

\* What else happens to a client.
UserNext(c) == client_exec(c) \/ client_dies(c) \/ recreate_client_cache(c)

\* One round of the loop in gcks1's main.
ServeStep ==
  \/ accept
  \/ recvauth_accepts
  \/ recvauth_fails
  \/ initiatorCreate
  \/ unparse_fails
  \/ net_write_length
  \/ net_write_data
  \/ net_write_fails

Next ==
  \/ \E c \in Client : UserNext(c) \/ RunStep(c)
  \/ ServeStep
  \/ gcks_crash
  \/ gcks1_run

Spec == Init /\ [][Next]_vars

(***************************************************************************)
(* Fairness: a process takes its next step unless a system call blocks it. *)
(* A connect() that waits for room in the queue is retried by the kernel;  *)
(* with MaxRun runs at most, nobody overtakes it for ever.  Nothing        *)
(* obliges anybody to run a client, or gcks1 again after its death.        *)
(***************************************************************************)
Progress ==
  /\ \A c \in Client : WF_vars(RunStep(c))
  /\ WF_vars(ServeStep)

FairSpec == Spec /\ Progress

--------------------------------------------------------------------------
(***************************************************************************)
(* Properties.                                                             *)
(***************************************************************************)
\* Every variable has its type.
TypeOK ==
  /\ pc \in [Client -> Idle \cup {"connect", "creds", "auth", "rep", "read", "body"}]
  /\ run \in [Client -> Nat]
  /\ ticket \in [Client -> Nat]
  /\ wire \in [Client -> Seq(Item)]
  /\ backlog \in Seq(Conn)
  /\ gpc \in {"dead", "accept", "recvauth", "create", "write", "body"}
  /\ acc \in Conn \cup {NONE}
  /\ (acc # NONE) <=> (gpc \in {"recvauth", "create", "write", "body"})
  /\ apReq \in ApReq \cup {NONE}
  /\ gpc \in {"create", "write", "body"} => apReq # NONE
  /\ reply \in Msg \cup {NONE}
  /\ (reply # NONE) <=> (gpc \in {"write", "body"})
  /\ owner \in Seq(Client)
  /\ arrivals \in Seq(Conn)
  /\ made \in Seq(Msg)
  /\ receipts \subseteq Receipt
  /\ lost \subseteq Nat

\* The replies that authenticated.
Accepted == {r \in receipts : r.ok}

\* A reply that authenticates is the one gcks1 made for this very run of the
\* client, under a session key the KDC generated for that client: a key that
\* stays in the cache from run to run never makes an older run's reply, or
\* another client's, pass.
AuthenticAcceptance ==
  \A r \in Accepted : /\ r.msg.tgk \in DOMAIN made
                      /\ r.msg = made[r.msg.tgk]
                      /\ r.msg.conn = r.conn
                      /\ r.msg.key \in DOMAIN owner
                      /\ owner[r.msg.key] = r.conn.client

\* Every TGK gcks1 generated is in exactly one place: about to be written,
\* in a client's connection, read, or lost with one of the two processes.
\* gcks1 writes no client what it made for another.
EveryTgkAccountedFor ==
  LET onTheWire == UNION {TgksIn(wire[c]) : c \in Client}
      read      == {r.msg.tgk : r \in receipts} \ {NoKey}
      place     == <<InHand, onTheWire, read, lost>>
  IN  /\ DOMAIN made = UNION {place[i] : i \in DOMAIN place}
      /\ \A i, j \in DOMAIN place : i # j => place[i] \cap place[j] = {}

\* Clients are served in the order they connected, each connection once,
\* whoever of them failed in between.
ServedInConnectOrder ==
  LET served == [n \in DOMAIN made |-> made[n].conn]
  IN  \A m, n \in DOMAIN served : m < n =>
        \E i, j \in DOMAIN arrivals :
           i < j /\ arrivals[i] = served[m] /\ arrivals[j] = served[n]

\* No run of a client hangs, whichever of the failures happen, a crash of
\* gcks1 in the middle of a reply included, and however long gcks1 stays dead:
\* every wait of sclient on gcks1 or of gcks1 on a client is ended by an answer
\* or by the end of the connection.
EveryRunEnds == \A c \in Client : pc[c] \notin Idle ~> pc[c] \in Idle

\* What ends gcks1 before it has served c, or c before it is served: c is
\* killed, gcks1 holds the connection of a client that is dead, or it has
\* rejected a request.
Obstructed(c) ==
  \/ pc[c] = "killed"
  \/ \E x \in ToSet(backlog) \cup ({acc} \ {NONE}) : ~Alive(x)
  \/ \E d \in Client : [kind |-> "reject"] \in ToSet(wire[d])

\* A run that finds gcks1 alive comes to accept a TGK, be it that it waits in
\* connect() for room in the queue, or that it has its connection; with a
\* ticket that is new or cached from its client's last run, and in whatever
\* order the clients connect and reach the KDC.  Only a death or a rejection at
\* the other end of a connection that gcks1 has in its hands stands in the way,
\* not one that it is done with.
RunIsServed ==
  \A c \in Client : \A n \in 1 .. MaxRun[c] :
    /\ run[c] = n
    /\ \/ pc[c] = "connect" /\ gpc # "dead"
       \/ pc[c] = "creds" /\ Connected(c)
    ~> (Obstructed(c) \/ \E r \in Accepted : r.conn = [client |-> c, run |-> n])

\* KM1 implements the abstract key transport, in which a session key may
\* protect several group keys: a cached ticket serves several runs.
Transport == INSTANCE GroupKeyTransport WITH
  Reuse    <- TRUE,
  issued   <- owner,
  wrapped  <- [n \in DOMAIN made |-> made[n].key],
  accepted <- {[tgk |-> r.msg.tgk, client |-> r.conn.client] : r \in Accepted}

\* Every behaviour of KM1 is a behaviour of the abstract key transport.
ImplementsTransport == Transport!GktSpec
==========================================================================
