------------------------------- MODULE Km2 -------------------------------
(***************************************************************************)
(* The KM2 model of the key management: a client (sclient2.cxx) obtains a  *)
(* Kerberos service ticket with the KDC_OPT_MIKEY option, the KDC (the     *)
(* patched process_tgs_req) tells the GCKS the session key while it        *)
(* answers, and the GCKS (gcks2.cxx) calls the client back on TCP port     *)
(* 9999 of the client's host with a MIKEY message protected by that        *)
(* session key.                                                            *)
(*                                                                         *)
(* A Client is one sclient2 command line: a principal with its credentials *)
(* cache, and a group.  It may be run several times; the cache outlives a  *)
(* run.  Clients of one host share port 9999.                              *)
(*                                                                         *)
(* Session keys are numbered in the order the KDC generates them, group    *)
(* keys (TGKs) in the order the GCKS does; 0 stands for a key that matches *)
(* nothing.  Ciphertext is opaque: a message names the key it was made     *)
(* with, and authenticates only under that key.                            *)
(***************************************************************************)
EXTENDS Integers, Sequences

CONSTANTS
  Client,       \* sclient2 command lines: principal, cache file, group
  Host,         \* machines the clients run on
  HostOf,       \* HostOf[c]: where c runs, the address the KDC sees
  MaxRun,       \* bound: how often each client is run
  GcksBacklog,  \* connections the GCKS's listening socket holds
  ClientBacklog,\* connections a client's listening socket holds
  Fault,        \* the failures that may happen, a subset of FaultKind
  NONE          \* no value

FaultKind ==
  {"tgs_error",        \* the KDC answers the request with an error
   "tgs_timeout",      \* the client gives up waiting for the KDC
   "socket_error",     \* the KDC gets no socket for its connect()
   "connect_timeout",  \* the KDC's connect() to a full GCKS times out
   "kdc_exit",         \* the KDC exits in do_gcks_req
   "gcks_crash",       \* gcks2 dies
   "client_dies",      \* sclient2 is killed, or exits before it listens
   "no_reuse"}         \* SO_REUSEADDR is set from a stack word that is 0

NoKey == 0             \* no ticket, an uninitialised keyblock, an empty message

Request == [client : Client, run : Nat]
Ticket  == [client : Client, run : Nat, key : Nat]
Job     == [client : Client, key : Nat]
Msg     == [client : Client, key : Nat, tgk : Nat]
Receipt == [client : Client, run : Nat, msg : Msg, ok : BOOLEAN]

ASSUME HostAssumption  == HostOf \in [Client -> Host]
ASSUME BoundAssumption == /\ MaxRun \in [Client -> Nat]
                          /\ GcksBacklog \in Nat \ {0}
                          /\ ClientBacklog \in Nat \ {0}
ASSUME FaultAssumption == Fault \subseteq FaultKind
ASSUME NoneAssumption  == NONE \notin Client /\ NONE \notin Ticket /\ NONE \notin Msg

VARIABLES
  pc,       \* pc[c]: where c's run of sclient2 is
  run,      \* run[c]: number of c's current or last run
  ticket,   \* ticket[c]: session key of the service ticket in c's cache
  creds,    \* creds[c]: session key in the running client's *creds
  inbox,    \* inbox[c]: what GCKS connections to c's socket have carried
  requests, \* TGS requests waiting in the KDC's socket
  kpc,      \* where the (single-threaded) KDC is
  kdc,      \* the request and fresh session key it works on
  backlog,  \* KDC messages in connections gcks2 has not accepted
  gpc,      \* where gcks2 is
  gmsg,     \* the MIKEY message it is delivering
  peer,     \* the client whose socket it is connected to
  owner,    \* owner[k]: the client the KDC generated session key k for
  made,     \* made[n]: the MIKEY message with the n-th TGK gcks2 generated
  receipts, \* history: every message a client read, and the verdict
  lost      \* history: session keys whose message nobody will read

clientVars == <<pc, run, ticket, creds, inbox>>
kdcVars    == <<requests, kpc, kdc, owner>>
gcksVars   == <<backlog, gpc, gmsg, peer, made>>
histVars   == <<receipts, lost>>
vars == <<clientVars, kdcVars, gcksVars, histVars>>

Init ==
  /\ pc = [c \in Client |-> "off"]
  /\ run = [c \in Client |-> 0]
  /\ ticket = [c \in Client |-> NoKey]
  /\ creds = [c \in Client |-> NoKey]
  /\ inbox = [c \in Client |-> <<>>]
  /\ requests = {}
  /\ kpc = "idle"
  /\ kdc = NONE
  /\ owner = <<>>
  /\ backlog = <<>>
  /\ gpc = "accept"
  /\ gmsg = NONE
  /\ peer = NONE
  /\ made = <<>>
  /\ receipts = {}
  /\ lost = {}

(***************************************************************************)
(* Operators the actions are built from.                                   *)
(***************************************************************************)
Keys == 1 .. Len(owner)                      \* session keys in existence

KeysIn(s) == {s[i].key : i \in DOMAIN s}     \* of a queue of jobs or messages

\* Nobody on host h listens on port 9999.
PortFree(h) == \A d \in Client : HostOf[d] = h => pc[d] # "accept"

\* responderAuthenticate: the message's MAC verifies under the psk.
Mut_AnyMessage(m, psk) == m.key # NoKey
Authenticates(m, psk) == m.key # NoKey /\ m.key = psk

\* What a client reads from a connection the GCKS closed before sending.
Empty(c) == [client |-> c, key |-> NoKey, tgk |-> 0]

\* The process of c's run is gone, and its memory with it.
Ends(c) == /\ pc' = [pc EXCEPT ![c] = "off"]
           /\ creds' = [creds EXCEPT ![c] = NoKey]

\* c's sockets are closed: a GCKS connected to them is cut off.
CutOff(c) == peer' = IF peer = c THEN NONE ELSE peer

\* A listening socket queues connections in order of arrival.
Mut_NewestFirst(q, j) == <<j>> \o q
Enqueue(q, j) == Append(q, j)

\* accept() takes the connection out of the queue.
Mut_StaysQueued(q) == q
AfterAccept(q) == Tail(q)

\* generateTgk: a group key nobody has seen.
Mut_OneTgkForAll == 1
NewTgk == Len(made) + 1

\* The KDC is done with a request.
Mut_KeepsRequest == kpc' = "idle" /\ kdc' = kdc
KdcDone == kpc' = "idle" /\ kdc' = NONE

(***************************************************************************)
(* The client: sclient2.cxx, and the cache the test scripts prepare.       *)
(***************************************************************************)
client_exec(c) ==
  /\ pc[c] = "off" /\ run[c] < MaxRun[c]
  /\ pc' = [pc EXCEPT ![c] = "creds"]
  /\ run' = [run EXCEPT ![c] = @ + 1]
  /\ UNCHANGED <<ticket, creds, inbox, kdcVars, gcksVars, histVars>>

\* obtain_credentials finds the service ticket in the cache: no TGS request.
obtain_credentials_cached(c) ==
  /\ pc[c] = "creds" /\ ticket[c] # NoKey
  /\ creds' = [creds EXCEPT ![c] = ticket[c]]
  /\ pc' = [pc EXCEPT ![c] = "bind"]
  /\ UNCHANGED <<run, ticket, inbox, kdcVars, gcksVars, histVars>>

\* obtain_credentials asks the KDC, with KDC_OPT_MIKEY set.
obtain_credentials_tgs(c) ==
  /\ pc[c] = "creds" /\ ticket[c] = NoKey
  /\ requests' = requests \cup {[client |-> c, run |-> run[c]]}
  /\ pc' = [pc EXCEPT ![c] = "tgs"]
  /\ UNCHANGED <<run, ticket, creds, inbox, kpc, kdc, owner, gcksVars, histVars>>

\* No reply: obtain_credentials fails, main does not look at retval.
obtain_credentials_timeout(c) ==
  /\ "tgs_timeout" \in Fault
  /\ pc[c] = "tgs"
  /\ pc' = [pc EXCEPT ![c] = "bind"]
  /\ UNCHANGED <<run, ticket, creds, inbox, kdcVars, gcksVars, histVars>>

bind_listen(c) ==
  /\ pc[c] = "bind" /\ PortFree(HostOf[c])
  /\ pc' = [pc EXCEPT ![c] = "accept"]
  /\ UNCHANGED <<run, ticket, creds, inbox, kdcVars, gcksVars, histVars>>

\* bind() fails: exit(1).  Either another client listens, or the address is
\* still in use by an old connection and the option was not in effect.
bind_fails(c) ==
  /\ pc[c] = "bind"
  /\ \/ ~PortFree(HostOf[c])
     \/ /\ "no_reuse" \in Fault
        /\ \E r \in receipts : HostOf[r.client] = HostOf[c]
  /\ Ends(c)
  /\ UNCHANGED <<run, ticket, inbox, kdcVars, gcksVars, histVars>>

\* accept, recv, close of both sockets, responderAuthenticate, setMikeyOffer,
\* exit(0): whatever the verdict.  Connections behind the first are dropped.
accept_recv(c) ==
  /\ pc[c] = "accept" /\ inbox[c] # <<>>
  /\ LET m == Head(inbox[c])
     IN  receipts' = receipts \cup
           {[client |-> c, run |-> run[c], msg |-> m,
             ok |-> Authenticates(m, creds[c])]}
  /\ lost' = lost \cup (KeysIn(Tail(inbox[c])) \ {NoKey})
  /\ inbox' = [inbox EXCEPT ![c] = <<>>]
  /\ CutOff(c)
  /\ Ends(c)
  /\ UNCHANGED <<run, ticket, kdcVars, backlog, gpc, gmsg, made>>

\* The process ends early: an exit(1), a signal, or the machine.
client_dies(c) ==
  /\ "client_dies" \in Fault
  /\ pc[c] # "off"
  /\ Ends(c)
  /\ lost' = lost \cup (KeysIn(inbox[c]) \ {NoKey})
  /\ inbox' = [inbox EXCEPT ![c] = <<>>]
  /\ CutOff(c)
  /\ UNCHANGED <<run, ticket, kdcVars, backlog, gpc, gmsg, made, receipts>>

\* kdestroy and kinit: the cache holds a TGT and no service ticket.
recreate_client_cache(c) ==
  /\ pc[c] = "off" /\ ticket[c] # NoKey
  /\ ticket' = [ticket EXCEPT ![c] = NoKey]
  /\ UNCHANGED <<pc, run, creds, inbox, kdcVars, gcksVars, histVars>>

(***************************************************************************)
(* The KDC: process_tgs_req and do_gcks_req of krb5.patch.                 *)
(***************************************************************************)
process_tgs_req(r) ==
  /\ kpc = "idle" /\ r \in requests
  /\ requests' = requests \ {r}
  /\ owner' = Append(owner, r.client)
  /\ kdc' = [client |-> r.client, run |-> r.run, key |-> Len(owner')]
  /\ kpc' = "forward"
  /\ UNCHANGED <<clientVars, gcksVars, histVars>>

\* An error before do_gcks_req: goto cleanup, the GCKS hears nothing.
gcks_lookup_fails ==
  /\ "tgs_error" \in Fault
  /\ kpc = "forward"
  /\ kpc' = "error"
  /\ lost' = lost \cup {kdc.key}
  /\ UNCHANGED <<clientVars, requests, kdc, owner, gcksVars, receipts>>

\* connect, send and close to the GCKS's port.
do_gcks_req ==
  /\ kpc = "forward"
  /\ gpc # "down" /\ Len(backlog) < GcksBacklog
  /\ backlog' = Enqueue(backlog, [client |-> kdc.client, key |-> kdc.key])
  /\ kpc' = "reply"
  /\ UNCHANGED <<clientVars, requests, kdc, owner, gpc, gmsg, peer, made, histVars>>

\* The retry loop that is commented out, without its counter.
Mut_RetryConnect == FALSE

\* socket or connect returns -1, do_gcks_req returns -1, the caller ignores it.
do_gcks_req_fails ==
  /\ kpc = "forward"
  /\ \/ "socket_error" \in Fault
     \/ gpc = "down"
     \/ "connect_timeout" \in Fault /\ Len(backlog) >= GcksBacklog
  /\ kpc' = "reply"
  /\ lost' = lost \cup {kdc.key}
  /\ UNCHANGED <<clientVars, requests, kdc, owner, gcksVars, receipts>>

\* setsockopt(SO_LINGER) fails: exit(1) of the whole KDC.
do_gcks_req_exit ==
  /\ "kdc_exit" \in Fault
  /\ kpc = "forward"
  /\ kpc' = "dead"
  /\ kdc' = NONE
  /\ lost' = lost \cup {kdc.key}
  /\ UNCHANGED <<clientVars, requests, owner, gcksVars, receipts>>

\* Preparing the reply fails after the GCKS was told: an error reply.
process_tgs_req_late_error ==
  /\ "tgs_error" \in Fault
  /\ kpc = "reply"
  /\ kpc' = "error"
  /\ UNCHANGED <<clientVars, requests, kdc, owner, gcksVars, histVars>>

\* The run that asked is still waiting for the answer.
StillWaiting == pc[kdc.client] = "tgs" /\ run[kdc.client] = kdc.run

\* The reply reaches the client, which caches the ticket, or nobody.
tgs_reply ==
  /\ kpc = "reply"
  /\ IF StillWaiting
     THEN /\ ticket' = [ticket EXCEPT ![kdc.client] = kdc.key]
          /\ creds' = [creds EXCEPT ![kdc.client] = kdc.key]
          /\ pc' = [pc EXCEPT ![kdc.client] = "bind"]
     ELSE UNCHANGED <<ticket, creds, pc>>
  /\ KdcDone
  /\ UNCHANGED <<run, inbox, requests, owner, gcksVars, histVars>>

\* An error reply: creds stays uninitialised, and the client goes on.
tgs_error_reply ==
  /\ kpc = "error"
  /\ pc' = IF StillWaiting THEN [pc EXCEPT ![kdc.client] = "bind"] ELSE pc
  /\ KdcDone
  /\ UNCHANGED <<run, ticket, creds, inbox, requests, owner, gcksVars, histVars>>

(***************************************************************************)
(* The GCKS: gcks2.cxx, run in a loop by gcks2_run.sh.                     *)
(***************************************************************************)
\* accept, recv, process_mikey_message, and initiatorCreate with a new TGK.
process_mikey_message ==
  /\ gpc = "accept" /\ backlog # <<>>
  /\ LET j == Head(backlog)
     IN  gmsg' = [client |-> j.client, key |-> j.key, tgk |-> NewTgk]
  /\ made' = Append(made, gmsg')
  /\ backlog' = AfterAccept(backlog)
  /\ gpc' = "retry"
  /\ UNCHANGED <<clientVars, kdcVars, peer, histVars>>

Mut_ReturnsAtOnce(c) ==
  /\ gpc = "retry" /\ c = gmsg.client
  /\ gpc' = "accept" /\ gmsg' = NONE
  /\ UNCHANGED <<clientVars, kdcVars, backlog, peer, made, histVars>>

\* connect() to port 9999 of the host the KDC named succeeds; a refused
\* attempt sleeps 500 microseconds and tries again, which changes nothing.
send_mikey_message_connect(c) ==
  /\ gpc = "retry"
  /\ HostOf[c] = HostOf[gmsg.client]
  /\ pc[c] = "accept" /\ Len(inbox[c]) < ClientBacklog
  /\ peer' = c
  /\ gpc' = "send"
  /\ UNCHANGED <<clientVars, kdcVars, backlog, gmsg, made, histVars>>

\* send() and close(), results ignored; then main accepts again.
send_mikey_message_send ==
  /\ gpc = "send"
  /\ IF peer # NONE
     THEN /\ inbox' = [inbox EXCEPT ![peer] = Append(@, gmsg)]
          /\ lost' = lost
     ELSE /\ lost' = lost \cup {gmsg.key}
          /\ inbox' = inbox
  /\ gpc' = "accept"
  /\ gmsg' = NONE
  /\ peer' = NONE
  /\ UNCHANGED <<pc, run, ticket, creds, kdcVars, backlog, made, receipts>>

\* The process dies: its sockets, queued connections and message are gone.
gcks_crash ==
  /\ "gcks_crash" \in Fault
  /\ gpc # "down"
  /\ gpc' = "down"
  /\ lost' = lost \cup KeysIn(backlog)
                  \cup (IF gmsg = NONE THEN {} ELSE {gmsg.key})
  /\ inbox' = IF peer = NONE THEN inbox
              ELSE [inbox EXCEPT ![peer] = Append(@, Empty(peer))]
  /\ backlog' = <<>>
  /\ gmsg' = NONE
  /\ peer' = NONE
  /\ UNCHANGED <<pc, run, ticket, creds, kdcVars, made, receipts>>

gcks_restart ==
  /\ gpc = "down"
  /\ gpc' = "accept"
  /\ UNCHANGED <<clientVars, kdcVars, backlog, gmsg, peer, made, histVars>>

(***************************************************************************)
(* The specification.                                                      *)
(***************************************************************************)
\* The steps of a running sclient2.
ClientStep(c) ==
  \/ obtain_credentials_cached(c)
  \/ obtain_credentials_tgs(c)
  \/ obtain_credentials_timeout(c)
  \/ bind_listen(c)
  \/ bind_fails(c)
  \/ accept_recv(c)
  \/ client_dies(c)

\* The user or the script that runs it.
UserNext(c) == client_exec(c) \/ recreate_client_cache(c)

KdcNext ==
  \/ \E r \in requests : process_tgs_req(r)
  \/ gcks_lookup_fails
  \/ do_gcks_req
  \/ do_gcks_req_fails
  \/ do_gcks_req_exit
  \/ process_tgs_req_late_error
  \/ tgs_reply
  \/ tgs_error_reply

GcksNext ==
  \/ process_mikey_message
  \/ \E c \in Client : send_mikey_message_connect(c)
  \/ send_mikey_message_send
  \/ gcks_crash
  \/ gcks_restart

Next ==
  \/ \E c \in Client : UserNext(c) \/ ClientStep(c)
  \/ KdcNext
  \/ GcksNext

Spec == Init /\ [][Next]_vars

(***************************************************************************)
(* Fairness: a process that is running and not blocked in a system call    *)
(* takes its next step.  Nothing obliges anybody to start a client, to     *)
(* recreate a cache, or a failure to happen.                               *)
(***************************************************************************)
Progress ==
  /\ \A c \in Client :
       /\ WF_vars(obtain_credentials_cached(c))
       /\ WF_vars(obtain_credentials_tgs(c))
       /\ WF_vars(bind_listen(c) \/ bind_fails(c))
       /\ WF_vars(accept_recv(c))
  /\ WF_vars(\E r \in requests : process_tgs_req(r))
  /\ WF_vars(do_gcks_req \/ do_gcks_req_fails)
  /\ WF_vars(tgs_reply \/ tgs_error_reply)
  /\ WF_vars(process_mikey_message)
  /\ WF_vars(\E c \in Client : send_mikey_message_connect(c))
  /\ WF_vars(send_mikey_message_send)
  /\ WF_vars(gcks_restart)

FairSpec == Spec /\ Progress

--------------------------------------------------------------------------
(***************************************************************************)
(* Properties.                                                             *)
(***************************************************************************)
\* Every variable has its type.
TypeOK ==
  /\ pc \in [Client -> {"off", "creds", "tgs", "bind", "accept"}]
  /\ run \in [Client -> Nat]
  /\ ticket \in [Client -> Nat]
  /\ creds \in [Client -> Nat]
  /\ inbox \in [Client -> Seq(Msg)]
  /\ requests \subseteq Request
  /\ kpc \in {"idle", "forward", "reply", "error", "dead"}
  /\ kdc \in Ticket \cup {NONE}
  /\ (kdc # NONE) <=> (kpc \in {"forward", "reply", "error"})
  /\ owner \in Seq(Client)
  /\ backlog \in Seq(Job)
  /\ gpc \in {"down", "accept", "retry", "send"}
  /\ gmsg \in Msg \cup {NONE}
  /\ (gmsg # NONE) <=> (gpc \in {"retry", "send"})
  /\ peer \in Client \cup {NONE}
  /\ made \in Seq(Msg)
  /\ receipts \subseteq Receipt
  /\ lost \subseteq Nat

\* The messages that authenticated, as the clients that read them see it.
Accepted == {r \in receipts : r.ok}

\* A message that authenticates is one the GCKS made, for the client that
\* reads it, under a session key the KDC generated for that client: however
\* often port 9999 of a host changes hands between the KDC's request and the
\* GCKS's call, a client never takes another client's group key.
AuthenticAcceptance ==
  \A r \in Accepted : /\ r.msg.tgk \in DOMAIN made
                      /\ r.msg = made[r.msg.tgk]
                      /\ r.msg.client = r.client
                      /\ r.msg.key \in Keys
                      /\ owner[r.msg.key] = r.client

\* A group key is accepted at most once: the GCKS never hands out one TGK
\* twice, and no message is read by two runs, of one client or of two.
AcceptedOnce ==
  \A r, s \in Accepted : r.msg.tgk = s.msg.tgk => r = s

\* The session keys whose message is still on its way, by where it is.
Undecided  == IF kpc = "forward" THEN {kdc.key} ELSE {}
Queued     == KeysIn(backlog)
InDelivery == IF gmsg = NONE THEN {} ELSE {gmsg.key}
Arrived    == (UNION {KeysIn(inbox[c]) : c \in Client}) \ {NoKey}
Read       == {r.msg.key : r \in receipts} \ {NoKey}

\* Every session key the KDC generated is accounted for in exactly one
\* place: not yet forwarded, queued at the GCKS, being delivered, in a
\* client's socket, read, or lost.  No crash, refused connection or closed
\* socket duplicates a message or makes one vanish unrecorded.
EveryKeyAccountedFor ==
  LET place == <<Undecided, Queued, InDelivery, Arrived, Read, lost>>
  IN  /\ Keys = UNION {place[i] : i \in DOMAIN place}
      /\ \A i, j \in DOMAIN place : i # j => place[i] \cap place[j] = {}

\* The keys in the GCKS's hands, in the order it will deliver them.
Pipeline ==
  (IF gmsg = NONE THEN <<>> ELSE <<gmsg.key>>)
    \o [i \in DOMAIN backlog |-> backlog[i].key]
    \o (IF kpc = "forward" THEN <<kdc.key>> ELSE <<>>)

\* The GCKS serves clients in the order the KDC served them: a younger
\* request never overtakes an older one, and everything that has reached a
\* client's socket is older than everything that has not.
ServedInOrder ==
  /\ \A i, j \in DOMAIN Pipeline : i < j => Pipeline[i] < Pipeline[j]
  /\ \A c \in Client : \A i, j \in DOMAIN inbox[c] :
       i < j /\ inbox[c][i].key # NoKey /\ inbox[c][j].key # NoKey
         => inbox[c][i].key < inbox[c][j].key
  /\ \A k \in Arrived : \A i \in DOMAIN Pipeline : k < Pipeline[i]

\* A message was lost, or a client ended without reading one.
SomethingFailed ==
  \/ lost # {}
  \/ \E c \in Client :
       /\ pc[c] = "off" /\ run[c] > 0
       /\ \A r \in receipts : ~(r.client = c /\ r.run = run[c])

\* On hosts of their own, a client that asks the KDC comes to accept its group
\* key in that run, in whatever order the clients ask, listen and are called:
\* only a lost message or a client's death, its own or that of one the GCKS
\* keeps calling (gcks2.cxx:228), stands in the way.
AskingClientIsServed ==
  \A c \in Client : \A n \in 1 .. MaxRun[c] :
    (pc[c] = "tgs" /\ run[c] = n)
      ~> (SomethingFailed \/ \E r \in Accepted : r.client = c /\ r.run = n)

\* Every TGS request is answered, or given up by its client: the KDC is never
\* stuck for good in its call to the GCKS, however long the GCKS is stuck.
EveryRequestAnswered == \A c \in Client : pc[c] = "tgs" ~> pc[c] # "tgs"

\* A client that listens comes to be called (sclient2.cxx: "Now we listen for
\* incoming MIKEY message from GCKS").
ListenerIsCalled == \A c \in Client : pc[c] = "accept" ~> pc[c] # "accept"

\* KM2 implements the abstract key transport: the KDC's session keys, the
\* group keys the GCKS made under them, and the messages that authenticated.
Transport == INSTANCE GroupKeyTransport WITH
  Reuse    <- FALSE,
  issued   <- owner,
  wrapped  <- [n \in DOMAIN made |-> made[n].key],
  accepted <- {[tgk |-> r.msg.tgk, client |-> r.client] : r \in Accepted}

\* Every behaviour of KM2 is a behaviour of the abstract key transport.
ImplementsTransport == Transport!GktSpec
==========================================================================
