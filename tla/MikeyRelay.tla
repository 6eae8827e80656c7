---------------------------- MODULE MikeyRelay ----------------------------
(***************************************************************************)
(* What is in the two MIKEY messages of KM2, and the Mikey objects that    *)
(* make and read them.  The KDC wraps the client's session key, as the     *)
(* TGK of a message under the GCKS's service key, with the connection      *)
(* string; the GCKS takes it out and uses it as the pre-shared key of a    *)
(* second message, with a TGK of its own, which the client reads.          *)
(*                                                                         *)
(* Km2 takes the long-term keys of KDC and GCKS to agree.  Here they need  *)
(* not: gcks2 reads its keytab once, when it starts, and the administrator *)
(* may give the service a new key at any time.  Neither gcks2 nor the      *)
(* client stops when a message does not authenticate, so what a Mikey      *)
(* object holds after a failure matters.                                   *)
(*                                                                         *)
(* A key is identified by where it was made; NONE is the null pointer.     *)
(***************************************************************************)
EXTENDS Integers, Sequences

CONSTANTS
  Client,   \* sclient2 processes, each at its own address
  MaxReq,   \* bound: number of ticket requests
  MaxKvno,  \* bound: number of keys the GCKS's service gets
  Fault,    \* the failures that may happen, a subset of FaultKind
  NONE      \* no key, no message, no connection string

FaultKind ==
  {"no_keytab",   \* the GCKS's keytab is not there at first
   "short_recv",  \* recv() returns a part of the KDC's message
   "gcks_crash",  \* gcks2 is killed
   "client_dies"} \* a client is killed and started again

Key == [from : {"service", "session", "kdc", "gcks", "gcks_in", "client"},
        n    : 1 .. MaxReq + MaxKvno]

Service(kvno) == [from |-> "service", n |-> kvno]
Session(n)    == [from |-> "session", n |-> n]

Msg  == [psk : Key, tgk : Key, connInfo : Client \cup {NONE}, streams : BOOLEAN]
Sent == [n : 1 .. MaxReq, msg : Msg]
Receipt == [asked : 1 .. MaxReq, n : 1 .. MaxReq, ok : BOOLEAN, tgk : Key]

ASSUME BoundAssumption == MaxReq \in Nat \ {0} /\ MaxKvno \in Nat \ {0}
ASSUME FaultAssumption == Fault \subseteq FaultKind
ASSUME NoneAssumption  == NONE \notin Client /\ NONE \notin Key

VARIABLES
  kvno,     \* the service's newest key in the KDC's database
  keytab,   \* the key in the keytab file, 0: no file
  gcks_key, \* the key gcks2 has loaded, 0: obtain_service_key failed
  asked,    \* number of requests so far
  session,  \* session[c]: the request whose session key c holds, 0: none
  kdc,      \* the message do_gcks_req is making, or NONE
  backlog,  \* messages in the queue of the GCKS's socket
  gcks,     \* session_key and conn_info of the message gcks2 has read, or NONE
  inbox,    \* inbox[c]: messages in the queue of c's socket
  used,     \* history: used[n]: the service keys of the KDC and of the GCKS
  receipts  \* history: what the clients made of the messages they read

vars == <<kvno, keytab, gcks_key, asked, session, kdc, backlog, gcks, inbox,
          used, receipts>>

Init ==
  /\ kvno = 1
  /\ keytab \in IF "no_keytab" \in Fault THEN {0, 1} ELSE {1}
  /\ gcks_key = keytab
  /\ asked = 0 /\ session = [c \in Client |-> 0]
  /\ kdc = NONE /\ backlog = <<>> /\ gcks = NONE
  /\ inbox = [c \in Client |-> <<>>]
  /\ used = <<>> /\ receipts = {}

----------------------------------------------------------------------------
(* class Mikey. *)

\* MikeyTestConfig, and the Mikey object made from it.
Config(psk, tgkPtr, connInfo) ==
  [psk |-> psk, tgkPtr |-> tgkPtr, connInfo |-> connInfo]

New(config) == [config |-> config, state |-> "START", senders |-> 0, ka |-> NONE]

\* The cases have no break, so each runs into the last one.
setStateByInt(mikey, newState) ==
  IF newState \in 0 .. 4 THEN [mikey EXCEPT !.state = "ERROR"] ELSE mikey

call_Mikey_Construct(config) == setStateByInt(New(config), 0)

addSender(mikey) == [mikey EXCEPT !.senders = @ + 1]

Mut_NoGenerate(mikey, generated) ==
  [mikey EXCEPT !.ka = [tgk      |-> mikey.config.tgkPtr,
                        connInfo |-> mikey.config.connInfo,
                        streams  |-> mikey.state = "INITIATOR" /\ mikey.senders > 0]]

\* The TGK is the configuration's or one generated here; only an initiator
\* adds its streams.
createKeyAgreement(mikey, generated) ==
  [mikey EXCEPT !.ka =
     [tgk      |-> IF mikey.config.tgkPtr # NONE THEN mikey.config.tgkPtr
                   ELSE generated,
      connInfo |-> mikey.config.connInfo,
      streams  |-> mikey.state = "INITIATOR" /\ mikey.senders > 0]]

Mut_NoSetState(mikey, generated) == createKeyAgreement(mikey, generated)

initiatorCreate(mikey, generated) ==
  createKeyAgreement([mikey EXCEPT !.state = "INITIATOR"], generated)

\* The message: what is under the key and, in the clear, the extension payload.
MessageOf(mikey) ==
  [psk |-> mikey.config.psk, tgk |-> mikey.ka.tgk,
   connInfo |-> mikey.ka.connInfo, streams |-> mikey.ka.streams]

responderAuthenticate(mikey, msg, generated) ==
  LET responder == createKeyAgreement([mikey EXCEPT !.state = "RESPONDER"], generated)
  IN [responder EXCEPT !.state = IF msg.psk = mikey.config.psk
                                 THEN "AUTHENTICATED" ELSE "ERROR"]

Mut_AnyKey(mikey, msg) ==
  {[mikey EXCEPT !.ka.tgk = msg.tgk, !.ka.connInfo = msg.connInfo]}

\* The objects that can result.  A message under another key yields no TGK (or a
\* garbled one, which nobody shares either); the connection string stands
\* before the encrypted part and may yet be taken.
setMikeyOffer(mikey, msg) ==
  IF msg.psk = mikey.config.psk
  THEN {[mikey EXCEPT !.ka.tgk = msg.tgk, !.ka.connInfo = msg.connInfo]}
  ELSE {mikey, [mikey EXCEPT !.ka.connInfo = msg.connInfo]}

getTgk(mikey) == mikey.ka.tgk

----------------------------------------------------------------------------
(* Clients and the KDC. *)

\* A client without a ticket asks for one; the KDC makes a session key and,
\* busy with no other request, looks up the GCKS's newest key.
process_tgs_req(c) ==
  /\ session[c] = 0 /\ asked < MaxReq /\ kdc = NONE
  /\ asked' = asked + 1
  /\ session' = [session EXCEPT ![c] = asked']
  /\ used' = Append(used, [kdc |-> kvno, gcks |-> 0])
  /\ kdc' = Config(Service(kvno), NONE, c)
  /\ UNCHANGED <<kvno, keytab, gcks_key, backlog, gcks, inbox, receipts>>

Mut_NoTgk(config, key) == config

call_MikeyTestConfig_setTGK(config, key) == [config EXCEPT !.tgkPtr = key]

\* The KDC's message, sent to the GCKS.
do_gcks_req ==
  /\ kdc # NONE
  /\ LET config == call_MikeyTestConfig_setTGK(kdc, Session(asked))
         mikey  == initiatorCreate(addSender(call_Mikey_Construct(config)),
                                   [from |-> "kdc", n |-> asked])
     IN backlog' = Append(backlog, [n |-> asked, msg |-> MessageOf(mikey)])
  /\ kdc' = NONE
  /\ UNCHANGED <<kvno, keytab, gcks_key, asked, session, gcks, inbox, used, receipts>>

----------------------------------------------------------------------------
(* gcks2. *)

\* It ends, with the connections it has; gcks2_run.sh starts it again, and it
\* reads the keytab.
Restarts ==
  /\ gcks' = NONE /\ backlog' = <<>>
  /\ gcks_key' = keytab

\* The message is read; that it does not authenticate is only printed.
process_mikey_message ==
  /\ gcks = NONE /\ backlog # <<>> /\ gcks_key # 0
  /\ LET n   == Head(backlog).n
         msg == Head(backlog).msg
         reader == responderAuthenticate(New(Config(Service(gcks_key), NONE, NONE)),
                                         msg, [from |-> "gcks_in", n |-> n])
     IN /\ \E mikey \in setMikeyOffer(reader, msg) :
             /\ mikey.ka.connInfo # NONE
             /\ gcks' = [n |-> n, session_key |-> getTgk(mikey),
                         client |-> mikey.ka.connInfo]
        /\ used' = [used EXCEPT ![n].gcks = gcks_key]
  /\ backlog' = Tail(backlog)
  /\ UNCHANGED <<kvno, keytab, gcks_key, asked, session, kdc, inbox, receipts>>

\* There is no service key, no connection string or no key agreement.
process_mikey_message_crash ==
  /\ gcks = NONE /\ backlog # <<>>
  /\ \/ gcks_key = 0
     \/ Head(backlog).msg.psk # Service(gcks_key)
     \/ "short_recv" \in Fault
  /\ Restarts
  /\ UNCHANGED <<kvno, keytab, asked, session, kdc, inbox, used, receipts>>

\* The second message, under whatever session_key holds, to whichever client
\* listens at the address; connect() is repeated until one does.
send_mikey_message ==
  /\ gcks # NONE /\ session[gcks.client] # 0
  /\ LET mikey == initiatorCreate(addSender(New(Config(gcks.session_key, NONE, NONE))),
                                  [from |-> "gcks", n |-> gcks.n])
     IN inbox' = [inbox EXCEPT ![gcks.client] =
                    Append(@, [n |-> gcks.n, msg |-> MessageOf(mikey)])]
  /\ gcks' = NONE
  /\ UNCHANGED <<kvno, keytab, gcks_key, asked, session, kdc, backlog, used, receipts>>

gcks_crash ==
  /\ "gcks_crash" \in Fault
  /\ Restarts
  /\ UNCHANGED <<kvno, keytab, asked, session, kdc, inbox, used, receipts>>

----------------------------------------------------------------------------

\* The end of a client, with the connections in its queue.
CloseSocket(c) ==
  /\ session' = [session EXCEPT ![c] = 0]
  /\ inbox' = [inbox EXCEPT ![c] = <<>>]

\* A client reads a message and ends, whatever it made of it.
accept_recv(c) ==
  /\ session[c] # 0 /\ inbox[c] # <<>>
  /\ LET n   == Head(inbox[c]).n
         msg == Head(inbox[c]).msg
         reader == responderAuthenticate(New(Config(Session(session[c]), NONE, NONE)),
                                         msg, [from |-> "client", n |-> session[c]])
     IN \E mikey \in setMikeyOffer(reader, msg) :
          receipts' = receipts \cup {[asked |-> session[c], n |-> n,
                                      ok |-> reader.state = "AUTHENTICATED",
                                      tgk |-> getTgk(mikey)]}
  /\ CloseSocket(c)
  /\ UNCHANGED <<kvno, keytab, gcks_key, asked, kdc, backlog, gcks, used>>

client_dies(c) ==
  /\ "client_dies" \in Fault
  /\ session[c] # 0
  /\ CloseSocket(c)
  /\ UNCHANGED <<kvno, keytab, gcks_key, asked, kdc, backlog, gcks, used, receipts>>

\* ktadd: the database gets a new key first, the keytab file afterwards.
ktadd ==
  /\ kvno = keytab /\ kvno < MaxKvno
  /\ kvno' = kvno + 1
  /\ UNCHANGED <<keytab, gcks_key, asked, session, kdc, backlog, gcks, inbox, used, receipts>>

ktadd_writes ==
  /\ keytab # kvno
  /\ keytab' = kvno
  /\ UNCHANGED <<kvno, gcks_key, asked, session, kdc, backlog, gcks, inbox, used, receipts>>

KdcNext  == do_gcks_req \/ \E c \in Client : process_tgs_req(c)
GcksNext == \/ process_mikey_message \/ process_mikey_message_crash
            \/ send_mikey_message \/ gcks_crash

Next == \/ KdcNext \/ GcksNext \/ ktadd \/ ktadd_writes
        \/ \E c \in Client : accept_recv(c) \/ client_dies(c)

Spec == Init /\ [][Next]_vars

----------------------------------------------------------------------------
(* Properties. *)

Messages ==
  {backlog[i] : i \in DOMAIN backlog}
    \cup UNION {{inbox[c][i] : i \in DOMAIN inbox[c]} : c \in Client}

\* Every variable has its type.
TypeOK ==
  /\ {kvno, keytab, gcks_key} \subseteq 0 .. MaxKvno
  /\ asked \in 0 .. MaxReq /\ session \in [Client -> 0 .. asked]
  /\ kdc # NONE => kdc.psk \in Key /\ kdc.connInfo \in Client
  /\ gcks # NONE => gcks.session_key \in Key /\ gcks.client \in Client
  /\ Messages \subseteq Sent
  /\ receipts \subseteq Receipt
  /\ Len(used) = asked

\* When the GCKS could read the KDC's message of a request, with the key the
\* KDC had used, the message made for that request authenticates at the client
\* that asked: a client rejects only another request's message or one for which
\* the service keys differed (gcks2.cxx:166 goes on in that case).
RejectionExplained ==
  \A r \in receipts :
    ~r.ok => r.n # r.asked \/ used[r.n].kdc # used[r.n].gcks

\* A message that authenticates was made for the client's own request, by a
\* GCKS that could read the KDC's message, and the client has the GCKS's TGK:
\* the GCKS's own failure to authenticate leaves it with a key nobody else has.
AuthenticEndToEnd ==
  \A r \in receipts :
    r.ok => /\ r.n = r.asked
            /\ used[r.n].kdc = used[r.n].gcks
            /\ r.tgk = [from |-> "gcks", n |-> r.n]

\* A client never takes for the group key one that travelled in a message it
\* could not authenticate: setMikeyOffer is called either way
\* (sclient2.cxx:439-446), and leaves the object with a TGK of its own.
RejectedKeyIsPrivate ==
  \A r \in receipts : ~r.ok => r.tgk = [from |-> "client", n |-> r.asked]

\* Every message offers its maker's streams, although the wrapper's constructor
\* leaves the KDC's object in STATE_ERROR (libmikey_wrapper.cxx:30) and only an
\* initiator adds them.
EveryOfferHasStreams == \A sent \in Messages : sent.msg.streams

===========================================================================
