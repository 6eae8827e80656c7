------------------------- MODULE MikeyRelay_proofs -------------------------
(***************************************************************************)
(* Proofs about the two MIKEY messages for every set of clients, every     *)
(* number of requests and service keys and every set of failures: which    *)
(* message authenticates at a client, and which key the client is left     *)
(* with.                                                                   *)
(***************************************************************************)
EXTENDS MikeyRelay, TLAPS

Forwarded(n) == n \in 1 .. asked /\ used[n].gcks = 0   \* gcks2 has not read it
Handled(n)   == n \in 1 .. asked /\ used[n].gcks # 0   \* it has

\* What request n leads to, where u is used[n].  The key gcks2 takes out of the
\* KDC's message: the session key if it read it with the key it was made with,
\* else one of its own.
SessionKey(n, u) ==
  IF u.kdc = u.gcks THEN Session(n) ELSE [from |-> "gcks_in", n |-> n]

\* The KDC's message, with the address of client c, and gcks2's.
KdcMsg(n, u, c) == [psk |-> Service(u.kdc), tgk |-> Session(n),
                    connInfo |-> c, streams |-> TRUE]
GcksMsg(n, u)   == [psk |-> SessionKey(n, u), tgk |-> [from |-> "gcks", n |-> n],
                    connInfo |-> NONE, streams |-> TRUE]

\* What a client that asked for request m makes of gcks2's message.
Verdict(m, n, u) ==
  LET ok == n = m /\ u.kdc = u.gcks
  IN  [asked |-> m, n |-> n, ok |-> ok,
       tgk |-> IF ok THEN [from |-> "gcks", n |-> n] ELSE [from |-> "client", n |-> m]]

Types ==
  /\ kvno \in 1 .. MaxKvno /\ keytab \in 0 .. MaxKvno /\ gcks_key \in 0 .. MaxKvno
  /\ asked \in 0 .. MaxReq /\ session \in [Client -> 0 .. asked]
  /\ used \in Seq([kdc : 1 .. MaxKvno, gcks : 0 .. MaxKvno]) /\ Len(used) = asked
  /\ backlog \in Seq(Sent) /\ inbox \in [Client -> Seq(Sent)]

KdcWorks ==
  kdc # NONE => /\ Forwarded(asked)
                /\ \E c \in Client : kdc = Config(Service(used[asked].kdc), NONE, c)

\* Each request is in the queue once, and once only read.
BacklogRight ==
  /\ \A i \in DOMAIN backlog :
       /\ Forwarded(backlog[i].n)
       /\ kdc # NONE => backlog[i].n # asked
       /\ \E c \in Client : backlog[i].msg = KdcMsg(backlog[i].n, used[backlog[i].n], c)
  /\ \A i, j \in DOMAIN backlog : backlog[i].n = backlog[j].n => i = j

GcksWorks ==
  gcks # NONE => /\ Handled(gcks.n)
                 /\ gcks.session_key = SessionKey(gcks.n, used[gcks.n])
                 /\ gcks.client \in Client

InboxRight ==
  \A c \in Client : \A i \in DOMAIN inbox[c] :
    Handled(inbox[c][i].n) /\ inbox[c][i].msg = GcksMsg(inbox[c][i].n, used[inbox[c][i].n])

VerdictsRight ==
  \A r \in receipts : /\ Handled(r.n) /\ r.asked \in 1 .. asked
                      /\ r = Verdict(r.asked, r.n, used[r.n])

\* The inductive invariant.
IInv == Types /\ KdcWorks /\ BacklogRight /\ GcksWorks /\ InboxRight /\ VerdictsRight

--------------------------------------------------------------------------
(* What the Mikey objects make, and what they read. *)

LEMMA Keys ==
  /\ \A n \in 1 .. MaxKvno : Service(n) \in Key
  /\ \A n \in 1 .. MaxReq : /\ Session(n) \in Key
                            /\ [from |-> "gcks_in", n |-> n] \in Key
                            /\ [from |-> "gcks", n |-> n] \in Key
                            /\ [from |-> "client", n |-> n] \in Key
BY BoundAssumption DEF Key, Service, Session

\* The object of an initiator that has one sender, made from config.
Initiator(config, ka) == [config |-> config, state |-> "INITIATOR", senders |-> 1, ka |-> ka]

LEMMA KeyAgreement ==
  ASSUME NEW config, NEW state, NEW g
  PROVE  initiatorCreate([config |-> config, state |-> state, senders |-> 1, ka |-> NONE], g)
         = Initiator(config, [tgk      |-> IF config.tgkPtr # NONE THEN config.tgkPtr ELSE g,
                              connInfo |-> config.connInfo,
                              streams  |-> TRUE])
<1> DEFINE m == [config |-> config, state |-> "INITIATOR", senders |-> 1, ka |-> NONE]
           k == [tgk      |-> IF config.tgkPtr # NONE THEN config.tgkPtr ELSE g,
                 connInfo |-> config.connInfo,
                 streams  |-> m.state = "INITIATOR" /\ m.senders > 0]
<1>1. initiatorCreate([config |-> config, state |-> state, senders |-> 1, ka |-> NONE], g)
        = createKeyAgreement(m, g)
  BY DEF initiatorCreate
<1>2. m.config = config /\ (m.state = "INITIATOR" /\ m.senders > 0) = TRUE
  OBVIOUS
<1>3. createKeyAgreement(m, g) = [m EXCEPT !.ka = k]
  BY <1>2 DEF createKeyAgreement
<1>4. [m EXCEPT !.ka = k] = Initiator(config, k)
  BY DEF Initiator
<1>5. k = [tgk      |-> IF config.tgkPtr # NONE THEN config.tgkPtr ELSE g,
           connInfo |-> config.connInfo,
           streams  |-> TRUE]
  BY <1>2
<1> QED
  BY <1>1, <1>3, <1>4, <1>5

LEMMA MessageContents ==
  ASSUME NEW config, NEW ka
  PROVE  MessageOf(Initiator(config, ka))
         = [psk |-> config.psk, tgk |-> ka.tgk, connInfo |-> ka.connInfo, streams |-> ka.streams]
BY DEF MessageOf, Initiator

\* The KDC's message carries the session key it was given.
LEMMA KdcMessage ==
  ASSUME NEW k, NEW s \in Key, NEW c, NEW g
  PROVE  MessageOf(initiatorCreate(addSender(call_Mikey_Construct(
           call_MikeyTestConfig_setTGK(Config(k, NONE, c), s))), g))
         = [psk |-> k, tgk |-> s, connInfo |-> c, streams |-> TRUE]
<1> DEFINE config == [psk |-> k, tgkPtr |-> s, connInfo |-> c]
<1>1. call_MikeyTestConfig_setTGK(Config(k, NONE, c), s) = config
  BY DEF call_MikeyTestConfig_setTGK, Config
<1>2. addSender(call_Mikey_Construct(config))
        = [config |-> config, state |-> "ERROR", senders |-> 1, ka |-> NONE]
  <2> HIDE DEF config
  <2>1. call_Mikey_Construct(config)
          = [config |-> config, state |-> "ERROR", senders |-> 0, ka |-> NONE]
    BY DEF call_Mikey_Construct, setStateByInt, New
  <2> QED
    BY <2>1 DEF addSender
<1>3. s # NONE
  BY NoneAssumption
<1>4. initiatorCreate([config |-> config, state |-> "ERROR", senders |-> 1, ka |-> NONE], g)
        = Initiator(config, [tgk |-> s, connInfo |-> c, streams |-> TRUE])
  BY <1>3, KeyAgreement
<1>5. MessageOf(Initiator(config, [tgk |-> s, connInfo |-> c, streams |-> TRUE]))
        = [psk |-> k, tgk |-> s, connInfo |-> c, streams |-> TRUE]
  <2> DEFINE ka == [tgk |-> s, connInfo |-> c, streams |-> TRUE]
  <2>1. config.psk = k /\ ka.tgk = s /\ ka.connInfo = c /\ ka.streams = TRUE
    OBVIOUS
  <2> HIDE DEF config, ka
  <2>2. MessageOf(Initiator(config, ka)) = [psk |-> k, tgk |-> s, connInfo |-> c, streams |-> TRUE]
    BY <2>1, MessageContents
  <2> QED
    BY <2>2 DEF ka
<1> QED
  BY <1>1, <1>2, <1>4, <1>5

\* gcks2's carries a TGK it generates.
LEMMA GcksMessage ==
  ASSUME NEW k, NEW g
  PROVE  MessageOf(initiatorCreate(addSender(New(Config(k, NONE, NONE))), g))
         = [psk |-> k, tgk |-> g, connInfo |-> NONE, streams |-> TRUE]
<1> DEFINE config == [psk |-> k, tgkPtr |-> NONE, connInfo |-> NONE]
<1>1. addSender(New(Config(k, NONE, NONE)))
        = [config |-> config, state |-> "START", senders |-> 1, ka |-> NONE]
  BY DEF addSender, New, Config
<1>2. initiatorCreate([config |-> config, state |-> "START", senders |-> 1, ka |-> NONE], g)
        = Initiator(config, [tgk |-> g, connInfo |-> NONE, streams |-> TRUE])
  BY KeyAgreement
<1>3. MessageOf(Initiator(config, [tgk |-> g, connInfo |-> NONE, streams |-> TRUE]))
        = [psk |-> k, tgk |-> g, connInfo |-> NONE, streams |-> TRUE]
  <2> DEFINE ka == [tgk |-> g, connInfo |-> NONE, streams |-> TRUE]
  <2>1. config.psk = k /\ ka.tgk = g /\ ka.connInfo = NONE /\ ka.streams = TRUE
    OBVIOUS
  <2> HIDE DEF config, ka
  <2>2. MessageOf(Initiator(config, ka)) = [psk |-> k, tgk |-> g, connInfo |-> NONE, streams |-> TRUE]
    BY <2>1, MessageContents
  <2> QED
    BY <2>2 DEF ka
<1> QED
  BY <1>1, <1>2, <1>3

\* A reader with the message's key gets the message's TGK; with another key it
\* reports an error and is left with a TGK of its own.
LEMMA MessageRead ==
  ASSUME NEW k, NEW msg, NEW g,
         NEW mikey \in setMikeyOffer(responderAuthenticate(New(Config(k, NONE, NONE)), msg, g), msg)
  PROVE  /\ (responderAuthenticate(New(Config(k, NONE, NONE)), msg, g).state = "AUTHENTICATED")
              = (msg.psk = k)
         /\ getTgk(mikey) = IF msg.psk = k THEN msg.tgk ELSE g
         /\ mikey.ka.connInfo \in {NONE, msg.connInfo}
<1> DEFINE config == [psk |-> k, tgkPtr |-> NONE, connInfo |-> NONE]
           ka     == [tgk |-> g, connInfo |-> NONE, streams |-> FALSE]
           st     == IF msg.psk = k THEN "AUTHENTICATED" ELSE "ERROR"
           reader == [config |-> config, state |-> st, senders |-> 0, ka |-> ka]
<1>1. New(Config(k, NONE, NONE)) = [config |-> config, state |-> "START", senders |-> 0, ka |-> NONE]
  BY DEF New, Config
<1>2. responderAuthenticate([config |-> config, state |-> "START", senders |-> 0, ka |-> NONE], msg, g)
        = reader
  <2> DEFINE start == [config |-> config, state |-> "START", senders |-> 0, ka |-> NONE]
             resp  == [config |-> config, state |-> "RESPONDER", senders |-> 0, ka |-> NONE]
             with  == [config |-> config, state |-> "RESPONDER", senders |-> 0, ka |-> ka]
  <2>1. [start EXCEPT !.state = "RESPONDER"] = resp
    OBVIOUS
  <2>2. createKeyAgreement(resp, g) = with
    <3>1. /\ resp.config = config /\ config.tgkPtr = NONE /\ config.connInfo = NONE
          /\ (resp.state = "INITIATOR" /\ resp.senders > 0) = FALSE
      OBVIOUS
    <3> HIDE DEF config, resp
    <3>2. createKeyAgreement(resp, g) = [resp EXCEPT !.ka = ka]
      BY <3>1 DEF createKeyAgreement
    <3>3. [resp EXCEPT !.ka = ka] = with
      <4> HIDE DEF ka
      <4> QED
        BY DEF resp
    <3> QED
      BY <3>2, <3>3
  <2>3. [with EXCEPT !.state = st] = reader
    <3> HIDE DEF config, ka, st
    <3> QED
      OBVIOUS
  <2>4. start.config.psk = k
    OBVIOUS
  <2> HIDE DEF start, resp, with, reader
  <2>5. responderAuthenticate(start, msg, g) = [with EXCEPT !.state = st]
    BY <2>1, <2>2, <2>4 DEF responderAuthenticate
  <2> QED
    BY <2>3, <2>5 DEF start
<1>3. mikey \in setMikeyOffer(reader, msg)
  BY <1>1, <1>2
<1>4. CASE msg.psk = k
  <2>1. mikey = [reader EXCEPT !.ka.tgk = msg.tgk, !.ka.connInfo = msg.connInfo]
    BY <1>3, <1>4 DEF setMikeyOffer
  <2>2. mikey.ka = [tgk |-> msg.tgk, connInfo |-> msg.connInfo, streams |-> FALSE]
    BY <2>1
  <2> QED
    BY <1>1, <1>2, <1>4, <2>2 DEF getTgk
<1>5. CASE msg.psk # k
  <2>1. mikey \in {reader, [reader EXCEPT !.ka.connInfo = msg.connInfo]}
    BY <1>3, <1>5 DEF setMikeyOffer
  <2>2. mikey.ka \in {ka, [tgk |-> g, connInfo |-> msg.connInfo, streams |-> FALSE]}
    BY <2>1
  <2> QED
    BY <1>1, <1>2, <1>5, <2>2 DEF getTgk
<1> QED
  BY <1>4, <1>5

--------------------------------------------------------------------------
(* Which steps change what. *)

LEMMA UsedChanges ==
  ASSUME [Next]_vars
  PROVE  \/ used' = used /\ asked' = asked
         \/ \E c \in Client : process_tgs_req(c)
         \/ process_mikey_message
BY DEF Next, KdcNext, GcksNext, vars, do_gcks_req, process_mikey_message_crash,
       send_mikey_message, gcks_crash, accept_recv, client_dies, ktadd, ktadd_writes

LEMMA KdcChanges ==
  ASSUME [Next]_vars
  PROVE  kdc' = kdc \/ kdc' = NONE \/ \E c \in Client : process_tgs_req(c)
BY DEF Next, KdcNext, GcksNext, vars, do_gcks_req, process_mikey_message,
       process_mikey_message_crash, send_mikey_message, gcks_crash, accept_recv,
       client_dies, ktadd, ktadd_writes

LEMMA BacklogChanges ==
  ASSUME [Next]_vars
  PROVE  \/ backlog' = backlog /\ (kdc' = kdc \/ \E c \in Client : process_tgs_req(c))
         \/ backlog' = <<>>
         \/ do_gcks_req
         \/ process_mikey_message
BY DEF Next, KdcNext, GcksNext, vars, process_tgs_req, process_mikey_message_crash,
       send_mikey_message, gcks_crash, accept_recv, client_dies, ktadd, ktadd_writes,
       Restarts

LEMMA GcksChanges ==
  ASSUME [Next]_vars
  PROVE  gcks' = gcks \/ gcks' = NONE \/ process_mikey_message
BY DEF Next, KdcNext, GcksNext, vars, process_tgs_req, do_gcks_req,
       process_mikey_message_crash, send_mikey_message, gcks_crash, accept_recv,
       client_dies, ktadd, ktadd_writes, Restarts

LEMMA InboxChanges ==
  ASSUME [Next]_vars
  PROVE  \/ inbox' = inbox
         \/ send_mikey_message
         \/ \E c \in Client : inbox' = [inbox EXCEPT ![c] = <<>>]
BY DEF Next, KdcNext, GcksNext, vars, process_tgs_req, do_gcks_req,
       process_mikey_message, process_mikey_message_crash, gcks_crash,
       accept_recv, client_dies, ktadd, ktadd_writes, CloseSocket

LEMMA ReceiptsChange ==
  ASSUME [Next]_vars
  PROVE  receipts' = receipts \/ \E c \in Client : accept_recv(c)
BY DEF Next, KdcNext, GcksNext, vars, process_tgs_req, do_gcks_req,
       process_mikey_message, process_mikey_message_crash, send_mikey_message,
       gcks_crash, client_dies, ktadd, ktadd_writes

LEMMA SessionChanges ==
  ASSUME [Next]_vars
  PROVE  \/ session' = session
         \/ \E c \in Client : process_tgs_req(c)
         \/ \E c \in Client : session' = [session EXCEPT ![c] = 0]
BY DEF Next, KdcNext, GcksNext, vars, do_gcks_req, process_mikey_message,
       process_mikey_message_crash, send_mikey_message, gcks_crash, accept_recv,
       client_dies, ktadd, ktadd_writes, CloseSocket

LEMMA ServiceKeyChanges ==
  ASSUME Types, [Next]_vars
  PROVE  kvno' \in 1 .. MaxKvno /\ keytab' \in 0 .. MaxKvno /\ gcks_key' \in 0 .. MaxKvno
<1>1. \/ ktadd
      \/ ktadd_writes
      \/ kvno' = kvno /\ keytab' = keytab /\ gcks_key' \in {gcks_key, keytab}
  BY DEF Next, KdcNext, GcksNext, vars, process_tgs_req, do_gcks_req,
         process_mikey_message, process_mikey_message_crash, send_mikey_message,
         gcks_crash, accept_recv, client_dies, Restarts
<1>2. CASE ktadd
  BY <1>2, BoundAssumption DEF ktadd, Types
<1>3. CASE ktadd_writes
  BY <1>3, BoundAssumption DEF ktadd_writes, Types
<1> QED
  BY <1>1, <1>2, <1>3 DEF Types

--------------------------------------------------------------------------
(* The actions that make or read something. *)

Use == [kdc : 1 .. MaxKvno, gcks : 0 .. MaxKvno]

\* A new request.
LEMMA RequestMade ==
  ASSUME Types, NEW c \in Client, process_tgs_req(c)
  PROVE  /\ asked' = asked + 1 /\ asked' \in 1 .. MaxReq /\ asked \in Nat
         /\ used' = Append(used, [kdc |-> kvno, gcks |-> 0])
         /\ used' \in Seq(Use) /\ Len(used') = asked'
         /\ \A n \in 1 .. asked : n \in 1 .. asked' /\ used'[n] = used[n]
         /\ used'[asked'] = [kdc |-> kvno, gcks |-> 0]
         /\ kdc = NONE /\ kdc' = Config(Service(kvno), NONE, c)
         /\ backlog' = backlog
<1>1. /\ asked' = asked + 1 /\ asked < MaxReq /\ asked \in 0 .. MaxReq
      /\ used' = Append(used, [kdc |-> kvno, gcks |-> 0])
      /\ kdc = NONE /\ kdc' = Config(Service(kvno), NONE, c) /\ backlog' = backlog
  BY DEF process_tgs_req, Types
<1>2. asked \in Nat /\ asked' \in 1 .. MaxReq
  BY <1>1, BoundAssumption
<1>3. [kdc |-> kvno, gcks |-> 0] \in Use /\ used \in Seq(Use) /\ Len(used) = asked
  BY BoundAssumption DEF Types, Use
<1>4. /\ used' \in Seq(Use) /\ Len(used') = asked'
      /\ \A n \in 1 .. asked : n \in 1 .. asked' /\ used'[n] = used[n]
      /\ used'[asked'] = [kdc |-> kvno, gcks |-> 0]
  BY <1>1, <1>2, <1>3
<1> QED
  BY <1>1, <1>2, <1>4

\* gcks2 reads the KDC's message with the service key it has.
LEMMA KdcMessageRead ==
  ASSUME Types, BacklogRight, process_mikey_message
  PROVE  \E n \in 1 .. asked :
           /\ backlog # <<>> /\ backlog' = Tail(backlog)
           /\ 1 \in DOMAIN backlog /\ n = backlog[1].n /\ Forwarded(n)
           /\ asked' = asked /\ kdc' = kdc
           /\ used' = [used EXCEPT ![n] = [kdc |-> used[n].kdc, gcks |-> gcks_key]]
           /\ gcks_key \in 1 .. MaxKvno
           /\ gcks'.n = n /\ gcks'.client \in Client
           /\ gcks'.session_key = SessionKey(n, used'[n])
<1> DEFINE n   == Head(backlog).n
           msg == Head(backlog).msg
           g   == [from |-> "gcks_in", n |-> n]
           reader == responderAuthenticate(New(Config(Service(gcks_key), NONE, NONE)), msg, g)
<1>1. /\ backlog \in Seq(Sent) /\ backlog # <<>> /\ gcks_key # 0 /\ gcks_key \in 0 .. MaxKvno
      /\ backlog' = Tail(backlog) /\ asked' = asked /\ kdc' = kdc
      /\ used' = [used EXCEPT ![n].gcks = gcks_key]
  BY DEF process_mikey_message, Types
<1>2. gcks_key \in 1 .. MaxKvno
  BY <1>1, BoundAssumption
<1>3. 1 \in DOMAIN backlog /\ Head(backlog) = backlog[1]
  BY <1>1
<1>4. Forwarded(n) /\ \E c \in Client : msg = KdcMsg(n, used[n], c)
  BY <1>3 DEF BacklogRight
<1>5. PICK c \in Client : msg = KdcMsg(n, used[n], c)
  BY <1>4
<1>6. n \in 1 .. asked /\ used \in Seq(Use) /\ Len(used) = asked /\ asked \in Nat
  BY <1>4, BoundAssumption DEF Forwarded, Types, Use
<1>7. used[n] \in Use /\ n \in DOMAIN used
  BY <1>6
<1>8. PICK mikey \in setMikeyOffer(reader, msg) :
        /\ mikey.ka.connInfo # NONE
        /\ gcks' = [n |-> n, session_key |-> getTgk(mikey), client |-> mikey.ka.connInfo]
  BY DEF process_mikey_message
<1> HIDE DEF n, msg
<1>9. used' = [used EXCEPT ![n] = [kdc |-> used[n].kdc, gcks |-> gcks_key]]
  <2>1. [used[n] EXCEPT !.gcks = gcks_key] = [kdc |-> used[n].kdc, gcks |-> gcks_key]
    BY <1>7 DEF Use
  <2>2. used' = [used EXCEPT ![n] = [used[n] EXCEPT !.gcks = gcks_key]]
    BY <1>1
  <2> QED
    BY <2>1, <2>2
<1>10. used'[n] = [kdc |-> used[n].kdc, gcks |-> gcks_key]
  BY <1>7, <1>9
<1>11. /\ getTgk(mikey) = IF msg.psk = Service(gcks_key) THEN msg.tgk ELSE g
       /\ mikey.ka.connInfo \in {NONE, msg.connInfo}
  BY <1>8, MessageRead
<1>12. msg.psk = Service(used[n].kdc) /\ msg.tgk = Session(n) /\ msg.connInfo = c
  BY <1>5 DEF KdcMsg
<1>13. (Service(used[n].kdc) = Service(gcks_key)) <=> used[n].kdc = gcks_key
  BY DEF Service
<1>14. SessionKey(n, used'[n]) = IF used[n].kdc = gcks_key THEN Session(n) ELSE g
  BY <1>10 DEF SessionKey
<1> HIDE DEF g, reader
<1>15. getTgk(mikey) = SessionKey(n, used'[n]) /\ mikey.ka.connInfo = c
  BY <1>8, <1>11, <1>12, <1>13, <1>14
<1>16. gcks'.n = n /\ gcks'.client = c /\ gcks'.session_key = SessionKey(n, used'[n])
  BY <1>8, <1>15
<1>17. n = backlog[1].n
  BY <1>3 DEF n
<1> QED
  BY <1>1, <1>2, <1>3, <1>4, <1>6, <1>9, <1>16, <1>17

\* The KDC sends its message.
LEMMA KdcMessageSent ==
  ASSUME Types, KdcWorks, do_gcks_req
  PROVE  /\ Forwarded(asked) /\ kdc # NONE /\ kdc' = NONE
         /\ used' = used /\ asked' = asked
         /\ \E c \in Client : \E e \in Sent :
              /\ backlog' = Append(backlog, e)
              /\ e.n = asked /\ e.msg = KdcMsg(asked, used[asked], c)
<1>1. Forwarded(asked) /\ kdc # NONE /\ kdc' = NONE /\ used' = used /\ asked' = asked
  BY DEF do_gcks_req, KdcWorks
<1>2. asked \in 1 .. MaxReq /\ used[asked] \in Use
  <2>1. asked \in 0 .. MaxReq /\ asked \in 1 .. asked /\ used \in Seq(Use) /\ Len(used) = asked
    BY <1>1 DEF Forwarded, Types, Use
  <2> QED
    BY <2>1, BoundAssumption
<1>3. PICK c \in Client : kdc = Config(Service(used[asked].kdc), NONE, c)
  BY <1>1 DEF KdcWorks
<1>4. Session(asked) \in Key /\ Service(used[asked].kdc) \in Key
  BY <1>2, Keys DEF Use
<1> DEFINE m == KdcMsg(asked, used[asked], c)
           e == [n |-> asked, msg |-> m]
<1>5. backlog' = Append(backlog, e)
  <2>1. MessageOf(initiatorCreate(addSender(call_Mikey_Construct(
           call_MikeyTestConfig_setTGK(kdc, Session(asked)))), [from |-> "kdc", n |-> asked]))
        = m
    BY <1>3, <1>4, KdcMessage DEF KdcMsg
  <2> HIDE DEF m
  <2> QED
    BY <2>1 DEF do_gcks_req
<1>6. m \in Msg
  BY <1>4 DEF KdcMsg, Msg
<1> HIDE DEF m
<1>7. e \in Sent /\ e.n = asked /\ e.msg = m
  BY <1>2, <1>6 DEF Sent
<1> HIDE DEF e
<1> QED
  BY <1>1, <1>5, <1>7 DEF m

\* gcks2 sends its own.
LEMMA GcksMessageSent ==
  ASSUME Types, GcksWorks, send_mikey_message
  PROVE  \E e \in Sent : \E c \in Client :
           /\ Handled(e.n) /\ e.msg = GcksMsg(e.n, used[e.n])
           /\ inbox' = [inbox EXCEPT ![c] = Append(inbox[c], e)]
<1> DEFINE n == gcks.n
           m == GcksMsg(n, used[n])
           e == [n |-> n, msg |-> m]
<1>1. /\ Handled(n) /\ gcks.session_key = SessionKey(n, used[n]) /\ gcks.client \in Client
  BY DEF send_mikey_message, GcksWorks
<1>2. n \in 1 .. MaxReq
  BY <1>1, BoundAssumption DEF Handled, Types
<1>3. inbox' = [inbox EXCEPT ![gcks.client] = Append(inbox[gcks.client], e)]
  <2>1. MessageOf(initiatorCreate(addSender(New(Config(gcks.session_key, NONE, NONE))),
                                  [from |-> "gcks", n |-> gcks.n])) = m
    BY <1>1, GcksMessage DEF GcksMsg
  <2> HIDE DEF m
  <2> QED
    BY <2>1 DEF send_mikey_message
<1>4. m \in Msg
  <2>1. SessionKey(n, used[n]) \in Key /\ [from |-> "gcks", n |-> n] \in Key
    BY <1>2, Keys DEF SessionKey
  <2> HIDE DEF n
  <2> QED
    BY <2>1 DEF GcksMsg, Msg
<1> HIDE DEF m
<1>5. e \in Sent /\ e.n = n /\ e.msg = m
  BY <1>2, <1>4 DEF Sent
<1> HIDE DEF e
<1> QED
  BY <1>1, <1>3, <1>5 DEF m

\* A client's verdict.
LEMMA VerdictGiven ==
  ASSUME Types, InboxRight, NEW c \in Client, accept_recv(c)
  PROVE  \E n, m \in 1 .. asked :
           /\ Handled(n)
           /\ receipts' = receipts \cup {Verdict(m, n, used[n])}
<1> DEFINE n   == Head(inbox[c]).n
           msg == Head(inbox[c]).msg
           m   == session[c]
           g   == [from |-> "client", n |-> m]
           reader == responderAuthenticate(New(Config(Session(m), NONE, NONE)), msg, g)
<1>1. inbox[c] \in Seq(Sent) /\ inbox[c] # <<>> /\ session[c] # 0
  BY DEF accept_recv, Types
<1>2. 1 \in DOMAIN inbox[c] /\ Head(inbox[c]) = inbox[c][1]
  BY <1>1
<1>3. Handled(n) /\ msg = GcksMsg(n, used[n])
  BY <1>2 DEF InboxRight
<1>4. n \in 1 .. asked /\ m \in 1 .. asked
  BY <1>1, <1>3, BoundAssumption DEF Handled, Types
<1>5. PICK mikey \in setMikeyOffer(reader, msg) :
        receipts' = receipts \cup {[asked |-> m, n |-> n,
                                    ok |-> reader.state = "AUTHENTICATED", tgk |-> getTgk(mikey)]}
  BY DEF accept_recv
<1>6. /\ (reader.state = "AUTHENTICATED") = (msg.psk = Session(m))
      /\ getTgk(mikey) = IF msg.psk = Session(m) THEN msg.tgk ELSE g
  BY <1>5, MessageRead
<1>7. msg.psk = SessionKey(n, used[n]) /\ msg.tgk = [from |-> "gcks", n |-> n]
  BY <1>3 DEF GcksMsg
<1>8. (SessionKey(n, used[n]) = Session(m)) <=> (n = m /\ used[n].kdc = used[n].gcks)
  <2>1. Session(n) = Session(m) <=> n = m
    BY DEF Session
  <2>2. [from |-> "gcks_in", n |-> n] # Session(m)
    BY DEF Session
  <2> HIDE DEF n, m
  <2> QED
    BY <2>1, <2>2 DEF SessionKey
<1> DEFINE ok == n = m /\ used[n].kdc = used[n].gcks
<1> HIDE DEF n, msg, m, g, reader
<1>9. (reader.state = "AUTHENTICATED") = ok
  BY <1>6, <1>7, <1>8
<1>10. getTgk(mikey) = IF ok THEN [from |-> "gcks", n |-> n] ELSE g
  BY <1>6, <1>7, <1>8
<1>11. Verdict(m, n, used[n])
         = [asked |-> m, n |-> n, ok |-> ok,
            tgk |-> IF ok THEN [from |-> "gcks", n |-> n] ELSE g]
  BY DEF Verdict, g
<1>12. receipts' = receipts \cup {Verdict(m, n, used[n])}
  <2> HIDE DEF ok
  <2> QED
    BY <1>5, <1>9, <1>10, <1>11
<1> QED
  BY <1>3, <1>4, <1>12

--------------------------------------------------------------------------
\* What was used for a request is not touched again once gcks2 has read its
\* message, which it does once.
LEMMA UsedStays ==
  ASSUME Types, BacklogRight, [Next]_vars, NEW n \in 1 .. asked
  PROVE  /\ n \in 1 .. asked'
         /\ used'[n] = used[n] \/ (process_mikey_message /\ n = backlog[1].n /\ used[n].gcks = 0)
<1>1. CASE used' = used /\ asked' = asked
  BY <1>1
<1>2. ASSUME NEW c \in Client, process_tgs_req(c)
      PROVE  n \in 1 .. asked' /\ used'[n] = used[n]
  BY <1>2, RequestMade
<1>3. CASE process_mikey_message
  <2>1. PICK k \in 1 .. asked :
          /\ k = backlog[1].n /\ Forwarded(k) /\ asked' = asked
          /\ used' = [used EXCEPT ![k] = [kdc |-> used[k].kdc, gcks |-> gcks_key]]
    BY <1>3, KdcMessageRead
  <2>2. CASE n = k
    BY <1>3, <2>1, <2>2 DEF Forwarded
  <2>3. CASE n # k
    BY <2>1, <2>3
  <2> QED
    BY <2>2, <2>3
<1> QED
  BY <1>1, <1>2, <1>3, UsedChanges

LEMMA HandledStays ==
  ASSUME Types, BacklogRight, [Next]_vars, NEW n, Handled(n)
  PROVE  n \in 1 .. asked' /\ used'[n] = used[n] /\ used'[n].gcks # 0
BY UsedStays DEF Handled

LEMMA TypesStep ==
  ASSUME Types, KdcWorks, BacklogRight, GcksWorks, [Next]_vars
  PROVE  Types'
<1>1. kvno' \in 1 .. MaxKvno /\ keytab' \in 0 .. MaxKvno /\ gcks_key' \in 0 .. MaxKvno
  BY ServiceKeyChanges
<1>2. asked' \in 0 .. MaxReq /\ used' \in Seq(Use) /\ Len(used') = asked' /\ asked' >= asked
  <2>1. CASE used' = used /\ asked' = asked
    BY <2>1, BoundAssumption DEF Types, Use
  <2>2. ASSUME NEW c \in Client, process_tgs_req(c)
        PROVE  asked' \in 0 .. MaxReq /\ used' \in Seq(Use) /\ Len(used') = asked' /\ asked' >= asked
    BY <2>2, RequestMade, BoundAssumption
  <2>3. CASE process_mikey_message
    <3>1. PICK n \in 1 .. asked :
            /\ asked' = asked /\ gcks_key \in 1 .. MaxKvno
            /\ used' = [used EXCEPT ![n] = [kdc |-> used[n].kdc, gcks |-> gcks_key]]
      BY <2>3, KdcMessageRead
    <3>2. used \in Seq(Use) /\ Len(used) = asked /\ asked \in 0 .. MaxReq
      BY DEF Types, Use
    <3>3. used[n] \in Use
      BY <3>2
    <3> DEFINE u == [kdc |-> used[n].kdc, gcks |-> gcks_key]
    <3>4. u \in Use
      BY <3>1, <3>3, BoundAssumption DEF Use
    <3> HIDE DEF u
    <3>5. used' \in Seq(Use) /\ Len(used') = asked
      BY <3>1, <3>2, <3>4 DEF u
    <3> QED
      BY <3>1, <3>2, <3>5, BoundAssumption
  <2> QED
    BY <2>1, <2>2, <2>3, UsedChanges
<1>3. session' \in [Client -> 0 .. asked']
  <2>1. asked \in Nat /\ asked' \in Nat /\ session \in [Client -> 0 .. asked]
    BY <1>2, BoundAssumption DEF Types
  <2>2. session \in [Client -> 0 .. asked']
    BY <1>2, <2>1
  <2>3. ASSUME NEW c \in Client, process_tgs_req(c) PROVE session' \in [Client -> 0 .. asked']
    BY <2>1, <2>2, <2>3 DEF process_tgs_req
  <2>4. ASSUME NEW c \in Client, session' = [session EXCEPT ![c] = 0]
        PROVE  session' \in [Client -> 0 .. asked']
    BY <2>1, <2>2, <2>4
  <2> QED
    BY <2>2, <2>3, <2>4, SessionChanges
<1>4. backlog' \in Seq(Sent)
  <2>1. backlog \in Seq(Sent)
    BY DEF Types
  <2>2. CASE do_gcks_req
    <3>1. PICK e \in Sent : backlog' = Append(backlog, e)
      BY <2>2, KdcMessageSent
    <3> QED
      BY <2>1, <3>1
  <2>3. CASE process_mikey_message
    <3>1. backlog # <<>> /\ backlog' = Tail(backlog)
      BY <2>3 DEF process_mikey_message
    <3> QED
      BY <2>1, <3>1
  <2>4. <<>> \in Seq(Sent)
    OBVIOUS
  <2>5. CASE backlog' = backlog \/ backlog' = <<>>
    BY <2>1, <2>4, <2>5
  <2> QED
    BY <2>2, <2>3, <2>5, BacklogChanges
<1>5. inbox' \in [Client -> Seq(Sent)]
  <2>1. inbox \in [Client -> Seq(Sent)]
    BY DEF Types
  <2>2. CASE send_mikey_message
    <3>1. PICK e \in Sent, c \in Client : inbox' = [inbox EXCEPT ![c] = Append(inbox[c], e)]
      BY <2>2, GcksMessageSent
    <3>2. Append(inbox[c], e) \in Seq(Sent)
      BY <2>1
    <3> QED
      BY <2>1, <3>1, <3>2
  <2>3. ASSUME NEW c \in Client, inbox' = [inbox EXCEPT ![c] = <<>>]
        PROVE  inbox' \in [Client -> Seq(Sent)]
    <3>1. <<>> \in Seq(Sent)
      OBVIOUS
    <3> QED
      BY <2>1, <2>3, <3>1
  <2> QED
    BY <2>1, <2>2, <2>3, InboxChanges
<1> QED
  BY <1>1, <1>2, <1>3, <1>4, <1>5 DEF Types, Use

LEMMA KdcStep ==
  ASSUME Types, KdcWorks, BacklogRight, [Next]_vars
  PROVE  KdcWorks'
<1> DEFINE Goal == kdc' # NONE =>
             /\ asked' \in 1 .. asked' /\ used'[asked'].gcks = 0
             /\ \E c \in Client : kdc' = Config(Service(used'[asked'].kdc), NONE, c)
<1> SUFFICES Goal
  BY DEF KdcWorks, Forwarded
<1>1. ASSUME NEW c \in Client, process_tgs_req(c) PROVE Goal
  <2>1. /\ used'[asked'] = [kdc |-> kvno, gcks |-> 0] /\ asked' \in 1 .. MaxReq
        /\ kdc' = Config(Service(kvno), NONE, c)
    BY <1>1, RequestMade
  <2>2. used'[asked'].kdc = kvno /\ used'[asked'].gcks = 0 /\ asked' \in 1 .. asked'
    BY <2>1, BoundAssumption
  <2> QED
    BY <2>1, <2>2
<1>2. ASSUME kdc # NONE, asked' = asked, used'[asked] = used[asked], kdc' = kdc PROVE Goal
  BY <1>2 DEF KdcWorks, Forwarded
<1>3. ASSUME kdc # NONE PROVE asked \in 1 .. asked
  BY <1>3 DEF KdcWorks, Forwarded
<1>4. CASE used' = used /\ asked' = asked /\ kdc' = kdc
  <2>1. kdc = NONE => Goal
    BY <1>4
  <2> HIDE DEF Goal
  <2> QED
    BY <1>2, <1>4, <2>1
<1>5. CASE process_mikey_message /\ kdc # NONE
  <2>1. /\ backlog[1].n # asked /\ asked' = asked /\ kdc' = kdc
    BY <1>5, KdcMessageRead DEF BacklogRight
  <2>2. used'[asked] = used[asked]
    BY <1>3, <1>5, <2>1, UsedStays
  <2> HIDE DEF Goal
  <2> QED
    BY <1>2, <1>5, <2>1, <2>2
<1>6. process_mikey_message => kdc' = kdc
  BY DEF process_mikey_message
<1>7. kdc' = NONE => Goal
  OBVIOUS
<1> HIDE DEF Goal
<1>8. CASE process_mikey_message
  BY <1>5, <1>6, <1>7, <1>8
<1>9. CASE used' = used /\ asked' = asked
  BY <1>1, <1>4, <1>7, <1>9, KdcChanges
<1> QED
  BY <1>1, <1>8, <1>9, UsedChanges

LEMMA BacklogStep ==
  ASSUME Types, KdcWorks, BacklogRight, [Next]_vars
  PROVE  BacklogRight'
<1> DEFINE Good(e) == /\ e.n \in 1 .. asked' /\ used'[e.n].gcks = 0
                      /\ kdc' # NONE => e.n # asked'
                      /\ \E c \in Client : e.msg = KdcMsg(e.n, used'[e.n], c)
           Goal == /\ \A i \in DOMAIN backlog' : Good(backlog'[i])
                   /\ \A i, j \in DOMAIN backlog' : backlog'[i].n = backlog'[j].n => i = j
<1> SUFFICES Goal
  BY DEF BacklogRight, Forwarded
<1>a. backlog \in Seq(Sent)
  BY DEF Types
<1>1. ASSUME NEW i \in DOMAIN backlog, ~process_mikey_message \/ backlog[i].n # backlog[1].n,
             kdc' # NONE => backlog[i].n # asked'
      PROVE  Good(backlog[i])
  <2> DEFINE e == backlog[i]
  <2>1. e.n \in 1 .. asked /\ used[e.n].gcks = 0 /\ \E c \in Client : e.msg = KdcMsg(e.n, used[e.n], c)
    BY DEF BacklogRight, Forwarded
  <2>2. e.n \in 1 .. asked' /\ used'[e.n] = used[e.n]
    BY <1>1, <2>1, UsedStays
  <2> QED
    BY <1>1, <2>1, <2>2
<1>2. ASSUME backlog' = backlog, ~process_mikey_message,
             \A i \in DOMAIN backlog : kdc' # NONE => backlog[i].n # asked'
      PROVE  Goal
  <2> HIDE DEF Good
  <2> QED
    BY <1>1, <1>2 DEF BacklogRight
<1>3. ASSUME NEW c \in Client, process_tgs_req(c), ~process_mikey_message PROVE Goal
  <2>1. backlog' = backlog /\ asked' = asked + 1 /\ asked \in Nat
    BY <1>3, RequestMade
  <2>2. \A i \in DOMAIN backlog : backlog[i].n # asked'
    BY <2>1 DEF BacklogRight, Forwarded
  <2> HIDE DEF Goal
  <2> QED
    BY <1>2, <1>3, <2>1, <2>2
<1>4. CASE backlog' = backlog /\ kdc' = kdc /\ used' = used /\ asked' = asked /\ ~process_mikey_message
  <2>1. \A i \in DOMAIN backlog : kdc' # NONE => backlog[i].n # asked'
    BY <1>4 DEF BacklogRight
  <2> HIDE DEF Goal
  <2> QED
    BY <1>2, <1>4, <2>1
<1>5. CASE process_mikey_message
  <2>1. /\ backlog # <<>> /\ backlog' = Tail(backlog) /\ 1 \in DOMAIN backlog
        /\ asked' = asked /\ kdc' = kdc
    BY <1>5, KdcMessageRead
  <2>2. \A i \in DOMAIN backlog' : /\ i + 1 \in DOMAIN backlog /\ i + 1 # 1 /\ i \in Nat
                                   /\ backlog'[i] = backlog[i + 1]
    BY <1>a, <2>1
  <2>3. ASSUME NEW i \in DOMAIN backlog' PROVE Good(backlog'[i])
    <3>1. backlog[i + 1].n # backlog[1].n
      BY <2>1, <2>2 DEF BacklogRight
    <3>2. kdc' # NONE => backlog[i + 1].n # asked'
      BY <2>1, <2>2 DEF BacklogRight
    <3>3. Good(backlog[i + 1])
      BY <1>1, <2>2, <3>1, <3>2
    <3> QED
      BY <2>2, <3>3
  <2>4. ASSUME NEW i \in DOMAIN backlog', NEW j \in DOMAIN backlog', backlog'[i].n = backlog'[j].n
        PROVE  i = j
    <3>1. i + 1 = j + 1
      BY <2>2, <2>4 DEF BacklogRight
    <3> QED
      BY <2>2, <3>1
  <2> HIDE DEF Good
  <2> QED
    BY <2>3, <2>4
<1>6. CASE do_gcks_req /\ ~process_mikey_message
  <2>1. PICK c \in Client, e \in Sent :
          /\ Forwarded(asked) /\ kdc # NONE /\ kdc' = NONE /\ used' = used /\ asked' = asked
          /\ backlog' = Append(backlog, e) /\ e.n = asked /\ e.msg = KdcMsg(asked, used[asked], c)
    BY <1>6, KdcMessageSent
  <2>2. \A i \in DOMAIN backlog' : \/ i \in DOMAIN backlog /\ backlog'[i] = backlog[i]
                                   \/ i = Len(backlog) + 1 /\ backlog'[i] = e
    BY <1>a, <2>1
  <2>3. Good(e)
    BY <2>1 DEF Forwarded
  <2>4. \A i \in DOMAIN backlog : Good(backlog[i]) /\ backlog[i].n # e.n
    <3> HIDE DEF Good
    <3> QED
      BY <1>1, <1>6, <2>1 DEF BacklogRight
  <2>5. \A i, j \in DOMAIN backlog : backlog[i].n = backlog[j].n => i = j
    BY DEF BacklogRight
  <2> HIDE DEF Good
  <2>6. \A i \in DOMAIN backlog' : Good(backlog'[i])
    BY <2>2, <2>3, <2>4
  <2>7. \A i, j \in DOMAIN backlog' : backlog'[i].n = backlog'[j].n => i = j
    BY <2>2, <2>4, <2>5
  <2> QED
    BY <2>6, <2>7
<1>7. CASE backlog' = <<>>
  <2>1. DOMAIN backlog' = {}
    BY <1>7
  <2> HIDE DEF Good
  <2> QED
    BY <2>1
<1> HIDE DEF Goal
<1> QED
  BY <1>3, <1>4, <1>5, <1>6, <1>7, UsedChanges, BacklogChanges

LEMMA GcksStep ==
  ASSUME Types, BacklogRight, GcksWorks, [Next]_vars
  PROVE  GcksWorks'
<1> DEFINE Goal == gcks' # NONE =>
             /\ gcks'.n \in 1 .. asked' /\ used'[gcks'.n].gcks # 0
             /\ gcks'.session_key = SessionKey(gcks'.n, used'[gcks'.n])
             /\ gcks'.client \in Client
<1> SUFFICES Goal
  BY DEF GcksWorks, Handled
<1>1. CASE gcks' = gcks
  <2> SUFFICES ASSUME gcks # NONE
               PROVE  /\ gcks.n \in 1 .. asked' /\ used'[gcks.n].gcks # 0
                      /\ gcks.session_key = SessionKey(gcks.n, used'[gcks.n])
                      /\ gcks.client \in Client
    BY <1>1
  <2>1. /\ Handled(gcks.n) /\ gcks.client \in Client
        /\ gcks.session_key = SessionKey(gcks.n, used[gcks.n])
    BY DEF GcksWorks
  <2>2. gcks.n \in 1 .. asked' /\ used'[gcks.n] = used[gcks.n] /\ used'[gcks.n].gcks # 0
    BY <2>1, HandledStays
  <2> QED
    BY <2>1, <2>2
<1>2. CASE process_mikey_message
  <2>1. PICK n \in 1 .. asked :
          /\ asked' = asked /\ gcks_key \in 1 .. MaxKvno
          /\ used' = [used EXCEPT ![n] = [kdc |-> used[n].kdc, gcks |-> gcks_key]]
          /\ gcks'.n = n /\ gcks'.client \in Client
          /\ gcks'.session_key = SessionKey(n, used'[n])
    BY <1>2, KdcMessageRead
  <2>2. n \in DOMAIN used /\ gcks_key # 0
    BY <2>1, BoundAssumption DEF Types
  <2>3. used'[n] = [kdc |-> used[n].kdc, gcks |-> gcks_key]
    BY <2>1, <2>2
  <2>4. used'[n].gcks # 0
    BY <2>2, <2>3
  <2> QED
    BY <2>1, <2>4
<1>3. CASE gcks' = NONE
  BY <1>3
<1> HIDE DEF Goal
<1> QED
  BY <1>1, <1>2, <1>3, GcksChanges

LEMMA InboxStep ==
  ASSUME Types, BacklogRight, GcksWorks, InboxRight, [Next]_vars
  PROVE  InboxRight'
<1> DEFINE Good(e) == /\ e.n \in 1 .. asked' /\ used'[e.n].gcks # 0
                      /\ e.msg = GcksMsg(e.n, used'[e.n])
<1>1. \A e : Handled(e.n) /\ e.msg = GcksMsg(e.n, used[e.n]) => Good(e)
  BY HandledStays
<1>2. \A c \in Client : \A i \in DOMAIN inbox[c] : Good(inbox[c][i])
  BY <1>1 DEF InboxRight
<1> SUFFICES ASSUME NEW c \in Client, NEW i \in DOMAIN inbox'[c] PROVE Good(inbox'[c][i])
  BY DEF InboxRight, Handled
<1> HIDE DEF Good
<1>3. CASE inbox' = inbox
  BY <1>2, <1>3
<1>4. CASE send_mikey_message
  <2>1. PICK e \in Sent, d \in Client :
          /\ Handled(e.n) /\ e.msg = GcksMsg(e.n, used[e.n])
          /\ inbox' = [inbox EXCEPT ![d] = Append(inbox[d], e)]
    BY <1>4, GcksMessageSent
  <2>2. Good(e) /\ inbox[c] \in Seq(Sent)
    BY <1>1, <2>1 DEF Types
  <2>3. inbox'[c] = inbox[c] \/ inbox'[c] = Append(inbox[c], e)
    BY <2>1 DEF Types
  <2>4. (i \in DOMAIN inbox[c] /\ inbox'[c][i] = inbox[c][i]) \/ inbox'[c][i] = e
    BY <2>2, <2>3
  <2> QED
    BY <1>2, <2>2, <2>4
<1>5. ASSUME NEW d \in Client, inbox' = [inbox EXCEPT ![d] = <<>>] PROVE Good(inbox'[c][i])
  <2>1. inbox'[c] = inbox[c] \/ inbox'[c] = <<>>
    BY <1>5 DEF Types
  <2> QED
    BY <1>2, <2>1
<1> QED
  BY <1>3, <1>4, <1>5, InboxChanges

LEMMA VerdictsStep ==
  ASSUME Types, BacklogRight, InboxRight, VerdictsRight, [Next]_vars
  PROVE  VerdictsRight'
<1> DEFINE Good(r) == /\ r.n \in 1 .. asked' /\ used'[r.n].gcks # 0 /\ r.asked \in 1 .. asked'
                      /\ r = Verdict(r.asked, r.n, used'[r.n])
<1>1. \A r : Handled(r.n) /\ r.asked \in 1 .. asked /\ r = Verdict(r.asked, r.n, used[r.n]) => Good(r)
  BY HandledStays, UsedStays
<1> SUFFICES ASSUME NEW r \in receipts' PROVE Good(r)
  BY DEF VerdictsRight, Handled
<1> HIDE DEF Good
<1>2. CASE r \in receipts
  BY <1>1, <1>2 DEF VerdictsRight
<1>3. ASSUME NEW c \in Client, accept_recv(c), r \notin receipts PROVE Good(r)
  <2>1. PICK n, m \in 1 .. asked :
          Handled(n) /\ receipts' = receipts \cup {Verdict(m, n, used[n])}
    BY <1>3, VerdictGiven
  <2>2. r = Verdict(m, n, used[n])
    BY <1>3, <2>1
  <2>3. r.n = n /\ r.asked = m
    BY <2>2 DEF Verdict
  <2> QED
    BY <1>1, <2>1, <2>2, <2>3
<1> QED
  BY <1>2, <1>3, ReceiptsChange

--------------------------------------------------------------------------
\* The inductive invariant holds in every state.
THEOREM InductiveInvariant == Spec => []IInv
<1>1. Init => IInv
  <2> SUFFICES ASSUME Init PROVE IInv
    OBVIOUS
  <2>1. Types
    BY BoundAssumption DEF Init, Types
  <2> QED
    BY <2>1 DEF Init, IInv, KdcWorks, BacklogRight, GcksWorks, InboxRight, VerdictsRight
<1>2. IInv /\ [Next]_vars => IInv'
  BY TypesStep, KdcStep, BacklogStep, GcksStep, InboxStep, VerdictsStep DEF IInv
<1> QED
  BY <1>1, <1>2, PTL DEF Spec

\* The verdict on a message, and the key the client is left with.
LEMMA VerdictOf ==
  ASSUME IInv, NEW r \in receipts
  PROVE  /\ r.ok <=> (r.n = r.asked /\ used[r.n].kdc = used[r.n].gcks)
         /\ r.ok \in BOOLEAN
         /\ r.tgk = IF r.ok THEN [from |-> "gcks", n |-> r.n]
                    ELSE [from |-> "client", n |-> r.asked]
<1>1. r = Verdict(r.asked, r.n, used[r.n])
  BY DEF IInv, VerdictsRight
<1> DEFINE ok == r.n = r.asked /\ used[r.n].kdc = used[r.n].gcks
<1>2. ok \in BOOLEAN
  OBVIOUS
<1>3. r.ok = ok
  <2>1. Verdict(r.asked, r.n, used[r.n]).ok = ok
    BY DEF Verdict
  <2> HIDE DEF ok
  <2> QED
    BY <1>1, <2>1
<1>4. r.tgk = IF ok THEN [from |-> "gcks", n |-> r.n] ELSE [from |-> "client", n |-> r.asked]
  <2>1. Verdict(r.asked, r.n, used[r.n]).tgk
          = IF ok THEN [from |-> "gcks", n |-> r.n] ELSE [from |-> "client", n |-> r.asked]
    BY DEF Verdict
  <2> HIDE DEF ok
  <2> QED
    BY <1>1, <2>1
<1> QED
  BY <1>2, <1>3, <1>4

\* A client rejects only another request's message or one that gcks2 could not
\* read the KDC's message for.
THEOREM RejectionHasACause == Spec => []RejectionExplained
<1>1. IInv => RejectionExplained
  BY VerdictOf DEF RejectionExplained
<1> QED
  BY <1>1, InductiveInvariant, PTL

\* A message that authenticates is for the client's own request, made by a GCKS
\* that read the KDC's message, and gives the client the GCKS's TGK.
THEOREM AcceptedEndToEnd == Spec => []AuthenticEndToEnd
<1>1. IInv => AuthenticEndToEnd
  BY VerdictOf DEF AuthenticEndToEnd
<1> QED
  BY <1>1, InductiveInvariant, PTL

\* A client never takes for the group key one it could not authenticate.
THEOREM RejectedIsNotTaken == Spec => []RejectedKeyIsPrivate
<1>1. IInv => RejectedKeyIsPrivate
  BY VerdictOf DEF RejectedKeyIsPrivate
<1> QED
  BY <1>1, InductiveInvariant, PTL

\* Every message, the KDC's included, offers its maker's streams.
THEOREM StreamsOffered == Spec => []EveryOfferHasStreams
<1>1. IInv => EveryOfferHasStreams
  <2> SUFFICES ASSUME IInv PROVE EveryOfferHasStreams
    OBVIOUS
  <2>1. ASSUME NEW i \in DOMAIN backlog PROVE backlog[i].msg.streams
    <3>1. PICK c \in Client : backlog[i].msg = KdcMsg(backlog[i].n, used[backlog[i].n], c)
      BY DEF IInv, BacklogRight
    <3>2. KdcMsg(backlog[i].n, used[backlog[i].n], c).streams
      BY DEF KdcMsg
    <3> QED
      BY <3>1, <3>2
  <2>2. ASSUME NEW c \in Client, NEW i \in DOMAIN inbox[c] PROVE inbox[c][i].msg.streams
    <3>1. inbox[c][i].msg = GcksMsg(inbox[c][i].n, used[inbox[c][i].n])
      BY DEF IInv, InboxRight
    <3>2. GcksMsg(inbox[c][i].n, used[inbox[c][i].n]).streams
      BY DEF GcksMsg
    <3> QED
      BY <3>1, <3>2
  <2> QED
    BY <2>1, <2>2 DEF EveryOfferHasStreams, Messages
<1> QED
  BY <1>1, InductiveInvariant, PTL

\* The variables keep their types.
THEOREM TypeCorrect == Spec => []TypeOK
<1>1. IInv => TypeOK
  <2> SUFFICES ASSUME IInv PROVE TypeOK
    OBVIOUS
  <2>1. /\ {kvno, keytab, gcks_key} \subseteq 0 .. MaxKvno
        /\ asked \in 0 .. MaxReq /\ session \in [Client -> 0 .. asked] /\ Len(used) = asked
    BY BoundAssumption DEF IInv, Types
  <2>2. \A n \in 1 .. asked : n \in 1 .. MaxReq /\ used[n] \in Use
    <3>1. used \in Seq(Use) /\ Len(used) = asked /\ asked \in 0 .. MaxReq
      BY DEF IInv, Types, Use
    <3> QED
      BY <3>1, BoundAssumption
  <2>3. kdc # NONE => kdc.psk \in Key /\ kdc.connInfo \in Client
    <3> SUFFICES ASSUME kdc # NONE PROVE kdc.psk \in Key /\ kdc.connInfo \in Client
      OBVIOUS
    <3>1. asked \in 1 .. asked /\ \E c \in Client : kdc = Config(Service(used[asked].kdc), NONE, c)
      BY DEF IInv, KdcWorks, Forwarded
    <3>2. Service(used[asked].kdc) \in Key
      BY <2>2, <3>1, Keys DEF Use
    <3> QED
      BY <3>1, <3>2 DEF Config
  <2>4. gcks # NONE => gcks.session_key \in Key /\ gcks.client \in Client
    BY <2>2, Keys DEF IInv, GcksWorks, Handled, SessionKey
  <2>5. Messages \subseteq Sent
    <3>1. \A i \in DOMAIN backlog : backlog[i] \in Sent
      BY DEF IInv, Types
    <3>2. \A c \in Client : \A i \in DOMAIN inbox[c] : inbox[c][i] \in Sent
      BY DEF IInv, Types
    <3> QED
      BY <3>1, <3>2 DEF Messages
  <2>6. receipts \subseteq Receipt
    <3> SUFFICES ASSUME NEW r \in receipts PROVE r \in Receipt
      OBVIOUS
    <3>1. /\ r.n \in 1 .. MaxReq /\ r.asked \in 1 .. MaxReq
          /\ r = Verdict(r.asked, r.n, used[r.n])
      BY <2>2 DEF IInv, VerdictsRight, Handled
    <3> DEFINE n == r.n
               m == r.asked
               ok == n = m /\ used[n].kdc = used[n].gcks
    <3>2. r = [asked |-> m, n |-> n, ok |-> ok,
               tgk |-> IF ok THEN [from |-> "gcks", n |-> n] ELSE [from |-> "client", n |-> m]]
      BY <3>1 DEF Verdict
    <3>3. ok \in BOOLEAN
      OBVIOUS
    <3>4. [from |-> "gcks", n |-> n] \in Key /\ [from |-> "client", n |-> m] \in Key
      BY <3>1, Keys
    <3> HIDE DEF n, m, ok
    <3> QED
      BY <3>1, <3>2, <3>3, <3>4 DEF Receipt, n, m
  <2> QED
    BY <2>1, <2>3, <2>4, <2>5, <2>6 DEF TypeOK
<1> QED
  BY <1>1, InductiveInvariant, PTL
=============================================================================
