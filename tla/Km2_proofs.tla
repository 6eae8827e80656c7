---------------------------- MODULE Km2_proofs ----------------------------
(***************************************************************************)
(* Proofs about KM2 for every set of clients and hosts, every bound and    *)
(* every set of failures; at the end, about KM2 as the test programs drive *)
(* it, when nothing fails.                                                 *)
(***************************************************************************)
EXTENDS Km2Harness, TLAPS

USE DEF NoKey

--------------------------------------------------------------------------
(***************************************************************************)
(* The inductive invariant: who owns the keys, and that a message is in    *)
(* one place only.                                                         *)
(***************************************************************************)
IsIssued(c, k) == k \in Keys /\ owner[k] = c
IsMade(m)      == m.tgk \in DOMAIN made /\ m = made[m.tgk]
IsReal(m)      == m.key # NoKey

\* A client's tickets are its own.
TicketsOwned ==
  \A c \in Client : /\ ticket[c] # NoKey => IsIssued(c, ticket[c])
                    /\ creds[c] # NoKey => IsIssued(c, creds[c])

\* A job names the client its session key was generated for.
JobsOwned ==
  /\ kdc # NONE => IsIssued(kdc.client, kdc.key)
  /\ \A i \in DOMAIN backlog : IsIssued(backlog[i].client, backlog[i].key)

\* So does a message, and it carries the group key it was made with.
MadeOwned ==
  \A n \in DOMAIN made : made[n].tgk = n /\ IsIssued(made[n].client, made[n].key)

\* A message on its way is one the GCKS made, or empty.
MessagesMade ==
  /\ gmsg # NONE => IsMade(gmsg) /\ IsReal(gmsg)
  /\ \A c \in Client : \A i \in DOMAIN inbox[c] :
       IsReal(inbox[c][i]) => IsMade(inbox[c][i])

\* So is a message that was read; one that authenticated was the reader's.
VerdictsRight ==
  \A r \in receipts : /\ IsReal(r.msg) => IsMade(r.msg)
                      /\ r.ok => IsIssued(r.client, r.msg.key)

Ownership ==
  /\ TicketsOwned
  /\ JobsOwned
  /\ MadeOwned
  /\ MessagesMade
  /\ VerdictsRight

\* A session key occurs once in the place it is in: in one job, in one message
\* of one socket, in one receipt.
OnceInPlace ==
  /\ \A i, j \in DOMAIN backlog : backlog[i].key = backlog[j].key => i = j
  /\ \A c, d \in Client : \A i \in DOMAIN inbox[c], j \in DOMAIN inbox[d] :
       IsReal(inbox[c][i]) /\ inbox[c][i].key = inbox[d][j].key => c = d /\ i = j
  /\ \A r, s \in receipts : IsReal(r.msg) /\ r.msg.key = s.msg.key => r = s

\* A session key under which a group key was made has left the GCKS's queue.
MadeHasLeft ==
  \A n \in DOMAIN made : made[n].key \in InDelivery \cup Arrived \cup Read \cup lost

\* The inductive invariant.
IInv ==
  /\ TypeOK
  /\ Ownership
  /\ EveryKeyAccountedFor
  /\ OnceInPlace
  /\ MadeHasLeft

--------------------------------------------------------------------------
(* Keys in queues. *)

\* The keys in a queue of messages are numbers.
LEMMA MsgKeys == ASSUME NEW s \in Seq(Msg) PROVE KeysIn(s) \subseteq Nat
<1>1. \A i \in DOMAIN s : s[i] \in Msg
  OBVIOUS
<1>2. \A m \in Msg : m.key \in Nat
  BY DEF Msg
<1> QED
  BY <1>1, <1>2 DEF KeysIn

\* The keys in a queue of jobs are numbers.
LEMMA JobKeys == ASSUME NEW s \in Seq(Job) PROVE KeysIn(s) \subseteq Nat
<1>1. \A i \in DOMAIN s : s[i] \in Job
  OBVIOUS
<1>2. \A j \in Job : j.key \in Nat
  BY DEF Job
<1> QED
  BY <1>1, <1>2 DEF KeysIn

\* The variables keep their types.
THEOREM TypeCorrect == Spec => []TypeOK
<1>1. Init => TypeOK
  BY DEF Init, TypeOK
<1>2. TypeOK /\ [Next]_vars => TypeOK'
  <2> SUFFICES ASSUME TypeOK, [Next]_vars PROVE TypeOK'
    OBVIOUS
  <2>1. ASSUME NEW c \in Client, client_exec(c) PROVE TypeOK'
    <3>1. /\ pc' = [pc EXCEPT ![c] = "creds"]
          /\ run' = [run EXCEPT ![c] = @ + 1]
          /\ UNCHANGED <<ticket, creds, inbox, kdcVars, gcksVars, histVars>>
      BY <2>1 DEF client_exec
    <3>2. pc' \in [Client -> {"off", "creds", "tgs", "bind", "accept"}] /\ run' \in [Client -> Nat]
      BY <3>1 DEF TypeOK
    <3> QED
      BY <3>1, <3>2 DEF TypeOK, kdcVars, gcksVars, histVars
  <2>2. ASSUME NEW c \in Client, recreate_client_cache(c) PROVE TypeOK'
    BY <2>2 DEF recreate_client_cache, TypeOK, kdcVars, gcksVars, histVars
  <2>3. ASSUME NEW c \in Client, obtain_credentials_cached(c) PROVE TypeOK'
    BY <2>3 DEF obtain_credentials_cached, TypeOK, kdcVars, gcksVars, histVars
  <2>4. ASSUME NEW c \in Client, obtain_credentials_tgs(c) PROVE TypeOK'
    BY <2>4 DEF obtain_credentials_tgs, TypeOK, Request, gcksVars, histVars
  <2>5. ASSUME NEW c \in Client, obtain_credentials_timeout(c) PROVE TypeOK'
    BY <2>5 DEF obtain_credentials_timeout, TypeOK, kdcVars, gcksVars, histVars
  <2>6. ASSUME NEW c \in Client, bind_listen(c) PROVE TypeOK'
    BY <2>6 DEF bind_listen, TypeOK, kdcVars, gcksVars, histVars
  <2>7. ASSUME NEW c \in Client, bind_fails(c) PROVE TypeOK'
    BY <2>7 DEF bind_fails, Ends, TypeOK, kdcVars, gcksVars, histVars
  <2>8. ASSUME NEW c \in Client, accept_recv(c) PROVE TypeOK'
    <3>1. Head(inbox[c]) \in Msg /\ Tail(inbox[c]) \in Seq(Msg)
      BY <2>8 DEF accept_recv, TypeOK
    <3>2. KeysIn(Tail(inbox[c])) \subseteq Nat
      BY <3>1, MsgKeys
    <3>3. receipts' \subseteq Receipt
      <4> DEFINE m == Head(inbox[c])
                 ok == Authenticates(m, creds[c])
      <4>1. ok \in BOOLEAN
        BY DEF Authenticates
      <4>2. run[c] \in Nat
        BY DEF TypeOK
      <4>3. receipts' = receipts \cup {[client |-> c, run |-> run[c], msg |-> m, ok |-> ok]}
        BY <2>8 DEF accept_recv
      <4>4. m \in Msg
        BY <3>1
      <4> HIDE DEF m, ok
      <4> QED
        BY <4>1, <4>2, <4>3, <4>4 DEF TypeOK, Receipt
    <3>4. lost' \subseteq Nat
      BY <2>8, <3>2 DEF accept_recv, TypeOK
    <3>5. inbox' \in [Client -> Seq(Msg)]
      BY <2>8 DEF accept_recv, TypeOK
    <3> QED
      BY <2>8, <3>3, <3>4, <3>5 DEF accept_recv, Ends, CutOff, TypeOK, kdcVars
  <2>9. ASSUME NEW c \in Client, client_dies(c) PROVE TypeOK'
    <3>1. lost' \subseteq Nat
      BY <2>9, MsgKeys DEF client_dies, TypeOK
    <3>2. inbox' \in [Client -> Seq(Msg)]
      BY <2>9 DEF client_dies, TypeOK
    <3> QED
      BY <2>9, <3>1, <3>2 DEF client_dies, Ends, CutOff, TypeOK, kdcVars
  <2>10. ASSUME NEW r \in requests, process_tgs_req(r) PROVE TypeOK'
    <3>1. r.client \in Client /\ r.run \in Nat
      BY DEF TypeOK, Request
    <3>2. owner' \in Seq(Client) /\ Len(owner') \in Nat
      BY <2>10, <3>1 DEF process_tgs_req, TypeOK
    <3>3. kdc' \in Ticket
      BY <2>10, <3>1, <3>2 DEF process_tgs_req, Ticket
    <3> QED
      BY <2>10, <3>2, <3>3, NoneAssumption
         DEF process_tgs_req, TypeOK, clientVars, gcksVars, histVars
  <2>11. CASE gcks_lookup_fails
    BY <2>11 DEF gcks_lookup_fails, TypeOK, Ticket, clientVars, gcksVars
  <2>12. CASE do_gcks_req
    <3>1. [client |-> kdc.client, key |-> kdc.key] \in Job
      BY <2>12 DEF do_gcks_req, TypeOK, Ticket, Job
    <3>2. backlog' \in Seq(Job)
      BY <2>12, <3>1 DEF do_gcks_req, Enqueue, TypeOK
    <3> QED
      BY <2>12, <3>2 DEF do_gcks_req, TypeOK, clientVars, histVars
  <2>13. CASE do_gcks_req_fails
    BY <2>13 DEF do_gcks_req_fails, TypeOK, Ticket, clientVars, gcksVars
  <2>14. CASE do_gcks_req_exit
    BY <2>14 DEF do_gcks_req_exit, TypeOK, Ticket, clientVars, gcksVars
  <2>15. CASE process_tgs_req_late_error
    BY <2>15 DEF process_tgs_req_late_error, TypeOK, clientVars, gcksVars, histVars
  <2>16. CASE tgs_reply
    BY <2>16 DEF tgs_reply, KdcDone, TypeOK, Ticket, gcksVars, histVars
  <2>17. CASE tgs_error_reply
    BY <2>17 DEF tgs_error_reply, KdcDone, TypeOK, gcksVars, histVars
  <2>18. CASE process_mikey_message
    <3>1. Head(backlog) \in Job /\ backlog' \in Seq(Job)
      BY <2>18 DEF process_mikey_message, AfterAccept, TypeOK
    <3>2. gmsg' \in Msg
      <4>1. gmsg' = [client |-> Head(backlog).client, key |-> Head(backlog).key, tgk |-> NewTgk]
        BY <2>18 DEF process_mikey_message
      <4>2. NewTgk \in Nat
        BY DEF NewTgk, TypeOK
      <4> QED
        BY <3>1, <4>1, <4>2 DEF Job, Msg
    <3>3. made' \in Seq(Msg)
      BY <2>18, <3>2 DEF process_mikey_message, TypeOK
    <3> QED
      BY <2>18, <3>1, <3>2, <3>3, NoneAssumption
         DEF process_mikey_message, TypeOK, clientVars, kdcVars, histVars
  <2>19. ASSUME NEW c \in Client, send_mikey_message_connect(c) PROVE TypeOK'
    BY <2>19 DEF send_mikey_message_connect, TypeOK, clientVars, kdcVars, histVars
  <2>20. CASE send_mikey_message_send
    <3>1. gmsg \in Msg
      BY <2>20 DEF send_mikey_message_send, TypeOK
    <3>2. inbox' \in [Client -> Seq(Msg)]
      <4>1. CASE peer # NONE
        <5>1. peer \in Client /\ inbox[peer] \in Seq(Msg)
          BY <4>1 DEF TypeOK
        <5>2. Append(inbox[peer], gmsg) \in Seq(Msg)
          BY <3>1, <5>1
        <5> QED
          BY <2>20, <4>1, <5>2 DEF send_mikey_message_send, TypeOK
      <4> QED
        BY <2>20, <4>1 DEF send_mikey_message_send, TypeOK
    <3>3. lost' \subseteq Nat
      BY <2>20, <3>1 DEF send_mikey_message_send, TypeOK, Msg
    <3> QED
      BY <2>20, <3>2, <3>3 DEF send_mikey_message_send, TypeOK, kdcVars
  <2>21. CASE gcks_crash
    <3>1. inbox' \in [Client -> Seq(Msg)]
      <4>1. CASE peer # NONE
        <5>1. peer \in Client /\ inbox[peer] \in Seq(Msg)
          BY <4>1 DEF TypeOK
        <5>2. Append(inbox[peer], Empty(peer)) \in Seq(Msg)
          BY <5>1 DEF Empty, Msg
        <5> QED
          BY <2>21, <4>1, <5>2 DEF gcks_crash, TypeOK
      <4> QED
        BY <2>21, <4>1 DEF gcks_crash, TypeOK
    <3>2. lost' \subseteq Nat
      <4>1. KeysIn(backlog) \subseteq Nat
        BY JobKeys DEF TypeOK
      <4>2. gmsg # NONE => gmsg.key \in Nat
        BY DEF TypeOK, Msg
      <4> QED
        BY <2>21, <4>1, <4>2 DEF gcks_crash, TypeOK
    <3>3. backlog' \in Seq(Job)
      BY <2>21 DEF gcks_crash
    <3> QED
      BY <2>21, <3>1, <3>2, <3>3 DEF gcks_crash, TypeOK, kdcVars
  <2>22. CASE gcks_restart
    BY <2>22 DEF gcks_restart, TypeOK, clientVars, kdcVars, histVars
  <2>23. CASE UNCHANGED vars
    BY <2>23 DEF vars, clientVars, kdcVars, gcksVars, histVars, TypeOK
  <2> QED
    BY <2>1, <2>2, <2>3, <2>4, <2>5, <2>6, <2>7, <2>8, <2>9, <2>10, <2>11, <2>12,
       <2>13, <2>14, <2>15, <2>16, <2>17, <2>18, <2>19, <2>20, <2>21, <2>22, <2>23
       DEF Next, UserNext, ClientStep, KdcNext, GcksNext
<1> QED
  BY <1>1, <1>2, PTL DEF Spec

--------------------------------------------------------------------------
(***************************************************************************)
(* Ownership: what the clients, the KDC and the GCKS hold under a key      *)
(* belongs to the client the key was generated for.                        *)
(***************************************************************************)

\* The KDC appends to the session keys' owners, or leaves them alone.
LEMMA OwnerGrows ==
  ASSUME [Next]_vars
  PROVE  owner' = owner \/ \E r \in requests : process_tgs_req(r)
BY DEF Next, UserNext, ClientStep, KdcNext, GcksNext, vars, kdcVars,
       client_exec, recreate_client_cache, obtain_credentials_cached,
       obtain_credentials_tgs, obtain_credentials_timeout, bind_listen,
       bind_fails, accept_recv, client_dies, gcks_lookup_fails, do_gcks_req,
       do_gcks_req_fails, do_gcks_req_exit,
       process_tgs_req_late_error, tgs_reply, tgs_error_reply,
       process_mikey_message, send_mikey_message_connect,
       send_mikey_message_send, gcks_crash, gcks_restart

\* A session key stays its owner's.
LEMMA IssuedStays ==
  ASSUME TypeOK, [Next]_vars, NEW c, NEW k, IsIssued(c, k)
  PROVE  IsIssued(c, k)'
<1>1. CASE owner' = owner
  BY <1>1 DEF IsIssued, Keys
<1>2. CASE \E r \in requests : process_tgs_req(r)
  <2>1. PICK r \in requests : owner' = Append(owner, r.client)
    BY <1>2 DEF process_tgs_req
  <2>2. r.client \in Client /\ owner \in Seq(Client)
    BY DEF TypeOK, Request
  <2>3. k \in 1 .. Len(owner) /\ owner[k] = c
    BY DEF IsIssued, Keys
  <2>4. Len(owner') = Len(owner) + 1 /\ owner'[k] = owner[k] /\ Len(owner) \in Nat
    BY <2>1, <2>2, <2>3
  <2> QED
    BY <2>3, <2>4 DEF IsIssued, Keys
<1> QED
  BY <1>1, <1>2, OwnerGrows

\* The GCKS appends to the messages it made, or leaves them alone.
LEMMA MadeGrows ==
  ASSUME [Next]_vars
  PROVE  made' = made \/ process_mikey_message
BY DEF Next, UserNext, ClientStep, KdcNext, GcksNext, vars, gcksVars,
       client_exec, recreate_client_cache, obtain_credentials_cached,
       obtain_credentials_tgs, obtain_credentials_timeout, bind_listen,
       bind_fails, accept_recv, client_dies, process_tgs_req,
       gcks_lookup_fails, do_gcks_req, do_gcks_req_fails,
       do_gcks_req_exit, process_tgs_req_late_error, tgs_reply,
       tgs_error_reply, send_mikey_message_connect,
       send_mikey_message_send, gcks_crash, gcks_restart

\* What accepting a connection from the KDC does to the GCKS's state.
LEMMA MikeyMessage ==
  ASSUME TypeOK, process_mikey_message
  PROVE  /\ backlog \in Seq(Job) /\ backlog # <<>>
         /\ backlog' = Tail(backlog)
         /\ gmsg' = [client |-> backlog[1].client, key |-> backlog[1].key,
                     tgk |-> Len(made) + 1]
         /\ gmsg' \in Msg
         /\ made \in Seq(Msg) /\ made' = Append(made, gmsg')
         /\ gmsg' # NONE
<1>1. backlog \in Seq(Job) /\ backlog # <<>> /\ made \in Seq(Msg)
  BY DEF process_mikey_message, TypeOK
<1>2. backlog[1] \in Job /\ Head(backlog) = backlog[1]
  BY <1>1
<1>3. gmsg' = [client |-> backlog[1].client, key |-> backlog[1].key,
               tgk |-> Len(made) + 1]
  BY <1>2 DEF process_mikey_message, NewTgk
<1>4. gmsg' \in Msg
  BY <1>1, <1>2, <1>3 DEF Job, Msg
<1> QED
  BY <1>1, <1>3, <1>4, NoneAssumption DEF process_mikey_message, AfterAccept

\* A message the GCKS made stays made.
LEMMA MadeStays ==
  ASSUME TypeOK, [Next]_vars, NEW m, IsMade(m)
  PROVE  IsMade(m)'
<1>1. CASE made' = made
  BY <1>1 DEF IsMade
<1>2. CASE process_mikey_message
  <2>1. made \in Seq(Msg) /\ gmsg' \in Msg /\ made' = Append(made, gmsg')
    BY <1>2, MikeyMessage
  <2>2. m.tgk \in 1 .. Len(made) /\ m = made[m.tgk]
    BY <2>1 DEF IsMade
  <2>3. m.tgk \in DOMAIN made' /\ made'[m.tgk] = made[m.tgk]
    BY <2>1, <2>2
  <2> QED
    BY <2>2, <2>3 DEF IsMade
<1> QED
  BY <1>1, <1>2, MadeGrows

\* A step keeps every key with its owner.
LEMMA OwnershipStep ==
  ASSUME TypeOK, Ownership, [Next]_vars
  PROVE  Ownership'
<1> DEFINE P == Ownership'
<1>1. \A c, k : IsIssued(c, k) => IsIssued(c, k)'
  BY IssuedStays
<1>2. \A m : IsMade(m) => IsMade(m)'
  BY MadeStays
<1> DEFINE Iss(c, k) == k \in 1 .. Len(owner') /\ owner'[k] = c
           Made(m)   == m.tgk \in DOMAIN made' /\ m = made'[m.tgk]
<1>a. \A c, k : IsIssued(c, k) => Iss(c, k)
  BY <1>1 DEF IsIssued, Keys
<1>b. \A m : IsMade(m) => Made(m)
  BY <1>2 DEF IsMade
<1>3. made' = made => MadeOwned'
  BY <1>1 DEF Ownership, MadeOwned
<1>4. ticket' = ticket /\ creds' = creds => TicketsOwned'
  BY <1>1 DEF Ownership, TicketsOwned
<1>5. kdc' = kdc /\ backlog' = backlog => JobsOwned'
  BY <1>1 DEF Ownership, JobsOwned
<1>6. gmsg' = gmsg /\ inbox' = inbox => MessagesMade'
  BY <1>2 DEF Ownership, MessagesMade, IsReal
<1>7. receipts' = receipts => VerdictsRight'
  BY <1>1, <1>2 DEF Ownership, VerdictsRight, IsReal
<1>8. ASSUME NEW c \in Client, client_exec(c) PROVE P
  BY <1>8, <1>3, <1>4, <1>5, <1>6, <1>7
     DEF client_exec, kdcVars, gcksVars, histVars, Ownership
<1>9. ASSUME NEW c \in Client, recreate_client_cache(c) PROVE P
  <2>1. TicketsOwned'
    BY <1>9, <1>1 DEF recreate_client_cache, Ownership, TicketsOwned, TypeOK
  <2> QED
    BY <2>1, <1>9, <1>3, <1>5, <1>6, <1>7
       DEF recreate_client_cache, kdcVars, gcksVars, histVars, Ownership
<1>10. ASSUME NEW c \in Client, obtain_credentials_cached(c) PROVE P
  <2>1. TicketsOwned'
    BY <1>10, <1>1 DEF obtain_credentials_cached, Ownership, TicketsOwned, TypeOK
  <2> QED
    BY <2>1, <1>10, <1>3, <1>5, <1>6, <1>7
       DEF obtain_credentials_cached, kdcVars, gcksVars, histVars, Ownership
<1>11. ASSUME NEW c \in Client, obtain_credentials_tgs(c) PROVE P
  BY <1>11, <1>3, <1>4, <1>5, <1>6, <1>7
     DEF obtain_credentials_tgs, gcksVars, histVars, Ownership
<1>12. ASSUME NEW c \in Client, obtain_credentials_timeout(c) PROVE P
  BY <1>12, <1>3, <1>4, <1>5, <1>6, <1>7
     DEF obtain_credentials_timeout, kdcVars, gcksVars, histVars, Ownership
<1>13. ASSUME NEW c \in Client, bind_listen(c) PROVE P
  BY <1>13, <1>3, <1>4, <1>5, <1>6, <1>7
     DEF bind_listen, kdcVars, gcksVars, histVars, Ownership
<1>14. ASSUME NEW c \in Client, bind_fails(c) PROVE P
  <2>1. TicketsOwned'
    BY <1>14, <1>1 DEF bind_fails, Ends, Ownership, TicketsOwned, TypeOK
  <2> QED
    BY <2>1, <1>14, <1>3, <1>5, <1>6, <1>7
       DEF bind_fails, kdcVars, gcksVars, histVars, Ownership
<1>15. ASSUME NEW c \in Client, accept_recv(c) PROVE P
  <2>1. TicketsOwned'
    BY <1>15, <1>1 DEF accept_recv, Ends, Ownership, TicketsOwned, TypeOK
  <2>2. MessagesMade'
    <3>1. inbox' = [inbox EXCEPT ![c] = <<>>] /\ gmsg' = gmsg /\ inbox \in [Client -> Seq(Msg)]
      BY <1>15 DEF accept_recv, TypeOK
    <3> QED
      BY <3>1, <1>2 DEF Ownership, MessagesMade, IsReal
  <2>3. VerdictsRight'
    <3> DEFINE m == Head(inbox[c])
               ok == Authenticates(m, creds[c])
               r == [client |-> c, run |-> run[c], msg |-> m, ok |-> ok]
    <3>1. inbox[c] \in Seq(Msg) /\ inbox[c] # <<>>
      BY <1>15 DEF accept_recv, TypeOK
    <3>2. 1 \in DOMAIN inbox[c] /\ inbox[c][1] = m
      BY <3>1
    <3>3. receipts' = receipts \cup {r}
      BY <1>15 DEF accept_recv
    <3>4. m.key # 0 => Made(m)
      <4>1. m.key # 0 => IsMade(m)
        <5>1. IsReal(inbox[c][1]) => IsMade(inbox[c][1])
          BY <3>2 DEF Ownership, MessagesMade
        <5> QED
          BY <5>1, <3>2 DEF IsReal
      <4> QED
        BY <4>1, <1>b
    <3>5. ok => Iss(c, m.key)
      <4>1. ok => m.key # 0 /\ m.key = creds[c]
        BY DEF Authenticates
      <4>2. creds[c] # 0 => IsIssued(c, creds[c])
        BY DEF Ownership, TicketsOwned
      <4> QED
        BY <4>1, <4>2, <1>a
    <3>6. r.msg = m /\ r.client = c /\ r.ok = ok
      OBVIOUS
    <3>7. \A q \in receipts : (q.msg.key # 0 => Made(q.msg)) /\ (q.ok => Iss(q.client, q.msg.key))
      <4> HIDE DEF Made, Iss
      <4> QED
        BY <1>a, <1>b DEF Ownership, VerdictsRight, IsReal
    <3> HIDE DEF m, ok, r
    <3>8. (r.msg.key # 0 => Made(r.msg)) /\ (r.ok => Iss(r.client, r.msg.key))
      BY <3>4, <3>5, <3>6
    <3>9. \A q \in receipts' : (q.msg.key # 0 => Made(q.msg)) /\ (q.ok => Iss(q.client, q.msg.key))
      BY <3>3, <3>7, <3>8
    <3> QED
      BY <3>9 DEF VerdictsRight, IsReal, IsMade, IsIssued, Keys
  <2> QED
    BY <2>1, <2>2, <2>3, <1>15, <1>3, <1>5 DEF accept_recv, kdcVars, Ownership
<1>16. ASSUME NEW c \in Client, client_dies(c) PROVE P
  <2>1. TicketsOwned'
    BY <1>16, <1>1 DEF client_dies, Ends, Ownership, TicketsOwned, TypeOK
  <2>2. MessagesMade'
    <3>1. inbox' = [inbox EXCEPT ![c] = <<>>] /\ gmsg' = gmsg /\ inbox \in [Client -> Seq(Msg)]
      BY <1>16 DEF client_dies, TypeOK
    <3> QED
      BY <3>1, <1>2 DEF Ownership, MessagesMade, IsReal
  <2> QED
    BY <2>1, <2>2, <1>16, <1>3, <1>5, <1>7 DEF client_dies, kdcVars, Ownership
<1>17. ASSUME NEW r \in requests, process_tgs_req(r) PROVE P
  <2>1. owner \in Seq(Client) /\ r.client \in Client
    BY DEF TypeOK, Request
  <2>2. owner' = Append(owner, r.client)
    BY <1>17 DEF process_tgs_req
  <2>3. kdc'.client = r.client /\ kdc'.key = Len(owner')
    BY <1>17 DEF process_tgs_req
  <2>4. Len(owner') \in 1 .. Len(owner') /\ owner'[Len(owner')] = r.client
    BY <2>1, <2>2
  <2>5. IsIssued(kdc.client, kdc.key)'
    BY <2>3, <2>4 DEF IsIssued, Keys
  <2>6. JobsOwned'
    BY <1>17, <2>5, <1>1 DEF process_tgs_req, gcksVars, Ownership, JobsOwned
  <2> QED
    BY <2>6, <1>17, <1>3, <1>4, <1>6, <1>7
       DEF process_tgs_req, clientVars, gcksVars, histVars, Ownership
<1>18. CASE gcks_lookup_fails
  BY <1>18, <1>3, <1>4, <1>5, <1>6, <1>7
     DEF gcks_lookup_fails, clientVars, gcksVars, Ownership
<1>19. CASE do_gcks_req
  <2> DEFINE j == [client |-> kdc.client, key |-> kdc.key]
  <2>1. kdc # NONE /\ backlog \in Seq(Job) /\ j \in Job
    BY <1>19 DEF do_gcks_req, TypeOK, Ticket, Job
  <2>2. backlog' = Append(backlog, j) /\ kdc' = kdc
    BY <1>19 DEF do_gcks_req, Enqueue
  <2>3. Iss(j.client, j.key)
    BY <2>1, <1>a DEF Ownership, JobsOwned
  <2>4. Iss(kdc.client, kdc.key)
    BY <2>1, <1>a DEF Ownership, JobsOwned
  <2>5. ASSUME NEW i \in DOMAIN backlog'
        PROVE  Iss(backlog'[i].client, backlog'[i].key)
    <3>1. CASE i \in DOMAIN backlog
      <4>1. backlog'[i] = backlog[i]
        BY <3>1, <2>1, <2>2
      <4>2. IsIssued(backlog[i].client, backlog[i].key)
        BY <3>1 DEF Ownership, JobsOwned
      <4> QED
        BY <4>1, <4>2, <1>a
    <3>2. CASE i \notin DOMAIN backlog
      <4>1. backlog'[i] = j
        BY <3>2, <2>1, <2>2
      <4> HIDE DEF j
      <4> QED
        BY <4>1, <2>3
    <3> QED
      BY <3>1, <3>2
  <2>6. JobsOwned'
    BY <2>2, <2>4, <2>5 DEF JobsOwned, IsIssued, Keys
  <2> QED
    BY <2>6, <1>19, <1>3, <1>4, <1>6, <1>7 DEF do_gcks_req, clientVars, histVars, Ownership
<1>20. CASE do_gcks_req_fails
  BY <1>20, <1>3, <1>4, <1>5, <1>6, <1>7
     DEF do_gcks_req_fails, clientVars, gcksVars, Ownership
<1>21. CASE do_gcks_req_exit
  <2>1. JobsOwned'
    BY <1>21, <1>1 DEF do_gcks_req_exit, gcksVars, Ownership, JobsOwned
  <2> QED
    BY <2>1, <1>21, <1>3, <1>4, <1>6, <1>7
       DEF do_gcks_req_exit, clientVars, gcksVars, Ownership
<1>22. CASE process_tgs_req_late_error
  BY <1>22, <1>3, <1>4, <1>5, <1>6, <1>7
     DEF process_tgs_req_late_error, clientVars, gcksVars, histVars, Ownership
<1>23. CASE tgs_reply
  <2>1. kdc # NONE /\ kdc \in Ticket
    BY <1>23 DEF tgs_reply, TypeOK
  <2>a. Iss(kdc.client, kdc.key)
    BY <2>1, <1>a DEF Ownership, JobsOwned
  <2>2. TicketsOwned'
    <3>1. CASE StillWaiting
      <4> DEFINE c == kdc.client
                 k == kdc.key
      <4>1. /\ ticket' = [ticket EXCEPT ![c] = k] /\ ticket \in [Client -> Nat]
            /\ creds' = [creds EXCEPT ![c] = k] /\ creds \in [Client -> Nat]
        BY <3>1, <1>23 DEF tgs_reply, TypeOK
      <4>2. ASSUME NEW d \in Client
            PROVE  /\ ticket[d] # 0 => Iss(d, ticket[d])
                   /\ creds[d] # 0 => Iss(d, creds[d])
        BY <1>a DEF Ownership, TicketsOwned
      <4>3. Iss(c, k)
        BY <2>a
      <4> HIDE DEF c, k
      <4>4. ASSUME NEW d \in Client
            PROVE  /\ ticket'[d] # 0 => Iss(d, ticket'[d])
                   /\ creds'[d] # 0 => Iss(d, creds'[d])
        BY <4>1, <4>2, <4>3
      <4> QED
        BY <4>4 DEF TicketsOwned, IsIssued, Keys
    <3>2. CASE ~StillWaiting
      BY <3>2, <1>23, <1>4 DEF tgs_reply
    <3> QED
      BY <3>1, <3>2
  <2>3. JobsOwned'
    BY <1>23, <1>1 DEF tgs_reply, KdcDone, gcksVars, Ownership, JobsOwned
  <2> QED
    BY <2>2, <2>3, <1>23, <1>3, <1>6, <1>7 DEF tgs_reply, gcksVars, histVars, Ownership
<1>24. CASE tgs_error_reply
  <2>1. JobsOwned'
    BY <1>24, <1>1 DEF tgs_error_reply, KdcDone, gcksVars, Ownership, JobsOwned
  <2> QED
    BY <2>1, <1>24, <1>3, <1>4, <1>6, <1>7 DEF tgs_error_reply, gcksVars, histVars, Ownership
<1>25. CASE process_mikey_message
  <2> DEFINE n == Len(made) + 1
  <2>1. /\ backlog \in Seq(Job) /\ backlog # <<>> /\ backlog' = Tail(backlog)
        /\ gmsg' = [client |-> backlog[1].client, key |-> backlog[1].key, tgk |-> n]
        /\ made \in Seq(Msg) /\ gmsg' \in Msg /\ made' = Append(made, gmsg')
    BY <1>25, MikeyMessage
  <2>2. IsIssued(backlog[1].client, backlog[1].key)
    BY <2>1 DEF Ownership, JobsOwned
  <2>3. Iss(gmsg'.client, gmsg'.key) /\ gmsg'.tgk = n
    BY <2>1, <2>2, <1>a
  <2>a. n \in DOMAIN made' /\ made'[n] = gmsg'
    BY <2>1
  <2>b. ASSUME NEW i \in DOMAIN made'
        PROVE  made'[i].tgk = i /\ Iss(made'[i].client, made'[i].key)
    <3>1. CASE i \in DOMAIN made
      <4>1. made'[i] = made[i]
        BY <3>1, <2>1
      <4>2. made[i].tgk = i /\ IsIssued(made[i].client, made[i].key)
        BY <3>1 DEF Ownership, MadeOwned
      <4> QED
        BY <4>1, <4>2, <1>a
    <3>2. CASE i \notin DOMAIN made
      <4>1. i = n
        BY <3>2, <2>1
      <4> QED
        BY <4>1, <2>3, <2>a
    <3> QED
      BY <3>1, <3>2
  <2>4. MadeOwned'
    BY <2>b DEF MadeOwned, IsIssued, Keys
  <2>5. JobsOwned'
    <3>1. kdc' = kdc
      BY <1>25 DEF process_mikey_message, kdcVars
    <3>2. ASSUME NEW i \in DOMAIN backlog'
          PROVE  Iss(backlog'[i].client, backlog'[i].key)
      <4>1. i + 1 \in DOMAIN backlog /\ backlog'[i] = backlog[i + 1]
        BY <2>1
      <4>2. IsIssued(backlog[i + 1].client, backlog[i + 1].key)
        BY <4>1 DEF Ownership, JobsOwned
      <4> QED
        BY <4>1, <4>2, <1>a
    <3>3. kdc # NONE => Iss(kdc.client, kdc.key)
      BY <1>a DEF Ownership, JobsOwned
    <3> QED
      BY <3>1, <3>2, <3>3 DEF JobsOwned, IsIssued, Keys
  <2>6. MessagesMade'
    <3>1. Made(gmsg')
      BY <2>3, <2>a
    <3>2. gmsg'.key # 0
      BY <2>3, <2>1 DEF Msg
    <3>3. inbox' = inbox
      BY <1>25 DEF process_mikey_message, clientVars
    <3>4. ASSUME NEW c \in Client, NEW i \in DOMAIN inbox[c], inbox[c][i].key # 0
          PROVE  Made(inbox[c][i])
      BY <3>4, <1>b DEF Ownership, MessagesMade, IsReal
    <3> QED
      BY <3>1, <3>2, <3>3, <3>4 DEF MessagesMade, IsReal, IsMade
  <2> QED
    BY <2>4, <2>5, <2>6, <1>25, <1>4, <1>7 DEF process_mikey_message, clientVars, histVars, Ownership
<1>26. ASSUME NEW c \in Client, send_mikey_message_connect(c) PROVE P
  BY <1>26, <1>3, <1>4, <1>5, <1>6, <1>7
     DEF send_mikey_message_connect, clientVars, kdcVars, histVars, Ownership
<1>27. CASE send_mikey_message_send
  <2>1. gmsg \in Msg /\ gmsg' = NONE
    BY <1>27 DEF send_mikey_message_send, TypeOK
  <2>2. Made(gmsg)
    BY <2>1, <1>b, NoneAssumption DEF Ownership, MessagesMade
  <2>3. ASSUME NEW c \in Client, NEW i \in DOMAIN inbox'[c]
        PROVE  inbox'[c][i] = gmsg \/ (i \in DOMAIN inbox[c] /\ inbox'[c][i] = inbox[c][i])
    <3>1. CASE peer # NONE
      <4>1. peer \in Client /\ inbox \in [Client -> Seq(Msg)]
        BY <3>1 DEF TypeOK
      <4>2. inbox' = [inbox EXCEPT ![peer] = Append(@, gmsg)]
        BY <3>1, <1>27 DEF send_mikey_message_send
      <4> QED
        BY <4>1, <4>2, <2>1
    <3>2. CASE peer = NONE
      BY <3>2, <1>27 DEF send_mikey_message_send
    <3> QED
      BY <3>1, <3>2
  <2>4. ASSUME NEW c \in Client, NEW i \in DOMAIN inbox'[c], inbox'[c][i].key # 0
        PROVE  Made(inbox'[c][i])
    BY <2>2, <2>3, <2>4, <1>b DEF Ownership, MessagesMade, IsReal
  <2>5. MessagesMade'
    BY <2>1, <2>4 DEF MessagesMade, IsReal, IsMade
  <2> QED
    BY <2>5, <1>27, <1>3, <1>4, <1>5, <1>7 DEF send_mikey_message_send, kdcVars, Ownership
<1>28. CASE gcks_crash
  <2>1. JobsOwned'
    BY <1>28, <1>1 DEF gcks_crash, kdcVars, Ownership, JobsOwned
  <2>2. MessagesMade'
    <3>1. CASE peer # NONE
      <4>1. peer \in Client /\ inbox \in [Client -> Seq(Msg)] /\ Empty(peer) \in Msg
        BY <3>1 DEF TypeOK, Empty, Msg
      <4>2. inbox' = [inbox EXCEPT ![peer] = Append(@, Empty(peer))]
        BY <3>1, <1>28 DEF gcks_crash
      <4>3. ASSUME NEW c \in Client, NEW i \in DOMAIN inbox'[c]
            PROVE  inbox'[c][i] = Empty(peer) \/ (i \in DOMAIN inbox[c] /\ inbox'[c][i] = inbox[c][i])
        BY <4>1, <4>2
      <4>4. ~IsReal(Empty(peer)) /\ gmsg' = NONE
        BY <1>28 DEF IsReal, Empty, gcks_crash
      <4> QED
        BY <4>3, <4>4, <1>2 DEF Ownership, MessagesMade, IsReal
    <3>2. CASE peer = NONE
      BY <3>2, <1>28, <1>2 DEF gcks_crash, Ownership, MessagesMade, IsReal
    <3> QED
      BY <3>1, <3>2
  <2> QED
    BY <2>1, <2>2, <1>28, <1>3, <1>4, <1>7 DEF gcks_crash, kdcVars, Ownership
<1>29. CASE gcks_restart
  BY <1>29, <1>3, <1>4, <1>5, <1>6, <1>7
     DEF gcks_restart, clientVars, kdcVars, histVars, Ownership
<1>30. CASE UNCHANGED vars
  BY <1>30, <1>3, <1>4, <1>5, <1>6, <1>7
     DEF vars, clientVars, kdcVars, gcksVars, histVars, Ownership
<1> QED
  BY <1>8, <1>9, <1>10, <1>11, <1>12, <1>13, <1>14, <1>15, <1>16, <1>17, <1>18,
     <1>19, <1>20, <1>21, <1>22, <1>23, <1>24, <1>25, <1>26, <1>27, <1>28, <1>29, <1>30
     DEF Next, UserNext, ClientStep, KdcNext, GcksNext

\* What the clients, the KDC and the GCKS hold under a key is its owner's.
THEOREM OwnershipInvariant == Spec => []Ownership
<1>1. Init => Ownership
  BY DEF Init, Ownership, TicketsOwned, JobsOwned, MadeOwned, MessagesMade, VerdictsRight
<1>2. TypeOK /\ Ownership /\ [Next]_vars => Ownership'
  BY OwnershipStep
<1> QED
  BY <1>1, <1>2, TypeCorrect, PTL DEF Spec

\* However often port 9999 of a host changes hands between the KDC's request
\* and the GCKS's call, a client accepts only a group key the GCKS made for
\* it, under a session key the KDC generated for it.
THEOREM NoForeignGroupKey == Spec => []AuthenticAcceptance
<1>1. Ownership => AuthenticAcceptance
  <2> SUFFICES ASSUME Ownership, NEW r \in receipts, r.ok
               PROVE  /\ r.msg.tgk \in DOMAIN made
                      /\ r.msg = made[r.msg.tgk]
                      /\ r.msg.client = r.client
                      /\ r.msg.key \in Keys
                      /\ owner[r.msg.key] = r.client
    BY DEF AuthenticAcceptance, Accepted
  <2>1. r.msg.key \in Keys /\ owner[r.msg.key] = r.client
    BY DEF Ownership, VerdictsRight, IsIssued
  <2>2. IsReal(r.msg)
    BY <2>1 DEF IsReal, Keys
  <2>3. r.msg.tgk \in DOMAIN made /\ r.msg = made[r.msg.tgk]
    BY <2>2 DEF Ownership, VerdictsRight, IsMade
  <2> QED
    BY <2>1, <2>3 DEF Ownership, MadeOwned, IsIssued
<1> QED
  BY <1>1, OwnershipInvariant, PTL

--------------------------------------------------------------------------
(***************************************************************************)
(* Where the session keys are, that a group key is accepted once, the      *)
(* order of service, and the refinement of the abstract key transport.     *)
(***************************************************************************)

\* The keys K are divided among six places.
Accounted(K, U, Q, D, A, R, L) ==
  /\ K = U \cup Q \cup D \cup A \cup R \cup L
  /\ U \cap (Q \cup D \cup A \cup R \cup L) = {}
  /\ Q \cap (D \cup A \cup R \cup L) = {}
  /\ D \cap (A \cup R \cup L) = {}
  /\ A \cap (R \cup L) = {}
  /\ R \cap L = {}

\* The two ways to say it.
LEMMA SixPlaces ==
  ASSUME NEW K, NEW U, NEW Q, NEW D, NEW A, NEW R, NEW L
  PROVE  (LET place == <<U, Q, D, A, R, L>>
          IN  /\ K = UNION {place[i] : i \in DOMAIN place}
              /\ \A i, j \in DOMAIN place : i # j => place[i] \cap place[j] = {})
         <=> Accounted(K, U, Q, D, A, R, L)
<1> DEFINE place == <<U, Q, D, A, R, L>>
<1>1. /\ DOMAIN place = {1, 2, 3, 4, 5, 6}
      /\ place[1] = U /\ place[2] = Q /\ place[3] = D
      /\ place[4] = A /\ place[5] = R /\ place[6] = L
  OBVIOUS
<1> HIDE DEF place
<1>2. UNION {place[i] : i \in DOMAIN place} = U \cup Q \cup D \cup A \cup R \cup L
  BY <1>1
<1>3. (\A i, j \in DOMAIN place : i # j => place[i] \cap place[j] = {})
        <=> /\ U \cap (Q \cup D \cup A \cup R \cup L) = {}
            /\ Q \cap (D \cup A \cup R \cup L) = {}
            /\ D \cap (A \cup R \cup L) = {}
            /\ A \cap (R \cup L) = {}
            /\ R \cap L = {}
  BY <1>1
<1>4. ( /\ K = UNION {place[i] : i \in DOMAIN place}
        /\ \A i, j \in DOMAIN place : i # j => place[i] \cap place[j] = {})
      <=> Accounted(K, U, Q, D, A, R, L)
  BY <1>2, <1>3 DEF Accounted
<1> QED
  BY <1>4, Zenon DEF place

LEMMA AccountsNow ==
  EveryKeyAccountedFor <=> Accounted(Keys, Undecided, Queued, InDelivery, Arrived, Read, lost)
BY SixPlaces, Zenon DEF EveryKeyAccountedFor

LEMMA AccountsNext ==
  EveryKeyAccountedFor' <=> Accounted(Keys', Undecided', Queued', InDelivery', Arrived', Read', lost')
BY SixPlaces, Zenon DEF EveryKeyAccountedFor

--------------------------------------------------------------------------
\* The keys of a queue that grows at its end and is served at its head.
LEMMA KeysOfNone == KeysIn(<<>>) = {}
BY DEF KeysIn

LEMMA KeysOfAppend ==
  ASSUME NEW S, NEW q \in Seq(S), NEW e \in S
  PROVE  KeysIn(Append(q, e)) = KeysIn(q) \cup {e.key}
<1>1. /\ DOMAIN Append(q, e) = DOMAIN q \cup {Len(q) + 1}
      /\ \A i \in DOMAIN q : Append(q, e)[i] = q[i]
      /\ Append(q, e)[Len(q) + 1] = e
  OBVIOUS
<1> QED
  BY <1>1 DEF KeysIn

LEMMA KeysOfTail ==
  ASSUME NEW S, NEW q \in Seq(S), q # <<>>
  PROVE  KeysIn(q) = {Head(q).key} \cup KeysIn(Tail(q))
<1>1. /\ 1 \in DOMAIN q /\ Head(q) = q[1]
      /\ \A i \in DOMAIN q : i = 1 \/ (i - 1 \in DOMAIN Tail(q) /\ Tail(q)[i - 1] = q[i])
      /\ \A i \in DOMAIN Tail(q) : i + 1 \in DOMAIN q /\ Tail(q)[i] = q[i + 1]
  OBVIOUS
<1>2. ASSUME NEW k \in KeysIn(q) PROVE k \in {Head(q).key} \cup KeysIn(Tail(q))
  <2>1. PICK i \in DOMAIN q : k = q[i].key
    BY <1>2 DEF KeysIn
  <2> QED
    BY <2>1, <1>1 DEF KeysIn
<1>3. ASSUME NEW k \in {Head(q).key} \cup KeysIn(Tail(q)) PROVE k \in KeysIn(q)
  <2>1. CASE k = Head(q).key
    BY <2>1, <1>1 DEF KeysIn
  <2>2. CASE k \in KeysIn(Tail(q))
    <3>1. PICK i \in DOMAIN Tail(q) : k = Tail(q)[i].key
      BY <2>2 DEF KeysIn
    <3> QED
      BY <3>1, <1>1 DEF KeysIn
  <2> QED
    BY <1>3, <2>1, <2>2
<1> QED
  BY <1>2, <1>3

\* The keys in the sockets f.
KeysOf(f) == (UNION {KeysIn(f[c]) : c \in Client}) \ {NoKey}

\* What replacing one socket's queue does to them.
LEMMA OneSocketChanges ==
  ASSUME NEW f, NEW g, NEW c \in Client,
         \A d \in Client : d # c => g[d] = f[d],
         \A d \in Client : d # c => KeysIn(f[c]) \cap KeysIn(f[d]) \subseteq {NoKey},
         NEW k
  PROVE  k \in KeysOf(g) <=> \/ k \in KeysOf(f) /\ k \notin KeysIn(f[c])
                             \/ k \in KeysIn(g[c]) /\ k # NoKey
<1>1. ASSUME k \in KeysOf(g)
      PROVE  \/ k \in KeysOf(f) /\ k \notin KeysIn(f[c])
             \/ k \in KeysIn(g[c]) /\ k # NoKey
  <2>1. PICK d \in Client : k \in KeysIn(g[d]) /\ k # NoKey
    BY <1>1 DEF KeysOf
  <2> QED
    BY <2>1 DEF KeysOf
<1>2. ASSUME k \in KeysIn(g[c]), k # NoKey PROVE k \in KeysOf(g)
  BY <1>2 DEF KeysOf
<1>3. ASSUME k \in KeysOf(f), k \notin KeysIn(f[c]) PROVE k \in KeysOf(g)
  <2>1. PICK d \in Client : k \in KeysIn(f[d]) /\ k # NoKey
    BY <1>3 DEF KeysOf
  <2>2. d # c
    BY <1>3, <2>1
  <2> QED
    BY <2>1, <2>2 DEF KeysOf
<1> QED
  BY <1>1, <1>2, <1>3


--------------------------------------------------------------------------
\* The places when what they are made of does not change.
LEMMA PlacesStay ==
  /\ owner' = owner => Keys' = Keys
  /\ kpc' = kpc /\ kdc' = kdc => Undecided' = Undecided
  /\ backlog' = backlog => Queued' = Queued
  /\ gmsg' = gmsg => InDelivery' = InDelivery
  /\ inbox' = inbox => Arrived' = Arrived
  /\ receipts' = receipts => Read' = Read
BY DEF Keys, Undecided, Queued, InDelivery, Arrived, Read

\* One real key, one socket.
LEMMA SocketsApart ==
  ASSUME OnceInPlace, NEW c \in Client, NEW d \in Client, d # c
  PROVE  KeysIn(inbox[c]) \cap KeysIn(inbox[d]) \subseteq {NoKey}
<1> SUFFICES ASSUME NEW k \in KeysIn(inbox[c]), k \in KeysIn(inbox[d]), k # NoKey
             PROVE  FALSE
  OBVIOUS
<1>1. PICK i \in DOMAIN inbox[c] : inbox[c][i].key = k
  BY DEF KeysIn
<1>2. PICK j \in DOMAIN inbox[d] : inbox[d][j].key = k
  BY DEF KeysIn
<1> QED
  BY <1>1, <1>2 DEF OnceInPlace, IsReal

\* What a run of sclient2 that ends takes out of its socket.
LEMMA SocketCloses ==
  ASSUME TypeOK, OnceInPlace, NEW c \in Client, inbox' = [inbox EXCEPT ![c] = <<>>]
  PROVE  Arrived' = Arrived \ KeysIn(inbox[c])
<1>1. inbox'[c] = <<>> /\ \A d \in Client : d # c => inbox'[d] = inbox[d]
  BY DEF TypeOK
<1>2. \A d \in Client : d # c => KeysIn(inbox[c]) \cap KeysIn(inbox[d]) \subseteq {NoKey}
  BY SocketsApart
<1>3. \A k : k \in KeysOf(inbox') <=> \/ k \in KeysOf(inbox) /\ k \notin KeysIn(inbox[c])
                                      \/ k \in KeysIn(inbox'[c]) /\ k # NoKey
  BY <1>1, <1>2, OneSocketChanges
<1>4. KeysOf(inbox') = KeysOf(inbox) \ KeysIn(inbox[c])
  BY <1>1, <1>3, KeysOfNone
<1> QED
  BY <1>4 DEF KeysOf, Arrived

\* What a message that the GCKS sends adds.
LEMMA MessageArrives ==
  ASSUME TypeOK, NEW c \in Client, NEW m \in Msg,
         inbox' = [inbox EXCEPT ![c] = Append(inbox[c], m)]
  PROVE  Arrived' = Arrived \cup ({m.key} \ {NoKey})
<1>1. inbox \in [Client -> Seq(Msg)]
  BY DEF TypeOK
<1>2. inbox'[c] = Append(inbox[c], m) /\ \A d \in Client : d # c => inbox'[d] = inbox[d]
  BY <1>1
<1>3. KeysIn(inbox'[c]) = KeysIn(inbox[c]) \cup {m.key}
  BY <1>1, <1>2, KeysOfAppend
<1>4. ASSUME NEW k \in Arrived' PROVE k \in Arrived \cup ({m.key} \ {NoKey})
  <2>1. PICK d \in Client : k \in KeysIn(inbox'[d]) /\ k # NoKey
    BY <1>4 DEF Arrived
  <2> QED
    BY <1>2, <1>3, <2>1 DEF Arrived
<1>5. ASSUME NEW k \in Arrived PROVE k \in Arrived'
  <2>1. PICK d \in Client : k \in KeysIn(inbox[d]) /\ k # NoKey
    BY <1>5 DEF Arrived
  <2>2. k \in KeysIn(inbox'[d])
    BY <1>2, <1>3, <2>1
  <2> QED
    BY <2>1, <2>2 DEF Arrived
<1>6. ASSUME m.key # NoKey PROVE m.key \in Arrived'
  BY <1>3, <1>6 DEF Arrived
<1> QED
  BY <1>4, <1>5, <1>6

\* What a run reads adds a key unless it is empty.
LEMMA ReceiptRead ==
  ASSUME NEW r, receipts' = receipts \cup {r}
  PROVE  Read' = Read \cup ({r.msg.key} \ {NoKey})
BY DEF Read

\* What it reads, and what it leaves behind.
LEMMA FirstIsRead ==
  ASSUME TypeOK, OnceInPlace, NEW c \in Client, inbox[c] # <<>>
  PROVE  /\ Head(inbox[c]) \in Msg
         /\ KeysIn(inbox[c]) = {Head(inbox[c]).key} \cup KeysIn(Tail(inbox[c]))
         /\ Head(inbox[c]).key # NoKey => Head(inbox[c]).key \notin KeysIn(Tail(inbox[c]))
<1> DEFINE q == inbox[c]
<1>1. q \in Seq(Msg) /\ q # <<>>
  BY DEF TypeOK
<1>2. /\ 1 \in DOMAIN q /\ Head(q) = q[1] /\ q[1] \in Msg
      /\ \A i \in DOMAIN Tail(q) : i + 1 \in DOMAIN q /\ Tail(q)[i] = q[i + 1] /\ i + 1 # 1
  BY <1>1
<1>3. KeysIn(q) = {Head(q).key} \cup KeysIn(Tail(q))
  BY <1>1, KeysOfTail
<1>4. ASSUME q[1].key # NoKey, q[1].key \in KeysIn(Tail(q)) PROVE FALSE
  <2>1. PICK i \in DOMAIN Tail(q) : q[1].key = Tail(q)[i].key
    BY <1>4 DEF KeysIn
  <2>2. i + 1 \in DOMAIN q /\ q[i + 1].key = q[1].key /\ i + 1 # 1
    BY <1>2, <2>1
  <2> HIDE DEF q
  <2>3. \A m, n \in DOMAIN q : q[m].key # NoKey /\ q[m].key = q[n].key => m = n
    BY DEF OnceInPlace, IsReal, q
  <2> QED
    BY <1>2, <1>4, <2>2, <2>3
<1> QED
  BY <1>2, <1>3, <1>4

\* The key of the job gcks2 takes, and the ones it leaves in the queue.
LEMMA FirstIsServed ==
  ASSUME TypeOK, OnceInPlace, backlog # <<>>
  PROVE  /\ Queued = {backlog[1].key} \cup KeysIn(Tail(backlog))
         /\ backlog[1].key \notin KeysIn(Tail(backlog))
<1>1. backlog \in Seq(Job) /\ backlog # <<>>
  BY DEF TypeOK
<1>2. /\ 1 \in DOMAIN backlog /\ Head(backlog) = backlog[1]
      /\ \A i \in DOMAIN Tail(backlog) :
           i + 1 \in DOMAIN backlog /\ Tail(backlog)[i] = backlog[i + 1] /\ i + 1 # 1
  BY <1>1
<1>3. Queued = {backlog[1].key} \cup KeysIn(Tail(backlog))
  BY <1>1, <1>2, KeysOfTail DEF Queued
<1>4. ASSUME backlog[1].key \in KeysIn(Tail(backlog)) PROVE FALSE
  <2>1. PICK i \in DOMAIN Tail(backlog) : backlog[1].key = Tail(backlog)[i].key
    BY <1>4 DEF KeysIn
  <2> QED
    BY <1>2, <2>1 DEF OnceInPlace
<1> QED
  BY <1>3, <1>4

\* The key the KDC works on.
LEMMA KdcKey ==
  ASSUME TypeOK, kpc = "forward"
  PROVE  Undecided = {kdc.key} /\ kdc # NONE /\ kdc \in Ticket
BY DEF TypeOK, Undecided

--------------------------------------------------------------------------
\* A step takes a key from one place to another, or brings a new one; what has
\* left the GCKS's queue does not come back.
LEMMA AccountsStep ==
  ASSUME TypeOK, EveryKeyAccountedFor, OnceInPlace, [Next]_vars
  PROVE  /\ EveryKeyAccountedFor'
         /\ InDelivery \cup Arrived \cup Read \cup lost
              \subseteq InDelivery' \cup Arrived' \cup Read' \cup lost'
<1> DEFINE Goal == /\ Accounted(Keys', Undecided', Queued', InDelivery', Arrived', Read', lost')
                   /\ InDelivery \cup Arrived \cup Read \cup lost
                        \subseteq InDelivery' \cup Arrived' \cup Read' \cup lost'
<1> SUFFICES Goal
  BY AccountsNext
<1>a. Accounted(Keys, Undecided, Queued, InDelivery, Arrived, Read, lost)
  BY AccountsNow
<1>b. ASSUME Keys' = Keys, Undecided' = Undecided, Queued' = Queued, InDelivery' = InDelivery,
             Arrived' = Arrived, Read' = Read, lost' = lost
      PROVE  Goal
  BY <1>a, <1>b
<1>1. ASSUME NEW c \in Client, client_exec(c) PROVE Goal
  BY <1>1, <1>b, PlacesStay DEF client_exec, kdcVars, gcksVars, histVars
<1>2. ASSUME NEW c \in Client, recreate_client_cache(c) PROVE Goal
  BY <1>2, <1>b, PlacesStay DEF recreate_client_cache, kdcVars, gcksVars, histVars
<1>3. ASSUME NEW c \in Client, obtain_credentials_cached(c) PROVE Goal
  BY <1>3, <1>b, PlacesStay DEF obtain_credentials_cached, kdcVars, gcksVars, histVars
<1>4. ASSUME NEW c \in Client, obtain_credentials_tgs(c) PROVE Goal
  BY <1>4, <1>b, PlacesStay DEF obtain_credentials_tgs, gcksVars, histVars
<1>5. ASSUME NEW c \in Client, obtain_credentials_timeout(c) PROVE Goal
  BY <1>5, <1>b, PlacesStay DEF obtain_credentials_timeout, kdcVars, gcksVars, histVars
<1>6. ASSUME NEW c \in Client, bind_listen(c) PROVE Goal
  BY <1>6, <1>b, PlacesStay DEF bind_listen, kdcVars, gcksVars, histVars
<1>7. ASSUME NEW c \in Client, bind_fails(c) PROVE Goal
  BY <1>7, <1>b, PlacesStay DEF bind_fails, kdcVars, gcksVars, histVars
<1>8. ASSUME NEW c \in Client, send_mikey_message_connect(c) PROVE Goal
  BY <1>8, <1>b, PlacesStay DEF send_mikey_message_connect, clientVars, kdcVars, histVars
<1>9. CASE gcks_restart
  BY <1>9, <1>b, PlacesStay DEF gcks_restart, clientVars, kdcVars, histVars
<1>10. CASE process_tgs_req_late_error
  <2>1. Undecided' = Undecided
    BY <1>10 DEF process_tgs_req_late_error, Undecided
  <2> QED
    BY <2>1, <1>10, <1>b, PlacesStay DEF process_tgs_req_late_error, clientVars, gcksVars, histVars
<1>11. CASE tgs_reply
  <2>1. Undecided' = Undecided
    BY <1>11 DEF tgs_reply, KdcDone, Undecided
  <2> QED
    BY <2>1, <1>11, <1>b, PlacesStay DEF tgs_reply, gcksVars, histVars
<1>12. CASE tgs_error_reply
  <2>1. Undecided' = Undecided
    BY <1>12 DEF tgs_error_reply, KdcDone, Undecided
  <2> QED
    BY <2>1, <1>12, <1>b, PlacesStay DEF tgs_error_reply, gcksVars, histVars
<1>13. CASE gcks_lookup_fails
  <2>1. Undecided = {kdc.key} /\ Undecided' = {} /\ lost' = lost \cup {kdc.key}
    BY <1>13, KdcKey DEF gcks_lookup_fails, Undecided
  <2>2. Keys' = Keys /\ Queued' = Queued /\ InDelivery' = InDelivery /\ Arrived' = Arrived /\ Read' = Read
    BY <1>13, PlacesStay DEF gcks_lookup_fails, clientVars, gcksVars
  <2> QED
    BY <2>1, <2>2, <1>a DEF Accounted
<1>14. CASE do_gcks_req_fails
  <2>1. Undecided = {kdc.key} /\ Undecided' = {} /\ lost' = lost \cup {kdc.key}
    BY <1>14, KdcKey DEF do_gcks_req_fails, Undecided
  <2>2. Keys' = Keys /\ Queued' = Queued /\ InDelivery' = InDelivery /\ Arrived' = Arrived /\ Read' = Read
    BY <1>14, PlacesStay DEF do_gcks_req_fails, clientVars, gcksVars
  <2> QED
    BY <2>1, <2>2, <1>a DEF Accounted
<1>15. CASE do_gcks_req_exit
  <2>1. Undecided = {kdc.key} /\ Undecided' = {} /\ lost' = lost \cup {kdc.key}
    BY <1>15, KdcKey DEF do_gcks_req_exit, Undecided
  <2>2. Keys' = Keys /\ Queued' = Queued /\ InDelivery' = InDelivery /\ Arrived' = Arrived /\ Read' = Read
    BY <1>15, PlacesStay DEF do_gcks_req_exit, clientVars, gcksVars
  <2> QED
    BY <2>1, <2>2, <1>a DEF Accounted
<1>16. CASE do_gcks_req
  <2> DEFINE j == [client |-> kdc.client, key |-> kdc.key]
  <2>1. Undecided = {kdc.key} /\ Undecided' = {}
    BY <1>16, KdcKey DEF do_gcks_req, Undecided
  <2>2. j \in Job /\ backlog \in Seq(Job)
    BY <1>16, KdcKey DEF do_gcks_req, TypeOK, Ticket, Job
  <2>3. Queued' = Queued \cup {kdc.key}
    <3>1. backlog' = Append(backlog, j)
      BY <1>16 DEF do_gcks_req, Enqueue
    <3>2. KeysIn(Append(backlog, j)) = KeysIn(backlog) \cup {j.key}
      BY <2>2, KeysOfAppend
    <3> QED
      BY <3>1, <3>2 DEF Queued
  <2>4. Keys' = Keys /\ InDelivery' = InDelivery /\ Arrived' = Arrived /\ Read' = Read /\ lost' = lost
    BY <1>16, PlacesStay DEF do_gcks_req, clientVars, histVars
  <2> QED
    BY <2>1, <2>3, <2>4, <1>a DEF Accounted
<1>17. ASSUME NEW r \in requests, process_tgs_req(r) PROVE Goal
  <2>1. owner' = Append(owner, r.client) /\ owner \in Seq(Client) /\ r.client \in Client
    BY <1>17 DEF process_tgs_req, TypeOK, Request
  <2>2. Keys' = Keys \cup {Len(owner')} /\ Len(owner') \notin Keys
    BY <2>1 DEF Keys
  <2>3. Undecided = {} /\ Undecided' = {Len(owner')}
    BY <1>17 DEF process_tgs_req, Undecided
  <2>4. /\ Queued' = Queued /\ InDelivery' = InDelivery /\ Arrived' = Arrived
        /\ Read' = Read /\ lost' = lost
    BY <1>17, PlacesStay DEF process_tgs_req, clientVars, gcksVars, histVars
  <2> QED
    BY <2>2, <2>3, <2>4, <1>a DEF Accounted
<1>18. CASE process_mikey_message
  <2>1. backlog # <<>> /\ backlog' = Tail(backlog) /\ gmsg' # NONE /\ gmsg'.key = backlog[1].key
    BY <1>18, MikeyMessage
  <2>2. Queued = {backlog[1].key} \cup Queued' /\ backlog[1].key \notin Queued'
    BY <2>1, FirstIsServed DEF Queued
  <2>3. InDelivery = {} /\ InDelivery' = {backlog[1].key}
    BY <1>18, <2>1 DEF process_mikey_message, InDelivery, TypeOK
  <2>4. Keys' = Keys /\ Undecided' = Undecided /\ Arrived' = Arrived /\ Read' = Read /\ lost' = lost
    BY <1>18, PlacesStay DEF process_mikey_message, clientVars, kdcVars, histVars
  <2> QED
    BY <2>2, <2>3, <2>4, <1>a DEF Accounted
<1>19. CASE send_mikey_message_send
  <2>1. gmsg \in Msg /\ gmsg # NONE /\ InDelivery = {gmsg.key} /\ InDelivery' = {}
    BY <1>19 DEF send_mikey_message_send, TypeOK, InDelivery
  <2>2. gmsg.key # NoKey
    BY <2>1, <1>a DEF Accounted, Keys
  <2>3. Keys' = Keys /\ Undecided' = Undecided /\ Queued' = Queued /\ Read' = Read
    BY <1>19, PlacesStay DEF send_mikey_message_send, kdcVars
  <2>4. CASE peer # NONE
    <3>1. /\ peer \in Client /\ lost' = lost /\ inbox \in [Client -> Seq(Msg)]
          /\ inbox' = [inbox EXCEPT ![peer] = Append(inbox[peer], gmsg)]
      BY <1>19, <2>4 DEF send_mikey_message_send, TypeOK
    <3>2. Arrived' = Arrived \cup {gmsg.key}
      BY <2>1, <2>2, <3>1, MessageArrives
    <3> QED
      BY <2>1, <2>3, <3>1, <3>2, <1>a DEF Accounted
  <2>5. CASE peer = NONE
    <3>1. Arrived' = Arrived /\ lost' = lost \cup {gmsg.key}
      BY <1>19, <2>5, PlacesStay DEF send_mikey_message_send
    <3> QED
      BY <2>1, <2>3, <3>1, <1>a DEF Accounted
  <2> QED
    BY <2>4, <2>5
<1>20. CASE gcks_crash
  <2>1. Queued' = {} /\ InDelivery' = {} /\ lost' = lost \cup Queued \cup InDelivery
    BY <1>20, KeysOfNone DEF gcks_crash, Queued, InDelivery
  <2>2. Keys' = Keys /\ Undecided' = Undecided /\ Read' = Read
    BY <1>20, PlacesStay DEF gcks_crash, kdcVars
  <2>3. Arrived' = Arrived
    <3>1. CASE peer # NONE
      <4>1. /\ peer \in Client /\ inbox \in [Client -> Seq(Msg)] /\ Empty(peer) \in Msg
            /\ inbox' = [inbox EXCEPT ![peer] = Append(inbox[peer], Empty(peer))]
        BY <1>20, <3>1 DEF gcks_crash, TypeOK, Empty, Msg
      <4>2. Arrived' = Arrived \cup ({Empty(peer).key} \ {NoKey})
        BY <4>1, MessageArrives
      <4> QED
        BY <4>2 DEF Empty
    <3>2. CASE peer = NONE
      BY <1>20, <3>2, PlacesStay DEF gcks_crash
    <3> QED
      BY <3>1, <3>2
  <2> QED
    BY <2>1, <2>2, <2>3, <1>a DEF Accounted
<1>21. ASSUME NEW c \in Client, client_dies(c) PROVE Goal
  <2>1. Arrived' = Arrived \ KeysIn(inbox[c])
    BY <1>21, SocketCloses DEF client_dies
  <2>2. KeysIn(inbox[c]) \ {NoKey} \subseteq Arrived /\ NoKey \notin Arrived
    BY DEF Arrived
  <2>3. lost' = lost \cup (KeysIn(inbox[c]) \ {NoKey})
    BY <1>21 DEF client_dies
  <2>4. /\ Keys' = Keys /\ Undecided' = Undecided /\ Queued' = Queued
        /\ InDelivery' = InDelivery /\ Read' = Read
    BY <1>21, PlacesStay DEF client_dies, kdcVars
  <2> QED
    BY <2>1, <2>2, <2>3, <2>4, <1>a DEF Accounted
<1>22. ASSUME NEW c \in Client, accept_recv(c) PROVE Goal
  <2> DEFINE m == Head(inbox[c])
             rest == KeysIn(Tail(inbox[c]))
  <2>1. KeysIn(inbox[c]) = {m.key} \cup rest /\ (m.key # NoKey => m.key \notin rest)
    BY <1>22, FirstIsRead DEF accept_recv
  <2>2. Arrived' = Arrived \ KeysIn(inbox[c])
    BY <1>22, SocketCloses DEF accept_recv
  <2>3. KeysIn(inbox[c]) \ {NoKey} \subseteq Arrived /\ NoKey \notin Arrived
    BY DEF Arrived
  <2>4. lost' = lost \cup (rest \ {NoKey})
    BY <1>22 DEF accept_recv
  <2>5. Read' = Read \cup ({m.key} \ {NoKey})
    <3> DEFINE r == [client |-> c, run |-> run[c], msg |-> m,
                     ok |-> Authenticates(m, creds[c])]
    <3>1. receipts' = receipts \cup {r} /\ r.msg = m
      BY <1>22 DEF accept_recv
    <3> HIDE DEF r
    <3> QED
      BY <3>1, ReceiptRead
  <2>6. Keys' = Keys /\ Undecided' = Undecided /\ Queued' = Queued /\ InDelivery' = InDelivery
    BY <1>22, PlacesStay DEF accept_recv, kdcVars
  <2> HIDE DEF m, rest
  <2> QED
    BY <2>1, <2>2, <2>3, <2>4, <2>5, <2>6, <1>a DEF Accounted
<1>23. CASE UNCHANGED vars
  BY <1>23, <1>b, PlacesStay DEF vars, clientVars, kdcVars, gcksVars, histVars
<1> QED
  BY <1>1, <1>2, <1>3, <1>4, <1>5, <1>6, <1>7, <1>8, <1>9, <1>10, <1>11, <1>12, <1>13, <1>14, <1>15, <1>16, <1>17, <1>18, <1>19, <1>20, <1>21, <1>22, <1>23
     DEF Next, UserNext, ClientStep, KdcNext, GcksNext

--------------------------------------------------------------------------
(* Which actions change the queues and the receipts. *)

\* The GCKS's queue.
LEMMA BacklogChanges ==
  ASSUME [Next]_vars
  PROVE  backlog' = backlog \/ do_gcks_req \/ process_mikey_message \/ gcks_crash
BY DEF Next, UserNext, ClientStep, KdcNext, GcksNext, vars, gcksVars,
       client_exec, recreate_client_cache, obtain_credentials_cached,
       obtain_credentials_tgs, obtain_credentials_timeout, bind_listen,
       bind_fails, accept_recv, client_dies, process_tgs_req,
       gcks_lookup_fails, do_gcks_req_fails, do_gcks_req_exit,
       process_tgs_req_late_error, tgs_reply, tgs_error_reply,
       send_mikey_message_connect, send_mikey_message_send, gcks_restart

\* The clients' sockets.
LEMMA InboxChanges ==
  ASSUME [Next]_vars
  PROVE  \/ inbox' = inbox
         \/ \E c \in Client : accept_recv(c) \/ client_dies(c)
         \/ send_mikey_message_send
         \/ gcks_crash
BY DEF Next, UserNext, ClientStep, KdcNext, GcksNext, vars, clientVars,
       client_exec, recreate_client_cache, obtain_credentials_cached,
       obtain_credentials_tgs, obtain_credentials_timeout, bind_listen,
       bind_fails, process_tgs_req, gcks_lookup_fails, do_gcks_req,
       do_gcks_req_fails, do_gcks_req_exit,
       process_tgs_req_late_error, tgs_reply, tgs_error_reply,
       process_mikey_message, send_mikey_message_connect, gcks_restart

\* What has been read.
LEMMA ReceiptsChange ==
  ASSUME [Next]_vars
  PROVE  receipts' = receipts \/ \E c \in Client : accept_recv(c)
BY DEF Next, UserNext, ClientStep, KdcNext, GcksNext, vars, histVars,
       client_exec, recreate_client_cache, obtain_credentials_cached,
       obtain_credentials_tgs, obtain_credentials_timeout, bind_listen,
       bind_fails, client_dies, process_tgs_req, gcks_lookup_fails,
       do_gcks_req, do_gcks_req_fails, do_gcks_req_exit,
       process_tgs_req_late_error, tgs_reply, tgs_error_reply,
       process_mikey_message, send_mikey_message_connect,
       send_mikey_message_send, gcks_crash, gcks_restart

--------------------------------------------------------------------------
\* A job is queued once.
LEMMA BacklogOnce ==
  ASSUME TypeOK, EveryKeyAccountedFor, OnceInPlace, [Next]_vars,
         NEW i \in DOMAIN backlog', NEW j \in DOMAIN backlog',
         backlog'[i].key = backlog'[j].key
  PROVE  i = j
<1> DEFINE q == backlog
           p == backlog'
<1>1. \A m, n \in DOMAIN q : q[m].key = q[n].key => m = n
  BY DEF OnceInPlace
<1>2. q \in Seq(Job)
  BY DEF TypeOK
<1>3. i \in DOMAIN p /\ j \in DOMAIN p /\ p[i].key = p[j].key
  OBVIOUS
<1>4. CASE p = q
  BY <1>1, <1>3, <1>4
<1>5. CASE do_gcks_req
  <2> DEFINE e == [client |-> kdc.client, key |-> kdc.key]
  <2>1. p = Append(q, e) /\ e.key = kdc.key
    BY <1>5 DEF do_gcks_req, Enqueue
  <2>2. kdc.key \notin Queued
    BY <1>5, KdcKey, AccountsNow DEF do_gcks_req, Accounted
  <2>3. \A m \in DOMAIN q : q[m].key # kdc.key
    BY <2>2 DEF Queued, KeysIn
  <2> HIDE DEF p, q, e
  <2>4. /\ DOMAIN p = DOMAIN q \cup {Len(q) + 1} /\ p[Len(q) + 1] = e
        /\ \A m \in DOMAIN q : p[m] = q[m]
    BY <2>1, <1>2
  <2> QED
    BY <1>1, <1>3, <2>1, <2>3, <2>4
<1>6. CASE process_mikey_message
  <2>1. q # <<>> /\ p = Tail(q)
    BY <1>6, MikeyMessage
  <2> HIDE DEF p, q
  <2>2. \A m \in DOMAIN p : m \in Int /\ m + 1 \in DOMAIN q /\ p[m] = q[m + 1]
    BY <2>1, <1>2
  <2>3. i + 1 = j + 1 /\ i \in Int /\ j \in Int
    BY <1>1, <1>3, <2>2
  <2> QED
    BY <2>3
<1>7. CASE gcks_crash
  <2>1. p = <<>>
    BY <1>7 DEF gcks_crash
  <2> QED
    BY <1>3, <2>1
<1> QED
  BY <1>4, <1>5, <1>6, <1>7, BacklogChanges

\* A message is in one socket, once.
LEMMA InboxOnce ==
  ASSUME TypeOK, EveryKeyAccountedFor, OnceInPlace, [Next]_vars,
         NEW c \in Client, NEW d \in Client,
         NEW i \in DOMAIN inbox'[c], NEW j \in DOMAIN inbox'[d],
         inbox'[c][i].key # NoKey, inbox'[c][i].key = inbox'[d][j].key
  PROVE  c = d /\ i = j
<1> DEFINE f == inbox
           g == inbox'
<1>1. \A a, b \in Client : \A m \in DOMAIN f[a], n \in DOMAIN f[b] :
        f[a][m].key # NoKey /\ f[a][m].key = f[b][n].key => a = b /\ m = n
  BY DEF OnceInPlace, IsReal
<1>2. f \in [Client -> Seq(Msg)]
  BY DEF TypeOK
<1>3. /\ i \in DOMAIN g[c] /\ j \in DOMAIN g[d]
      /\ g[c][i].key # NoKey /\ g[c][i].key = g[d][j].key
  OBVIOUS
<1>4. CASE g = f
  BY <1>1, <1>3, <1>4
<1>5. CASE \E e \in Client : accept_recv(e) \/ client_dies(e)
  <2>1. PICK e \in Client : g = [f EXCEPT ![e] = <<>>]
    BY <1>5 DEF accept_recv, client_dies
  <2> HIDE DEF f, g
  <2>2. \A a \in Client : \A m \in DOMAIN g[a] : m \in DOMAIN f[a] /\ g[a][m] = f[a][m]
    BY <1>2, <2>1
  <2> QED
    BY <1>1, <1>3, <2>2
<1>6. CASE send_mikey_message_send \/ gcks_crash
  <2>1. gmsg # NONE => gmsg \in Msg /\ \A a \in Client : \A m \in DOMAIN f[a] : f[a][m].key # gmsg.key
    <3> SUFFICES ASSUME gmsg # NONE
                 PROVE  gmsg \in Msg /\ \A a \in Client : \A m \in DOMAIN f[a] : f[a][m].key # gmsg.key
      OBVIOUS
    <3>1. gmsg \in Msg /\ InDelivery = {gmsg.key}
      BY DEF TypeOK, InDelivery
    <3>2. gmsg.key \notin Arrived /\ gmsg.key \in Keys
      BY <3>1, AccountsNow DEF Accounted
    <3> QED
      BY <3>1, <3>2 DEF Arrived, KeysIn, Keys
  <2>2. PICK x \in Msg : /\ \A a \in Client : \A m \in DOMAIN f[a] : x.key # NoKey => f[a][m].key # x.key
                         /\ g = f \/ \E e \in Client : g = [f EXCEPT ![e] = Append(f[e], x)]
    <3>1. CASE send_mikey_message_send
      <4>1. gmsg # NONE /\ (g = f \/ (peer \in Client /\ g = [f EXCEPT ![peer] = Append(f[peer], gmsg)]))
        BY <3>1 DEF send_mikey_message_send, TypeOK
      <4> QED
        BY <2>1, <4>1
    <3>2. CASE gcks_crash
      <4>1. CASE peer = NONE
        <5>1. g = f
          BY <3>2, <4>1 DEF gcks_crash
        <5>2. [client |-> c, key |-> 0, tgk |-> 0] \in Msg
          BY DEF Msg
        <5> QED
          BY <5>1, <5>2
      <4>2. CASE peer # NONE
        <5>1. peer \in Client /\ Empty(peer) \in Msg /\ Empty(peer).key = NoKey
          BY <4>2 DEF TypeOK, Empty, Msg
        <5>2. g = [f EXCEPT ![peer] = Append(f[peer], Empty(peer))]
          BY <3>2, <4>2 DEF gcks_crash
        <5> QED
          BY <5>1, <5>2
      <4> QED
        BY <4>1, <4>2
    <3> QED
      BY <1>6, <3>1, <3>2
  <2> HIDE DEF f, g
  <2>3. CASE g = f
    BY <1>1, <1>3, <2>3
  <2>4. ASSUME NEW e \in Client, g = [f EXCEPT ![e] = Append(f[e], x)] PROVE c = d /\ i = j
    <3>1. f[e] \in Seq(Msg) /\ g[e] = Append(f[e], x) /\ \A a \in Client : a # e => g[a] = f[a]
      BY <1>2, <2>4
    <3>2. /\ DOMAIN g[e] = DOMAIN f[e] \cup {Len(f[e]) + 1} /\ g[e][Len(f[e]) + 1] = x
          /\ \A m \in DOMAIN f[e] : g[e][m] = f[e][m]
      BY <3>1
    <3>3. \A a \in Client : \A m \in DOMAIN g[a] :
            \/ a = e /\ m = Len(f[e]) + 1 /\ g[a][m] = x
            \/ m \in DOMAIN f[a] /\ g[a][m] = f[a][m]
      BY <3>1, <3>2
    <3> QED
      BY <1>1, <1>3, <2>2, <3>3
  <2> QED
    BY <2>2, <2>3, <2>4
<1> QED
  BY <1>4, <1>5, <1>6, InboxChanges

\* A message is read once.
LEMMA ReceiptsOnce ==
  ASSUME TypeOK, EveryKeyAccountedFor, OnceInPlace, [Next]_vars,
         NEW r \in receipts', NEW s \in receipts',
         r.msg.key # NoKey, r.msg.key = s.msg.key
  PROVE  r = s
<1>1. \A x, y \in receipts : x.msg.key # NoKey /\ x.msg.key = y.msg.key => x = y
  BY DEF OnceInPlace, IsReal
<1>2. CASE receipts' = receipts
  BY <1>1, <1>2
<1>3. ASSUME NEW c \in Client, accept_recv(c) PROVE r = s
  <2> DEFINE m == Head(inbox[c])
             t == [client |-> c, run |-> run[c], msg |-> m,
                   ok |-> Authenticates(m, creds[c])]
  <2>1. receipts' = receipts \cup {t} /\ t.msg = m
    BY <1>3 DEF accept_recv
  <2>2. m.key # NoKey => m.key \in Arrived
    BY <1>3, FirstIsRead DEF accept_recv, Arrived
  <2>3. m.key # NoKey => m.key \notin Read
    BY <2>2, AccountsNow DEF Accounted
  <2> HIDE DEF t, m
  <2>4. \A x \in receipts : x.msg.key # NoKey => x.msg.key \in Read
    BY DEF Read
  <2> QED
    BY <1>1, <2>1, <2>3, <2>4
<1> QED
  BY <1>2, <1>3, ReceiptsChange

LEMMA OnceStep ==
  ASSUME TypeOK, EveryKeyAccountedFor, OnceInPlace, [Next]_vars
  PROVE  OnceInPlace'
BY BacklogOnce, InboxOnce, ReceiptsOnce DEF OnceInPlace, IsReal

\* A group key is made under a key that has left the queue.
LEMMA LeftStep ==
  ASSUME TypeOK, EveryKeyAccountedFor, OnceInPlace, MadeHasLeft, [Next]_vars
  PROVE  MadeHasLeft'
<1> DEFINE left == InDelivery \cup Arrived \cup Read \cup lost
           gone == InDelivery' \cup Arrived' \cup Read' \cup lost'
<1>1. left \subseteq gone
  BY AccountsStep
<1>2. \A n \in DOMAIN made : made[n].key \in gone
  BY <1>1 DEF MadeHasLeft
<1> SUFFICES ASSUME NEW n \in DOMAIN made' PROVE made'[n].key \in gone
  BY DEF MadeHasLeft
<1>3. CASE made' = made
  BY <1>2, <1>3
<1>4. CASE process_mikey_message
  <2>1. /\ made \in Seq(Msg) /\ gmsg' \in Msg /\ made' = Append(made, gmsg') /\ gmsg' # NONE
    BY <1>4, MikeyMessage
  <2>2. (n \in DOMAIN made /\ made'[n] = made[n]) \/ made'[n] = gmsg'
    BY <2>1
  <2>3. gmsg'.key \in InDelivery'
    BY <2>1 DEF InDelivery
  <2> QED
    BY <1>2, <2>2, <2>3
<1> QED
  BY <1>3, <1>4, MadeGrows

--------------------------------------------------------------------------
\* The inductive invariant holds from the first state on.
THEOREM InductiveInvariant == Spec => []IInv
<1>1. Init => IInv
  <2> SUFFICES ASSUME Init PROVE IInv
    OBVIOUS
  <2>1. TypeOK
    BY DEF Init, TypeOK
  <2>2. Ownership
    BY DEF Init, Ownership, TicketsOwned, JobsOwned, MadeOwned, MessagesMade, VerdictsRight
  <2>3. EveryKeyAccountedFor
    <3>1. Keys = {} /\ Undecided = {} /\ InDelivery = {} /\ Read = {} /\ lost = {}
      BY DEF Init, Keys, Undecided, InDelivery, Read
    <3>2. Queued = {} /\ Arrived = {}
      BY KeysOfNone DEF Init, Queued, Arrived
    <3> QED
      BY <3>1, <3>2, AccountsNow DEF Accounted
  <2>4. OnceInPlace
    BY DEF Init, OnceInPlace
  <2>5. MadeHasLeft
    BY DEF Init, MadeHasLeft
  <2> QED
    BY <2>1, <2>2, <2>3, <2>4, <2>5 DEF IInv
<1>2. TypeOK /\ TypeOK' /\ IInv /\ [Next]_vars => IInv'
  BY OwnershipStep, AccountsStep, OnceStep, LeftStep DEF IInv
<1> QED
  BY <1>1, <1>2, TypeCorrect, PTL DEF Spec

\* Every session key is in one place: no crash, refused connection or closed
\* socket duplicates a message or makes one vanish unrecorded.
THEOREM NothingDuplicatedOrVanished == Spec => []EveryKeyAccountedFor
<1>1. IInv => EveryKeyAccountedFor
  BY DEF IInv
<1> QED
  BY <1>1, InductiveInvariant, PTL

\* No message is accepted twice, by one client or by two.
LEMMA OneReceipt ==
  ASSUME Ownership, OnceInPlace, NEW r \in Accepted, NEW s \in Accepted,
         r.msg.tgk = s.msg.tgk
  PROVE  r = s
<1>1. r \in receipts /\ s \in receipts /\ r.ok /\ s.ok
  BY DEF Accepted
<1>2. IsReal(r.msg) /\ IsReal(s.msg)
  BY <1>1 DEF Ownership, VerdictsRight, IsIssued, Keys, IsReal
<1>3. r.msg = made[r.msg.tgk] /\ s.msg = made[s.msg.tgk]
  BY <1>1, <1>2 DEF Ownership, VerdictsRight, IsMade
<1>4. r.msg.key = s.msg.key
  BY <1>3
<1> QED
  BY <1>1, <1>2, <1>4 DEF OnceInPlace

\* A group key is accepted at most once.
THEOREM GroupKeyAcceptedOnce == Spec => []AcceptedOnce
<1>1. IInv => AcceptedOnce
  BY OneReceipt DEF IInv, AcceptedOnce
<1> QED
  BY <1>1, InductiveInvariant, PTL

--------------------------------------------------------------------------
(* The order of service. *)

Before(S, T) == \A k \in S, n \in T : k < n

\* The places a key passes on its way to a client, the oldest first, and the
\* order in the queues.
InOrder ==
  /\ Before(Arrived, InDelivery \cup Queued \cup Undecided)
  /\ Before(InDelivery, Queued \cup Undecided)
  /\ Before(Queued, Undecided)
  /\ \A i, j \in DOMAIN backlog : i < j => backlog[i].key < backlog[j].key
  /\ \A c \in Client : \A i, j \in DOMAIN inbox[c] :
       i < j /\ inbox[c][i].key # NoKey /\ inbox[c][j].key # NoKey
         => inbox[c][i].key < inbox[c][j].key

\* The message in the GCKS's hands.
LEMMA GmsgChanges ==
  ASSUME [Next]_vars
  PROVE  \/ gmsg' = gmsg
         \/ process_mikey_message \/ send_mikey_message_send \/ gcks_crash
BY DEF Next, UserNext, ClientStep, KdcNext, GcksNext, vars, gcksVars,
       client_exec, recreate_client_cache, obtain_credentials_cached,
       obtain_credentials_tgs, obtain_credentials_timeout, bind_listen,
       bind_fails, accept_recv, client_dies, process_tgs_req,
       gcks_lookup_fails, do_gcks_req, do_gcks_req_fails,
       do_gcks_req_exit, process_tgs_req_late_error, tgs_reply,
       tgs_error_reply, send_mikey_message_connect, gcks_restart

\* The key the KDC has not decided about.
LEMMA UndecidedChanges ==
  ASSUME [Next]_vars
  PROVE  Undecided' \subseteq Undecided \/ \E r \in requests : process_tgs_req(r)
<1>1. (kpc' = kpc /\ kdc' = kdc) \/ kpc' # "forward" \/ \E r \in requests : process_tgs_req(r)
  BY DEF Next, UserNext, ClientStep, KdcNext, GcksNext, vars, kdcVars, KdcDone,
       client_exec, recreate_client_cache, obtain_credentials_cached,
       obtain_credentials_tgs, obtain_credentials_timeout, bind_listen,
       bind_fails, accept_recv, client_dies, gcks_lookup_fails, do_gcks_req,
       do_gcks_req_fails, do_gcks_req_exit,
       process_tgs_req_late_error, tgs_reply, tgs_error_reply,
       process_mikey_message, send_mikey_message_connect,
       send_mikey_message_send, gcks_crash, gcks_restart
<1> QED
  BY <1>1 DEF Undecided

\* A step keeps the order of the places.
LEMMA PlacesInOrder ==
  ASSUME TypeOK, EveryKeyAccountedFor, OnceInPlace, InOrder, [Next]_vars
  PROVE  /\ Before(Arrived', InDelivery' \cup Queued' \cup Undecided')
         /\ Before(InDelivery', Queued' \cup Undecided')
         /\ Before(Queued', Undecided')
<1> DEFINE Goal == /\ Before(Arrived', InDelivery' \cup Queued' \cup Undecided')
                   /\ Before(InDelivery', Queued' \cup Undecided')
                   /\ Before(Queued', Undecided')
<1>a. /\ Before(Arrived, InDelivery \cup Queued \cup Undecided)
      /\ Before(InDelivery, Queued \cup Undecided)
      /\ Before(Queued, Undecided)
  BY DEF InOrder
<1>1. ASSUME NEW r \in requests, process_tgs_req(r) PROVE Goal
  <2>1. owner' = Append(owner, r.client) /\ owner \in Seq(Client) /\ r.client \in Client
    BY <1>1 DEF process_tgs_req, TypeOK, Request
  <2>2. Undecided' = {Len(owner')} /\ \A k \in Keys : k < Len(owner')
    BY <1>1, <2>1 DEF process_tgs_req, Undecided, Keys
  <2>3. Queued' = Queued /\ InDelivery' = InDelivery /\ Arrived' = Arrived
    BY <1>1, PlacesStay DEF process_tgs_req, clientVars, gcksVars
  <2>4. Queued \cup InDelivery \cup Arrived \subseteq Keys
    BY AccountsNow DEF Accounted
  <2> QED
    BY <1>a, <2>2, <2>3, <2>4 DEF Before
<1>2. CASE do_gcks_req
  <2>1. Undecided = {kdc.key} /\ Undecided' = {}
    BY <1>2, KdcKey DEF do_gcks_req, Undecided
  <2>2. Queued' = Queued \cup {kdc.key}
    <3> DEFINE j == [client |-> kdc.client, key |-> kdc.key]
    <3>1. j \in Job /\ backlog \in Seq(Job)
      BY <1>2, KdcKey DEF do_gcks_req, TypeOK, Ticket, Job
    <3>2. KeysIn(Append(backlog, j)) = KeysIn(backlog) \cup {j.key}
      BY <3>1, KeysOfAppend
    <3> QED
      BY <1>2, <3>2 DEF do_gcks_req, Enqueue, Queued
  <2>3. InDelivery' = InDelivery /\ Arrived' = Arrived
    BY <1>2, PlacesStay DEF do_gcks_req, clientVars
  <2> QED
    BY <1>a, <2>1, <2>2, <2>3 DEF Before
<1>3. CASE process_mikey_message
  <2>1. backlog # <<>> /\ backlog' = Tail(backlog) /\ gmsg' # NONE /\ gmsg'.key = backlog[1].key
    BY <1>3, MikeyMessage
  <2>2. Queued = {backlog[1].key} \cup Queued'
    BY <2>1, FirstIsServed DEF Queued
  <2>3. InDelivery' = {backlog[1].key}
    BY <2>1 DEF InDelivery
  <2>4. \A k \in Queued' : backlog[1].key < k
    <3> DEFINE q == backlog
    <3>1. q \in Seq(Job) /\ q # <<>> /\ \A i, j \in DOMAIN q : i < j => q[i].key < q[j].key
      BY <2>1 DEF TypeOK, InOrder
    <3>2. \A i \in DOMAIN Tail(q) : 1 \in DOMAIN q /\ i + 1 \in DOMAIN q /\ 1 < i + 1 /\ Tail(q)[i] = q[i + 1]
      BY <3>1
    <3> HIDE DEF q
    <3>3. \A i \in DOMAIN Tail(q) : q[1].key < Tail(q)[i].key
      BY <3>1, <3>2
    <3> QED
      BY <3>3, <2>1 DEF q, Queued, KeysIn
  <2>5. Undecided' = Undecided /\ Arrived' = Arrived
    BY <1>3, PlacesStay DEF process_mikey_message, clientVars, kdcVars
  <2> QED
    BY <1>a, <2>2, <2>3, <2>4, <2>5 DEF Before
<1>4. CASE send_mikey_message_send
  <2>1. gmsg \in Msg /\ gmsg # NONE /\ InDelivery = {gmsg.key} /\ InDelivery' = {}
    BY <1>4 DEF send_mikey_message_send, TypeOK, InDelivery
  <2>2. Undecided' = Undecided /\ Queued' = Queued
    BY <1>4, PlacesStay DEF send_mikey_message_send, kdcVars
  <2>3. Arrived' \subseteq Arrived \cup {gmsg.key}
    <3>1. CASE peer # NONE
      <4>1. peer \in Client /\ inbox' = [inbox EXCEPT ![peer] = Append(inbox[peer], gmsg)]
        BY <1>4, <3>1 DEF send_mikey_message_send, TypeOK
      <4> QED
        BY <2>1, <4>1, MessageArrives
    <3>2. CASE peer = NONE
      BY <1>4, <3>2, PlacesStay DEF send_mikey_message_send
    <3> QED
      BY <3>1, <3>2
  <2> QED
    BY <1>a, <2>1, <2>2, <2>3 DEF Before
<1>5. ASSUME ~ \E r \in requests : process_tgs_req(r),
             ~do_gcks_req, ~process_mikey_message, ~send_mikey_message_send
      PROVE  Goal
  <2>1. Undecided' \subseteq Undecided
    BY <1>5, UndecidedChanges
  <2>2. Queued' \subseteq Queued
    BY <1>5, BacklogChanges, KeysOfNone DEF gcks_crash, Queued
  <2>3. InDelivery' \subseteq InDelivery
    BY <1>5, GmsgChanges DEF gcks_crash, InDelivery
  <2>4. Arrived' \subseteq Arrived
    <3>1. CASE inbox' = inbox
      BY <3>1, PlacesStay
    <3>2. ASSUME NEW c \in Client, accept_recv(c) \/ client_dies(c) PROVE Arrived' \subseteq Arrived
      BY <3>2, SocketCloses DEF accept_recv, client_dies
    <3>3. CASE gcks_crash
      <4>1. CASE peer # NONE
        <5>1. /\ peer \in Client /\ Empty(peer) \in Msg /\ Empty(peer).key = NoKey
              /\ inbox' = [inbox EXCEPT ![peer] = Append(inbox[peer], Empty(peer))]
          BY <3>3, <4>1 DEF gcks_crash, TypeOK, Empty, Msg
        <5>2. Arrived' = Arrived \cup ({Empty(peer).key} \ {NoKey})
          BY <5>1, MessageArrives
        <5> QED
          BY <5>1, <5>2
      <4>2. CASE peer = NONE
        BY <3>3, <4>2, PlacesStay DEF gcks_crash
      <4> QED
        BY <4>1, <4>2
    <3> QED
      BY <1>5, <3>1, <3>2, <3>3, InboxChanges
  <2> QED
    BY <1>a, <2>1, <2>2, <2>3, <2>4 DEF Before
<1> QED
  BY <1>1, <1>2, <1>3, <1>4, <1>5
\* The GCKS's queue stays in order.
LEMMA BacklogInOrder ==
  ASSUME TypeOK, InOrder, [Next]_vars,
         NEW i \in DOMAIN backlog', NEW j \in DOMAIN backlog', i < j
  PROVE  backlog'[i].key < backlog'[j].key
<1> DEFINE q == backlog
           p == backlog'
<1> SUFFICES p[i].key < p[j].key
  OBVIOUS
<1>1. \A m, n \in DOMAIN q : m < n => q[m].key < q[n].key
  BY DEF InOrder
<1>2. q \in Seq(Job)
  BY DEF TypeOK
<1>3. i \in DOMAIN p /\ j \in DOMAIN p /\ i < j
  OBVIOUS
<1>4. CASE p = q
  BY <1>1, <1>3, <1>4
<1>5. CASE do_gcks_req
  <2> DEFINE e == [client |-> kdc.client, key |-> kdc.key]
  <2>1. p = Append(q, e) /\ e.key = kdc.key
    BY <1>5 DEF do_gcks_req, Enqueue
  <2>2. \A m \in DOMAIN q : q[m].key < kdc.key
    BY <1>5, KdcKey DEF do_gcks_req, InOrder, Before, Queued, KeysIn
  <2> HIDE DEF p, q, e
  <2>3. \A m \in DOMAIN p : /\ m \in Int
                            /\ \/ m \in DOMAIN q /\ p[m] = q[m] /\ m <= Len(q)
                               \/ m = Len(q) + 1 /\ p[m] = e
    BY <2>1, <1>2
  <2>4. i \in DOMAIN q /\ p[i] = q[i]
    <3>1. Len(q) \in Nat
      BY <1>2
    <3> QED
      BY <1>3, <2>3, <3>1
  <2> QED
    BY <1>1, <1>3, <2>1, <2>2, <2>3, <2>4
<1>6. CASE process_mikey_message
  <2>1. q # <<>> /\ p = Tail(q)
    BY <1>6, MikeyMessage
  <2> HIDE DEF p, q
  <2>2. \A m \in DOMAIN p : m \in Int /\ m + 1 \in DOMAIN q /\ p[m] = q[m + 1]
    BY <2>1, <1>2
  <2>3. i + 1 < j + 1
    BY <1>3, <2>2
  <2> QED
    BY <1>1, <1>3, <2>2, <2>3
<1>7. CASE gcks_crash
  <2>1. p = <<>>
    BY <1>7 DEF gcks_crash
  <2> QED
    BY <1>3, <2>1
<1> QED
  BY <1>4, <1>5, <1>6, <1>7, BacklogChanges

\* So does every socket's queue.
LEMMA InboxInOrder ==
  ASSUME TypeOK, InOrder, [Next]_vars, NEW c \in Client,
         NEW i \in DOMAIN inbox'[c], NEW j \in DOMAIN inbox'[c], i < j,
         inbox'[c][i].key # NoKey, inbox'[c][j].key # NoKey
  PROVE  inbox'[c][i].key < inbox'[c][j].key
<1> DEFINE q == inbox[c]
           p == inbox'[c]
<1> SUFFICES p[i].key < p[j].key
  OBVIOUS
<1>1. \A m, n \in DOMAIN q : m < n /\ q[m].key # NoKey /\ q[n].key # NoKey => q[m].key < q[n].key
  BY DEF InOrder
<1>2. q \in Seq(Msg)
  BY DEF TypeOK
<1>3. /\ i \in DOMAIN p /\ j \in DOMAIN p /\ i < j
      /\ p[i].key # NoKey /\ p[j].key # NoKey
  OBVIOUS
<1>4. CASE p = q
  BY <1>1, <1>3, <1>4
<1>5. ASSUME NEW e \in Client, accept_recv(e) \/ client_dies(e) PROVE p = q \/ p = <<>>
  BY <1>5 DEF accept_recv, client_dies, TypeOK
<1>6. CASE p = <<>>
  BY <1>3, <1>6
<1>7. ASSUME NEW x, x.key # NoKey => \A m \in DOMAIN q : q[m].key # NoKey => q[m].key < x.key,
             x \in Msg, p = Append(q, x)
      PROVE  p[i].key < p[j].key
  <2> HIDE DEF p, q
  <2>1. \A m \in DOMAIN p : /\ m \in Int
                            /\ \/ m \in DOMAIN q /\ p[m] = q[m] /\ m <= Len(q)
                               \/ m = Len(q) + 1 /\ p[m] = x
    BY <1>2, <1>7
  <2>2. i \in DOMAIN q /\ p[i] = q[i]
    <3>1. Len(q) \in Nat
      BY <1>2
    <3> QED
      BY <1>3, <2>1, <3>1
  <2> QED
    BY <1>1, <1>3, <1>7, <2>1, <2>2
<1>8. CASE send_mikey_message_send
  <2>1. gmsg \in Msg /\ InDelivery = {gmsg.key}
    BY <1>8 DEF send_mikey_message_send, TypeOK, InDelivery
  <2>2. \A m \in DOMAIN q : q[m].key # NoKey => q[m].key < gmsg.key
    BY <2>1 DEF InOrder, Before, Arrived, KeysIn
  <2>3. p = q \/ p = Append(q, gmsg)
    BY <1>8 DEF send_mikey_message_send, TypeOK
  <2> HIDE DEF p, q
  <2> QED
    BY <1>4, <1>7, <2>1, <2>2, <2>3
<1>9. CASE gcks_crash
  <2>1. p = q \/ p = Append(q, Empty(c))
    <3>1. CASE peer = NONE
      <4>1. inbox' = inbox
        BY <3>1, <1>9 DEF gcks_crash
      <4> QED
        BY <4>1
    <3>2. CASE peer # NONE
      <4>1. inbox \in [Client -> Seq(Msg)]
        BY DEF TypeOK
      <4>2. inbox' = [inbox EXCEPT ![peer] = Append(inbox[peer], Empty(peer))]
        BY <3>2, <1>9 DEF gcks_crash
      <4>3. CASE peer = c
        BY <4>1, <4>2, <4>3
      <4>4. CASE peer # c
        BY <4>1, <4>2, <4>4
      <4> QED
        BY <4>3, <4>4
    <3> QED
      BY <3>1, <3>2
  <2>2. Empty(c) \in Msg /\ Empty(c).key = NoKey
    BY DEF Empty, Msg
  <2> HIDE DEF p, q
  <2> QED
    BY <1>4, <1>7, <2>1, <2>2
<1> QED
  BY <1>4, <1>5, <1>6, <1>8, <1>9, InboxChanges

\* The order is kept.
LEMMA OrderStep ==
  ASSUME TypeOK, EveryKeyAccountedFor, OnceInPlace, InOrder, [Next]_vars
  PROVE  InOrder'
BY PlacesInOrder, BacklogInOrder, InboxInOrder DEF InOrder, Before

LEMMA OrderInvariant == Spec => []InOrder
<1>1. Init => InOrder
  <2> SUFFICES ASSUME Init PROVE InOrder
    OBVIOUS
  <2>1. InDelivery = {} /\ Arrived = {} /\ Queued = {} /\ Undecided = {}
    BY KeysOfNone DEF Init, InDelivery, Arrived, Queued, Undecided
  <2> QED
    BY <2>1 DEF Init, InOrder, Before
<1>2. IInv /\ InOrder /\ [Next]_vars => InOrder'
  BY OrderStep DEF IInv
<1> QED
  BY <1>1, <1>2, InductiveInvariant, PTL DEF Spec

\* The concatenation of two increasing sequences of keys, the second younger.
Increasing(s) == \A i, j \in DOMAIN s : i < j => s[i] < s[j]
ValuesOf(s)   == {s[i] : i \in DOMAIN s}

LEMMA Concatenation ==
  ASSUME NEW s \in Seq(Nat), NEW t \in Seq(Nat), Increasing(s), Increasing(t),
         Before(ValuesOf(s), ValuesOf(t))
  PROVE  /\ s \o t \in Seq(Nat)
         /\ Increasing(s \o t)
         /\ ValuesOf(s \o t) = ValuesOf(s) \cup ValuesOf(t)
<1> DEFINE u == s \o t
<1>1. /\ u \in Seq(Nat) /\ Len(s) \in Nat
      /\ \A i \in DOMAIN s : i \in DOMAIN u /\ u[i] = s[i] /\ i \in Int /\ i <= Len(s)
      /\ \A i \in DOMAIN t : i \in Int /\ i + Len(s) \in DOMAIN u /\ u[i + Len(s)] = t[i]
  OBVIOUS
<1>2. \A i \in DOMAIN u : /\ i \in Int
                          /\ \/ i \in DOMAIN s /\ u[i] = s[i]
                             \/ i > Len(s) /\ i - Len(s) \in DOMAIN t /\ u[i] = t[i - Len(s)]
  OBVIOUS
<1> HIDE DEF u
<1>3. ValuesOf(u) = ValuesOf(s) \cup ValuesOf(t)
  <2>1. \A v \in ValuesOf(s) \cup ValuesOf(t) : v \in ValuesOf(u)
    BY <1>1 DEF ValuesOf
  <2>2. \A v \in ValuesOf(u) : v \in ValuesOf(s) \cup ValuesOf(t)
    BY <1>2 DEF ValuesOf
  <2> QED
    BY <2>1, <2>2
<1>4. ASSUME NEW i \in DOMAIN u, NEW j \in DOMAIN u, i < j PROVE u[i] < u[j]
  <2>1. CASE i \in DOMAIN s /\ j \in DOMAIN s
    BY <1>1, <1>4, <2>1 DEF Increasing
  <2>2. CASE i \in DOMAIN s /\ j \notin DOMAIN s
    BY <1>1, <1>2, <2>2 DEF Before, ValuesOf
  <2>3. CASE i \notin DOMAIN s
    <3>1. /\ i - Len(s) \in DOMAIN t /\ u[i] = t[i - Len(s)] /\ i > Len(s)
          /\ i \in Int /\ j \in Int
      BY <1>2, <2>3
    <3>2. j - Len(s) \in DOMAIN t /\ u[j] = t[j - Len(s)]
      BY <1>1, <1>2, <1>4, <3>1
    <3>3. i - Len(s) < j - Len(s)
      BY <1>1, <1>4, <3>1
    <3> QED
      BY <3>1, <3>2, <3>3 DEF Increasing
  <2> QED
    BY <2>1, <2>2, <2>3
<1> QED
  BY <1>1, <1>3, <1>4 DEF u, Increasing

\* The GCKS serves clients in the order the KDC served them.
THEOREM ServiceInOrder == Spec => []ServedInOrder
<1>1. TypeOK /\ InOrder => ServedInOrder
  <2> SUFFICES ASSUME TypeOK, InOrder PROVE ServedInOrder
    OBVIOUS
  <2> DEFINE G == IF gmsg = NONE THEN <<>> ELSE <<gmsg.key>>
             B == [i \in DOMAIN backlog |-> backlog[i].key]
             U == IF kpc = "forward" THEN <<kdc.key>> ELSE <<>>
  <2>1. G \in Seq(Nat) /\ Increasing(G) /\ ValuesOf(G) = InDelivery
    BY DEF TypeOK, Msg, Increasing, ValuesOf, InDelivery
  <2>2. B \in Seq(Nat) /\ Increasing(B) /\ ValuesOf(B) = Queued
    <3>1. backlog \in Seq(Job)
      BY DEF TypeOK
    <3>2. B \in Seq(Nat)
      <4>1. ASSUME NEW i \in 1 .. Len(backlog) PROVE backlog[i].key \in Nat
        <5>1. backlog[i] \in Job
          BY <3>1
        <5> QED
          BY <5>1 DEF Job
      <4>2. DOMAIN backlog = 1 .. Len(backlog) /\ Len(backlog) \in Nat
        BY <3>1
      <4>3. B \in [1 .. Len(backlog) -> Nat]
        BY <4>1, <4>2
      <4> HIDE DEF B
      <4> QED
        BY <4>2, <4>3
    <3> QED
      BY <3>2 DEF InOrder, Increasing, ValuesOf, Queued, KeysIn
  <2>3. U \in Seq(Nat) /\ Increasing(U) /\ ValuesOf(U) = Undecided
    BY KdcKey DEF Ticket, Increasing, ValuesOf, Undecided
  <2>4. Pipeline = (G \o B) \o U
    BY Zenon DEF Pipeline
  <2> HIDE DEF G, B, U
  <2>5. /\ G \o B \in Seq(Nat) /\ Increasing(G \o B)
        /\ ValuesOf(G \o B) = InDelivery \cup Queued
    <3>1. Before(ValuesOf(G), ValuesOf(B))
      BY <2>1, <2>2 DEF InOrder, Before
    <3> QED
      BY <2>1, <2>2, <3>1, Concatenation
  <2>6. /\ Increasing(Pipeline)
        /\ ValuesOf(Pipeline) = InDelivery \cup Queued \cup Undecided
    <3>1. Before(ValuesOf(G \o B), ValuesOf(U))
      BY <2>3, <2>5 DEF InOrder, Before
    <3> QED
      BY <2>3, <2>4, <2>5, <3>1, Concatenation
  <2>7. \A k \in Arrived : \A i \in DOMAIN Pipeline : k < Pipeline[i]
    BY <2>6 DEF InOrder, Before, ValuesOf
  <2> QED
    BY <2>6, <2>7 DEF ServedInOrder, Increasing, InOrder
<1> QED
  BY <1>1, TypeCorrect, OrderInvariant, PTL

--------------------------------------------------------------------------
(* The abstract key transport: which of its steps a step of KM2 is. *)

\* The session keys the group keys were made under, and who accepted which.
Wrapped  == [n \in DOMAIN made |-> made[n].key]
TakenBy(R) == {[tgk |-> r.msg.tgk, client |-> r.client] : r \in R}

\* The KDC's step.
LEMMA SessionKeyIssued ==
  ASSUME TypeOK, NEW r \in requests, process_tgs_req(r)
  PROVE  \E c \in Client : Transport!IssueSessionKey(c)
<1>1. /\ r.client \in Client /\ owner' = Append(owner, r.client)
      /\ made' = made /\ receipts' = receipts
  BY DEF process_tgs_req, TypeOK, Request, gcksVars, histVars
<1>2. Transport!IssueSessionKey(r.client)
  BY <1>1 DEF Transport!IssueSessionKey, Accepted
<1> QED
  BY <1>1, <1>2

\* The GCKS's step: the session key is one it has not used.
LEMMA GroupKeyWrapped ==
  ASSUME IInv, process_mikey_message
  PROVE  \E k \in DOMAIN owner : Transport!WrapGroupKey(k)
<1> DEFINE k == backlog[1].key
<1>1. /\ backlog \in Seq(Job) /\ backlog # <<>> /\ gmsg'.key = k
      /\ made \in Seq(Msg) /\ gmsg' \in Msg /\ made' = Append(made, gmsg')
  BY MikeyMessage DEF IInv
<1>2. 1 \in DOMAIN backlog
  BY <1>1
<1>3. k \in Queued /\ k \in DOMAIN owner
  <2>1. k \in Keys
    BY <1>2 DEF IInv, Ownership, JobsOwned, IsIssued
  <2>2. Keys = DOMAIN owner
    BY DEF Keys, IInv, TypeOK
  <2> QED
    BY <1>2, <2>1, <2>2 DEF Queued, KeysIn
<1>4. \A n \in DOMAIN made : made[n].key # k
  BY <1>3, AccountsNow DEF IInv, MadeHasLeft, Accounted
<1>5. owner' = owner /\ receipts' = receipts
  BY DEF process_mikey_message, kdcVars, histVars
<1> HIDE DEF k
<1>6. Wrapped' = Append(Wrapped, k)
  <2>1. /\ DOMAIN made = 1 .. Len(made) /\ Len(made) \in Nat
        /\ DOMAIN made' = 1 .. Len(made) + 1
        /\ \A n \in 1 .. Len(made) : made'[n] = made[n]
        /\ made'[Len(made) + 1] = gmsg'
    BY <1>1
  <2>2. Wrapped = [n \in 1 .. Len(made) |-> made[n].key]
    BY <2>1 DEF Wrapped
  <2>3. Wrapped' = [n \in 1 .. Len(made) + 1 |-> IF n = Len(made) + 1 THEN k ELSE made[n].key]
    BY <1>1, <2>1 DEF Wrapped
  <2>4. Append(Wrapped, k) = [n \in 1 .. Len(made) + 1 |-> IF n = Len(made) + 1 THEN k ELSE Wrapped[n]]
    BY <2>1, <2>2
  <2> QED
    BY <2>1, <2>2, <2>3, <2>4
<1>7. Transport!WrapGroupKey(k)
  BY <1>4, <1>5, <1>6 DEF Transport!WrapGroupKey, Wrapped, Accepted
<1> QED
  BY <1>3, <1>7 DEF Transport!WrapGroupKey

\* The client's step: the group key is its own, and nobody's yet.
LEMMA GroupKeyAccepted ==
  ASSUME IInv, Ownership', NEW c \in Client, accept_recv(c)
  PROVE  \/ \E g \in DOMAIN made : Transport!AcceptGroupKey(g)
         \/ UNCHANGED Transport!gktVars
<1> DEFINE m == Head(inbox[c])
           ok == Authenticates(m, creds[c])
           r == [client |-> c, run |-> run[c], msg |-> m, ok |-> ok]
<1>1. owner' = owner /\ made' = made
  BY DEF accept_recv, kdcVars
<1>2. receipts' = receipts \cup {r} /\ r.msg = m /\ r.client = c /\ r.ok = ok
  BY DEF accept_recv
<1> HIDE DEF r
<1>3. CASE ~ok
  <2>1. Accepted' = Accepted
    BY <1>2, <1>3 DEF Accepted
  <2> QED
    BY <1>1, <2>1 DEF Transport!gktVars
<1>4. CASE ok
  <2>1. Accepted' = Accepted \cup {r}
    BY <1>2, <1>4 DEF Accepted
  <2>2. m.key \in Arrived
    BY <1>4, FirstIsRead DEF accept_recv, Authenticates, Arrived, IInv
  <2>3. m.key \notin Read
    BY <2>2, AccountsNow DEF IInv, Accounted
  <2>4. m.tgk \in DOMAIN made /\ m = made[m.tgk] /\ owner[m.key] = c
    <3>1. r \in receipts'
      BY <1>2
    <3>2. /\ r.msg.key # NoKey => r.msg.tgk \in DOMAIN made' /\ r.msg = made'[r.msg.tgk]
          /\ r.ok => owner'[r.msg.key] = r.client
      BY <3>1 DEF Ownership, VerdictsRight, IsReal, IsMade, IsIssued
    <3>3. m.key # NoKey
      BY <1>4 DEF Authenticates
    <3> QED
      BY <1>1, <1>2, <1>4, <3>2, <3>3
  <2>5. ASSUME NEW s \in Accepted, s.msg.tgk = m.tgk PROVE FALSE
    <3>1. s \in receipts /\ s.ok
      BY DEF Accepted
    <3>2. s.msg.key # NoKey
      BY <3>1 DEF IInv, Ownership, VerdictsRight, IsIssued, Keys
    <3>3. s.msg = made[s.msg.tgk]
      BY <3>1, <3>2 DEF IInv, Ownership, VerdictsRight, IsReal, IsMade
    <3> QED
      BY <2>3, <2>4, <2>5, <3>1, <3>2, <3>3 DEF Read
  <2> HIDE DEF m, ok
  <2>6. TakenBy(Accepted') = TakenBy(Accepted) \cup {[tgk |-> m.tgk, client |-> c]}
    BY <1>2, <2>1 DEF TakenBy
  <2>7. owner[Wrapped[m.tgk]] = c
    BY <2>4 DEF Wrapped
  <2>8. \A a \in TakenBy(Accepted) : a.tgk # m.tgk
    BY <2>5 DEF TakenBy
  <2>9. Transport!AcceptGroupKey(m.tgk)
    BY <1>1, <2>6, <2>7, <2>8 DEF Transport!AcceptGroupKey, TakenBy, Wrapped
  <2> QED
    BY <2>4, <2>9 DEF Transport!AcceptGroupKey
<1> QED
  BY <1>3, <1>4

\* KM2 implements the abstract key transport.
THEOREM KeyTransportImplemented == Spec => ImplementsTransport
<1>1. Init => Transport!GktInit
  BY DEF Init, Transport!GktInit, Accepted
<1>2. IInv /\ Ownership' /\ [Next]_vars => [Transport!GktNext]_(Transport!gktVars)
  <2> SUFFICES ASSUME IInv, Ownership', [Next]_vars
               PROVE  Transport!GktNext \/ UNCHANGED Transport!gktVars
    OBVIOUS
  <2>1. ASSUME NEW r \in requests, process_tgs_req(r) PROVE Transport!GktNext
    BY <2>1, SessionKeyIssued DEF Transport!GktNext, IInv
  <2>2. CASE process_mikey_message
    BY <2>2, GroupKeyWrapped DEF Transport!GktNext
  <2>3. ASSUME NEW c \in Client, accept_recv(c)
        PROVE  Transport!GktNext \/ UNCHANGED Transport!gktVars
    <3>1. CASE UNCHANGED Transport!gktVars
      BY <3>1
    <3>2. ASSUME NEW g \in DOMAIN made, Transport!AcceptGroupKey(g) PROVE Transport!GktNext
      BY <3>2 DEF Transport!GktNext
    <3> QED
      BY <2>3, <3>1, <3>2, GroupKeyAccepted
  <2>4. CASE owner' = owner /\ made' = made /\ receipts' = receipts
    BY <2>4 DEF Transport!gktVars, Accepted
  <2> QED
    BY <2>1, <2>2, <2>3, <2>4, OwnerGrows, MadeGrows, ReceiptsChange
<1> QED
  BY <1>1, <1>2, InductiveInvariant, OwnershipInvariant, PTL
     DEF Spec, ImplementsTransport, Transport!GktSpec

--------------------------------------------------------------------------
(***************************************************************************)
(* KM2 as the test programs drive it, for every set of clients and hosts,  *)
(* every number of runs and every length of the queues: when nothing       *)
(* fails, a client that listens is called, what it reads authenticates,    *)
(* and nothing is left for the client after it.                            *)
(*                                                                         *)
(* A KDC whose connect() to a full queue times out is no exception: there  *)
(* is nobody to fill the queue.                                            *)
(***************************************************************************)
NothingFails == Fault \subseteq {"connect_timeout"}

--------------------------------------------------------------------------
(* The stages of the one client that runs. *)

KdcIdle      == kpc = "idle" /\ requests = {}
GcksIdle     == gpc = "accept" /\ backlog = <<>> /\ gmsg = NONE /\ peer = NONE
SocketsEmpty == \A d \in Client : inbox[d] = <<>>

\* The KDC works on c's request.
Serves(c) == requests = {} /\ kdc.client = c /\ kdc.run = run[c] /\ kdc.key # NoKey

\* The GCKS has the session key k of c, and has not reached c.
Holds(c, k) ==
  /\ peer = NONE
  /\ \/ gpc = "accept" /\ gmsg = NONE /\ backlog = <<[client |-> c, key |-> k]>>
     \/ gpc = "retry" /\ backlog = <<>> /\ gmsg.client = c /\ gmsg.key = k

\* It has.
Calls(c, k) == gpc = "send" /\ backlog = <<>> /\ peer = c /\ gmsg.key = k

\* Its message is in c's socket.
Called(c, k) ==
  /\ GcksIdle
  /\ \A d \in Client : d # c => inbox[d] = <<>>
  /\ Len(inbox[c]) = 1 /\ inbox[c][1].key = k

Stage(c) ==
  \/ pc[c] = "creds" /\ ticket[c] = NoKey /\ KdcIdle /\ GcksIdle /\ SocketsEmpty
  \/ /\ pc[c] = "tgs" /\ SocketsEmpty
     /\ \/ kpc = "idle" /\ requests = {[client |-> c, run |-> run[c]]} /\ GcksIdle
        \/ kpc = "forward" /\ Serves(c) /\ GcksIdle
        \/ kpc = "reply" /\ Serves(c) /\ Holds(c, kdc.key)
  \/ /\ pc[c] = "bind" /\ SocketsEmpty /\ KdcIdle
     /\ creds[c] # NoKey /\ Holds(c, creds[c])
  \/ /\ pc[c] = "accept" /\ KdcIdle /\ creds[c] # NoKey
     /\ \/ SocketsEmpty /\ Holds(c, creds[c])
        \/ SocketsEmpty /\ Calls(c, creds[c])
        \/ Called(c, creds[c])

\* The inductive invariant of the harness.
HInv ==
  /\ EveryReadAuthenticates
  /\ \/ NobodyRuns /\ KdcIdle /\ GcksIdle /\ SocketsEmpty
     \/ \E c \in Client : Stage(c) /\ \A d \in Client : d # c => pc[d] = "off"

--------------------------------------------------------------------------
\* The harness adds no behaviour to KM2: what is proved of KM2 holds of it.
LEMMA HarnessIsKm2 == HarnessSpec => Spec
<1>1. [HarnessNext]_vars => [Next]_vars
  BY DEF HarnessNext, harness_exec, Next, UserNext
<1> QED
  BY <1>1, PTL DEF HarnessSpec, Spec

\* The client that runs is the one whose step it is, and it is in its stage.
LEMMA WhoRuns ==
  ASSUME TypeOK, HInv, NEW c \in Client, pc[c] # "off"
  PROVE  Stage(c) /\ \A d \in Client : d # c => pc[d] = "off"
BY DEF HInv, NobodyRuns

\* A step of the client that runs keeps the others off.
LEMMA OneRuns ==
  ASSUME NEW c \in Client, Stage(c)', \A d \in Client : d # c => pc'[d] = "off",
         receipts' = receipts, HInv
  PROVE  HInv'
BY DEF HInv, EveryReadAuthenticates

LEMMA ClientSteps ==
  ASSUME NothingFails, TypeOK, HInv, NEW c \in Client, harness_exec(c) \/ ClientStep(c)
  PROVE  HInv'
<1>1. CASE harness_exec(c)
  <2>1. KdcIdle /\ GcksIdle /\ SocketsEmpty
    BY <1>1 DEF HInv, harness_exec, NobodyRuns, Stage
  <2>2. Stage(c)'
    BY <1>1, <2>1
       DEF harness_exec, client_exec, kdcVars, gcksVars, Stage, KdcIdle, GcksIdle, SocketsEmpty, TypeOK
  <2> QED
    BY <1>1, <2>2, OneRuns DEF harness_exec, client_exec, NobodyRuns, histVars, TypeOK
<1>2. CASE obtain_credentials_cached(c)
  <2>1. Stage(c)
    BY <1>2, WhoRuns DEF obtain_credentials_cached
  <2> QED
    BY <1>2, <2>1 DEF obtain_credentials_cached, Stage
<1>3. CASE obtain_credentials_tgs(c)
  <2>1. Stage(c) /\ \A d \in Client : d # c => pc[d] = "off"
    BY <1>3, WhoRuns DEF obtain_credentials_tgs
  <2>2. Stage(c)'
    BY <1>3, <2>1
       DEF obtain_credentials_tgs, gcksVars, Stage, KdcIdle, GcksIdle, SocketsEmpty, TypeOK
  <2> QED
    BY <1>3, <2>1, <2>2, OneRuns DEF obtain_credentials_tgs, histVars, TypeOK
<1>4. CASE obtain_credentials_timeout(c) \/ client_dies(c)
  BY <1>4 DEF obtain_credentials_timeout, client_dies, NothingFails
<1>5. CASE bind_listen(c)
  <2>1. Stage(c) /\ \A d \in Client : d # c => pc[d] = "off"
    BY <1>5, WhoRuns DEF bind_listen
  <2>2. Stage(c)'
    BY <1>5, <2>1
       DEF bind_listen, kdcVars, gcksVars, Stage, KdcIdle, SocketsEmpty, Holds, TypeOK
  <2> QED
    BY <1>5, <2>1, <2>2, OneRuns DEF bind_listen, histVars, TypeOK
<1>6. CASE bind_fails(c)
  <2>1. \A d \in Client : d # c => pc[d] = "off"
    BY <1>6, WhoRuns DEF bind_fails
  <2>2. PortFree(HostOf[c])
    BY <1>6, <2>1 DEF bind_fails, PortFree
  <2> QED
    BY <1>6, <2>2 DEF bind_fails, NothingFails
<1>7. CASE accept_recv(c)
  <2>1. Stage(c) /\ \A d \in Client : d # c => pc[d] = "off"
    BY <1>7, WhoRuns DEF accept_recv
  <2>2. pc[c] = "accept" /\ inbox[c] # <<>> /\ inbox[c] \in Seq(Msg)
    BY <1>7 DEF accept_recv, TypeOK
  <2>3. KdcIdle /\ creds[c] # NoKey /\ Called(c, creds[c])
    BY <2>1, <2>2 DEF Stage, SocketsEmpty
  <2>4. Head(inbox[c]).key = creds[c]
    BY <2>2, <2>3 DEF Called
  <2>5. Authenticates(Head(inbox[c]), creds[c])
    BY <2>3, <2>4 DEF Authenticates
  <2>6. EveryReadAuthenticates'
    <3> DEFINE r == [client |-> c, run |-> run[c], msg |-> Head(inbox[c]),
                     ok |-> Authenticates(Head(inbox[c]), creds[c])]
    <3>1. receipts' = receipts \cup {r}
      BY <1>7 DEF accept_recv
    <3>2. r.ok
      BY <2>5
    <3> HIDE DEF r
    <3> QED
      BY <3>1, <3>2 DEF EveryReadAuthenticates, HInv
  <2>7. NobodyRuns'
    BY <1>7, <2>1 DEF accept_recv, Ends, NobodyRuns, TypeOK
  <2>8. KdcIdle' /\ GcksIdle' /\ SocketsEmpty'
    BY <1>7, <2>3
       DEF accept_recv, CutOff, kdcVars, KdcIdle, Called, GcksIdle, SocketsEmpty, TypeOK
  <2> QED
    BY <2>6, <2>7, <2>8 DEF HInv
<1> QED
  BY <1>1, <1>2, <1>3, <1>4, <1>5, <1>6, <1>7 DEF ClientStep

\* The cache is made anew between two runs.
LEMMA CacheStep ==
  ASSUME TypeOK, HInv, NobodyRuns, NEW c \in Client, recreate_client_cache(c)
  PROVE  HInv'
<1>1. KdcIdle /\ GcksIdle /\ SocketsEmpty
  BY DEF HInv, NobodyRuns, Stage
<1> QED
  BY <1>1
     DEF recreate_client_cache, kdcVars, gcksVars, histVars, HInv, EveryReadAuthenticates,
         NobodyRuns, KdcIdle, GcksIdle, SocketsEmpty

\* The KDC and the GCKS have nothing to do unless a client runs.
LEMMA SomebodyRuns ==
  ASSUME NothingFails, TypeOK, HInv, KdcNext \/ GcksNext
  PROVE  \E c \in Client : Stage(c) /\ \A d \in Client : d # c => pc[d] = "off"
<1> SUFFICES ASSUME KdcIdle, GcksIdle PROVE FALSE
  BY DEF HInv
<1> QED
  BY DEF KdcNext, GcksNext, KdcIdle, GcksIdle, process_tgs_req, gcks_lookup_fails, do_gcks_req,
         do_gcks_req_fails, do_gcks_req_exit, process_tgs_req_late_error, tgs_reply,
         tgs_error_reply, process_mikey_message, send_mikey_message_connect,
         send_mikey_message_send, gcks_crash, gcks_restart, NothingFails

LEMMA KdcSteps ==
  ASSUME NothingFails, TypeOK, HInv, KdcNext
  PROVE  HInv'
<1>1. PICK c \in Client : Stage(c) /\ \A d \in Client : d # c => pc[d] = "off"
  BY SomebodyRuns
<1>2. ASSUME NEW r \in requests, process_tgs_req(r) PROVE HInv'
  <2>1. /\ pc[c] = "tgs" /\ SocketsEmpty /\ requests = {[client |-> c, run |-> run[c]]} /\ GcksIdle
    BY <1>1, <1>2 DEF process_tgs_req, Stage, Serves, KdcIdle
  <2>2. r.client = c /\ r.run = run[c]
    BY <2>1
  <2>3. /\ kdc' = [client |-> c, run |-> run[c], key |-> Len(owner')]
        /\ kpc' = "forward" /\ requests' = {} /\ run' = run
    BY <1>2, <2>1, <2>2 DEF process_tgs_req, clientVars
  <2>4. Len(owner') # NoKey
    BY <1>2 DEF process_tgs_req, TypeOK, NoKey
  <2>5. Stage(c)'
    BY <1>2, <2>1, <2>3, <2>4
       DEF process_tgs_req, clientVars, gcksVars, Stage, Serves, GcksIdle, SocketsEmpty
  <2> QED
    BY <1>1, <1>2, <2>5, OneRuns DEF process_tgs_req, clientVars, histVars
<1>3. CASE gcks_lookup_fails \/ do_gcks_req_exit \/ process_tgs_req_late_error
  BY <1>3 DEF gcks_lookup_fails, do_gcks_req_exit, process_tgs_req_late_error, NothingFails
<1>4. CASE do_gcks_req
  <2>1. pc[c] = "tgs" /\ SocketsEmpty /\ Serves(c) /\ GcksIdle
    BY <1>1, <1>4 DEF do_gcks_req, Stage, KdcIdle
  <2>2. backlog' = <<[client |-> c, key |-> kdc.key]>>
    BY <1>4, <2>1 DEF do_gcks_req, Enqueue, GcksIdle, Serves
  <2>3. Stage(c)'
    BY <1>4, <2>1, <2>2
       DEF do_gcks_req, clientVars, Stage, Serves, Holds, GcksIdle, SocketsEmpty
  <2> QED
    BY <1>1, <1>4, <2>3, OneRuns DEF do_gcks_req, clientVars, histVars
<1>5. CASE do_gcks_req_fails
  <2>1. GcksIdle
    BY <1>1, <1>5 DEF do_gcks_req_fails, Stage, KdcIdle
  <2>2. Len(backlog) = 0 /\ gpc = "accept"
    BY <2>1 DEF GcksIdle
  <2> QED
    BY <1>5, <2>2, BoundAssumption DEF do_gcks_req_fails, NothingFails
<1>6. CASE tgs_reply
  <2>1. pc[c] = "tgs" /\ SocketsEmpty /\ Serves(c) /\ Holds(c, kdc.key)
    BY <1>1, <1>6 DEF tgs_reply, Stage, KdcIdle
  <2>2. kdc.client = c /\ kdc.key # NoKey /\ StillWaiting
    BY <2>1 DEF Serves, StillWaiting
  <2>3. /\ creds' = [creds EXCEPT ![c] = kdc.key] /\ pc' = [pc EXCEPT ![c] = "bind"]
        /\ kpc' = "idle" /\ requests' = requests
        /\ UNCHANGED <<inbox, backlog, gpc, gmsg, peer, receipts>>
    BY <1>6, <2>2 DEF tgs_reply, KdcDone, gcksVars, histVars
  <2>4. creds'[c] = kdc.key /\ pc'[c] = "bind" /\ \A d \in Client : d # c => pc'[d] = pc[d]
    BY <2>3 DEF TypeOK
  <2>5. Stage(c)'
    BY <2>1, <2>2, <2>3, <2>4 DEF Stage, Serves, Holds, KdcIdle, SocketsEmpty
  <2> QED
    BY <1>1, <2>3, <2>4, <2>5, OneRuns
<1>7. CASE tgs_error_reply
  BY <1>1, <1>7 DEF tgs_error_reply, Stage, KdcIdle
<1> QED
  BY <1>2, <1>3, <1>4, <1>5, <1>6, <1>7 DEF KdcNext

LEMMA GcksSteps ==
  ASSUME NothingFails, TypeOK, HInv, GcksNext
  PROVE  HInv'
<1>1. PICK c \in Client : Stage(c) /\ \A d \in Client : d # c => pc[d] = "off"
  BY SomebodyRuns
<1>2. CASE process_mikey_message
  <2>1. backlog # <<>> /\ gpc = "accept"
    BY <1>2 DEF process_mikey_message
  <2>2. PICK k : /\ Holds(c, k) /\ SocketsEmpty
                 /\ \/ pc[c] = "tgs" /\ kpc = "reply" /\ Serves(c) /\ k = kdc.key
                    \/ pc[c] \in {"bind", "accept"} /\ KdcIdle /\ creds[c] # NoKey /\ k = creds[c]
    BY <1>1, <2>1 DEF Stage, GcksIdle, Calls, Called
  <2>3. backlog = <<[client |-> c, key |-> k]>> /\ peer = NONE
    BY <2>1, <2>2 DEF Holds
  <2>4. backlog' = <<>> /\ gmsg'.client = c /\ gmsg'.key = k
    BY <1>2, <2>3 DEF process_mikey_message, AfterAccept
  <2>5. gpc' = "retry" /\ UNCHANGED <<clientVars, kdcVars, peer, histVars>>
    BY <1>2 DEF process_mikey_message
  <2>6. Holds(c, k)'
    BY <2>3, <2>4, <2>5 DEF Holds
  <2>7. Stage(c)'
    BY <2>2, <2>5, <2>6 DEF clientVars, kdcVars, Stage, Serves, KdcIdle, SocketsEmpty
  <2> QED
    BY <1>1, <2>5, <2>7, OneRuns DEF clientVars, histVars
<1>3. ASSUME NEW d \in Client, send_mikey_message_connect(d) PROVE HInv'
  <2>1. d = c /\ pc[c] = "accept" /\ gpc = "retry"
    BY <1>1, <1>3 DEF send_mikey_message_connect
  <2>2. KdcIdle /\ creds[c] # NoKey /\ SocketsEmpty /\ Holds(c, creds[c])
    BY <1>1, <2>1 DEF Stage, Calls, Called, GcksIdle
  <2>3. Calls(c, creds[c])'
    BY <1>3, <2>1, <2>2 DEF send_mikey_message_connect, clientVars, Holds, Calls
  <2>4. Stage(c)'
    BY <1>3, <2>1, <2>2, <2>3
       DEF send_mikey_message_connect, clientVars, kdcVars, Stage, KdcIdle, SocketsEmpty
  <2> QED
    BY <1>1, <1>3, <2>4, OneRuns DEF send_mikey_message_connect, clientVars, histVars
<1>4. CASE send_mikey_message_send
  <2>1. pc[c] = "accept" /\ KdcIdle /\ creds[c] # NoKey /\ SocketsEmpty /\ Calls(c, creds[c])
    BY <1>1, <1>4 DEF send_mikey_message_send, Stage, Holds, Called, GcksIdle
  <2>2. /\ peer = c /\ c # NONE /\ gmsg \in Msg /\ gmsg.key = creds[c] /\ inbox[c] = <<>>
        /\ inbox \in [Client -> Seq(Msg)]
    BY <1>4, <2>1, NoneAssumption DEF send_mikey_message_send, Calls, SocketsEmpty, TypeOK
  <2>3. inbox' = [inbox EXCEPT ![c] = Append(<<>>, gmsg)]
    BY <1>4, <2>2 DEF send_mikey_message_send
  <2>4. inbox'[c] = <<gmsg>> /\ \A d \in Client : d # c => inbox'[d] = <<>>
    BY <2>1, <2>2, <2>3 DEF SocketsEmpty
  <2>5. Called(c, creds[c])'
    BY <1>4, <2>1, <2>2, <2>4 DEF send_mikey_message_send, Calls, Called, GcksIdle
  <2>6. Stage(c)'
    BY <1>4, <2>1, <2>5 DEF send_mikey_message_send, kdcVars, Stage, KdcIdle
  <2> QED
    BY <1>1, <1>4, <2>6, OneRuns DEF send_mikey_message_send
<1>5. CASE gcks_crash
  BY <1>5 DEF gcks_crash, NothingFails
<1>6. CASE gcks_restart
  BY <1>1, <1>6 DEF gcks_restart, Stage, GcksIdle, Holds, Calls, Called
<1> QED
  BY <1>2, <1>3, <1>4, <1>5, <1>6 DEF GcksNext

--------------------------------------------------------------------------
\* The one client that runs is in one of its stages, and with it the KDC and
\* the GCKS; when nobody runs, they have nothing to do.
THEOREM HarnessInvariant == ASSUME NothingFails PROVE HarnessSpec => []HInv
<1>1. Init => HInv
  BY DEF Init, HInv, EveryReadAuthenticates, NobodyRuns, KdcIdle, GcksIdle, SocketsEmpty
<1>2. TypeOK /\ HInv /\ [HarnessNext]_vars => HInv'
  <2> SUFFICES ASSUME TypeOK, HInv, [HarnessNext]_vars PROVE HInv'
    OBVIOUS
  <2>1. CASE UNCHANGED vars
    BY <2>1
       DEF vars, clientVars, kdcVars, gcksVars, histVars, HInv, EveryReadAuthenticates,
           NobodyRuns, KdcIdle, GcksIdle, SocketsEmpty, Stage, Serves, Holds, Calls, Called
  <2> QED
    BY <2>1, ClientSteps, CacheStep, KdcSteps, GcksSteps DEF HarnessNext
<1> QED
  BY <1>1, <1>2, HarnessIsKm2, TypeCorrect, PTL DEF HarnessSpec

\* A client that listens has its message on the way.
THEOREM ListenerServed == ASSUME NothingFails PROVE HarnessSpec => []ListenerIsServed
<1>1. TypeOK /\ HInv => ListenerIsServed
  <2> SUFFICES ASSUME TypeOK, HInv, NEW c \in Client, pc[c] = "accept"
               PROVE  creds[c] \in Queued \cup InDelivery \cup KeysIn(inbox[c])
    BY DEF ListenerIsServed
  <2>1. Holds(c, creds[c]) \/ Calls(c, creds[c]) \/ Called(c, creds[c])
    BY WhoRuns DEF Stage
  <2>2. CASE gpc = "accept" /\ backlog = <<[client |-> c, key |-> creds[c]]>>
    BY <2>2 DEF Queued, KeysIn
  <2>3. CASE gpc \in {"retry", "send"} /\ gmsg.key = creds[c]
    BY <2>3 DEF InDelivery, TypeOK
  <2>4. CASE Called(c, creds[c])
    BY <2>4 DEF Called, KeysIn, TypeOK
  <2> QED
    BY <2>1, <2>2, <2>3, <2>4 DEF Holds, Calls
<1> QED
  BY <1>1, HarnessInvariant, HarnessIsKm2, TypeCorrect, PTL

\* Whatever a client reads authenticates.
THEOREM ReadsAuthenticate == ASSUME NothingFails PROVE HarnessSpec => []EveryReadAuthenticates
<1>1. HInv => EveryReadAuthenticates
  BY DEF HInv
<1> QED
  BY <1>1, HarnessInvariant, PTL

\* The next client finds the KDC and the GCKS idle.
THEOREM CleanAfterRun == ASSUME NothingFails PROVE HarnessSpec => []NothingLeftBehind
<1>1. HInv => NothingLeftBehind
  <2> SUFFICES ASSUME HInv, NobodyRuns
               PROVE  kpc = "idle" /\ requests = {} /\ Queued \cup InDelivery = {}
    BY DEF NothingLeftBehind
  <2>1. KdcIdle /\ GcksIdle
    BY DEF HInv, NobodyRuns, Stage
  <2> QED
    BY <2>1 DEF KdcIdle, GcksIdle, Queued, KeysIn, InDelivery
<1> QED
  BY <1>1, HarnessInvariant, PTL
==========================================================================
