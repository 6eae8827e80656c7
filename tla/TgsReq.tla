------------------------------ MODULE TgsReq ------------------------------
(***************************************************************************)
(* The KDC's part of KM2 step by step: what krb5.patch adds to             *)
(* process_tgs_req, and do_gcks_req.  Km2 has it as one step per outcome;  *)
(* here every call can fail on its own, and the KDC is one process that    *)
(* works on one request after the other, so what a request leaves behind - *)
(* open descriptors, the list of master keys - is what the next one finds. *)
(*                                                                         *)
(* The decoding of the request and everything before the ticket is         *)
(* encrypted are unchanged code of MIT krb5 and not modelled.              *)
(***************************************************************************)
EXTENDS Integers

CONSTANTS
  FdLimit,     \* descriptors the KDC can still open (RLIMIT_NOFILE)
  MaxRollover, \* bound: how often the master key is changed
  Fault,       \* the failures that may happen, a subset of FaultKind
  NONE         \* no request, no answer

\* The calls of process_tgs_req that can fail, in their order, and the
\* status each one is answered with (that of the last stands between two hunks
\* of krb5.patch and is taken from MIT krb5).
Step == {"krb5_encrypt_tkt_part", "krb5_sname_to_principal",
         "krb5_db_get_principal_ext", "krb5_dbe_find_enctype",
         "krb5_db_fetch_mkey_list", "krb5_dbekd_decrypt_key_data",
         "kdc_fast_response_handle_padata", "kdc_fast_handle_reply_key",
         "return_enc_padata", "krb5_encode_kdc_rep"}

StatusOf ==
  [s \in Step |->
     CASE s = "krb5_encrypt_tkt_part"           -> "TKT_ENCRYPT"
       [] s = "krb5_sname_to_principal"         -> "LOOKING_UP_GCKS_PRINCIPAL_SNAME"
       [] s = "krb5_db_get_principal_ext"       -> "LOOKING_UP_GCKS"
       [] s = "krb5_dbe_find_enctype"           -> "FINDING_GCKS_KEY"
       [] s = "krb5_db_fetch_mkey_list"         -> "FINDING_MASTER_KEY"
       [] s = "krb5_dbekd_decrypt_key_data"     -> "DECRYPT_GCKS_KEY"
       [] s = "kdc_fast_response_handle_padata" -> "Preparing FAST padata"
       [] s = "kdc_fast_handle_reply_key"       -> "generating reply key"
       [] s = "return_enc_padata"               -> "KDC_RETURN_ENC_PADATA"
       [] s = "krb5_encode_kdc_rep"             -> "ENCODE_KDC_REP"]

LateStep == {"kdc_fast_response_handle_padata", "kdc_fast_handle_reply_key",
             "return_enc_padata", "krb5_encode_kdc_rep"}

FaultKind == Step \cup {"no_principal", "setsockopt", "connect_timeout", "gcks_dies"}

Request == [mikey : BOOLEAN]
Status  == {StatusOf[s] : s \in Step} \cup {"ISSUE"}
Answer  == [mikey : BOOLEAN, status : Status, failed : Step \cup {NONE},
            reachable : BOOLEAN, forwarded : BOOLEAN]

ASSUME BoundAssumption == FdLimit \in Nat \ {0} /\ MaxRollover \in Nat
ASSUME FaultAssumption == Fault \subseteq FaultKind
ASSUME NoneAssumption  == NONE \notin Request /\ NONE \notin Answer
                          /\ NONE \notin Step

VARIABLES
  pc,             \* the next call of process_tgs_req, or "idle", "exited"
  request,        \* the request it works on
  errcode,        \* TRUE: errcode is not 0
  fds,            \* descriptors open beyond those of an idle KDC
  master_keylist, \* newest master key in the KDC's list
  mkvno,          \* newest master key in the database
  gcks_db_entry,  \* master key under which the GCKS's key, as read, is stored
  gcks,           \* TRUE: the GCKS listens on its port
  reachable,      \* history: the GCKS has listened since this request's socket()
  forwarded,      \* history: the GCKS was sent this request's session key
  failed,         \* history: the first call that failed for this request
  refused,        \* history: connects of the KDC that failed
  answer          \* the last answer

vars == <<pc, request, errcode, fds, master_keylist, mkvno, gcks_db_entry,
          gcks, reachable, forwarded, failed, refused, answer>>

Init ==
  /\ pc = "idle" /\ request = NONE /\ errcode = FALSE
  /\ fds = 0
  /\ master_keylist = 0 /\ mkvno = 0 /\ gcks_db_entry = 0
  /\ gcks \in BOOLEAN
  /\ reachable = FALSE /\ forwarded = FALSE /\ failed = NONE
  /\ refused = 0
  /\ answer = NONE

----------------------------------------------------------------------------
(* What the steps share. *)

\* The end of process_tgs_req: the reply or the error, and the KDC is idle.
Reply(status, failure) ==
  /\ answer' = [mikey |-> request.mikey, status |-> status,
                failed |-> failure, reachable |-> reachable,
                forwarded |-> forwarded]
  /\ pc' = "idle" /\ request' = NONE /\ errcode' = FALSE
  /\ reachable' = FALSE /\ forwarded' = FALSE /\ failed' = NONE

\* status = "..."; goto cleanup.
Cleanup(step) == Reply(StatusOf[step], IF failed = NONE THEN step ELSE failed)

\* A call that succeeds sets errcode to 0.
Succeeds(next) == errcode' = FALSE /\ pc' = next

Request_unchanged == UNCHANGED <<request, reachable, forwarded, failed, answer>>
Database_unchanged == UNCHANGED <<master_keylist, mkvno, gcks_db_entry>>
Network_unchanged == UNCHANGED <<fds, gcks, refused>>

Mut_NoGoto(step, next) ==
  /\ pc = step
  /\ \/ Succeeds(next) /\ UNCHANGED failed
     \/ step \in Fault /\ errcode' = TRUE /\ pc' = next /\ failed' = step
  /\ UNCHANGED <<request, reachable, forwarded, answer>>
  /\ Network_unchanged

\* One call of the MIKEY part that is followed by
\* if (errcode) { status = ...; goto cleanup; }.
Checked(step, next) ==
  /\ pc = step
  /\ \/ Succeeds(next) /\ Request_unchanged
     \/ step \in Fault /\ Cleanup(step)
  /\ Network_unchanged

----------------------------------------------------------------------------
(* process_tgs_req. *)

\* A request arrives, for a MIKEY ticket or for another one.
decode_krb5_tgs_req ==
  /\ pc = "idle"
  /\ \E r \in Request : request' = r
  /\ pc' = "krb5_encrypt_tkt_part"
  /\ UNCHANGED <<errcode, reachable, forwarded, failed, answer>>
  /\ Database_unchanged /\ Network_unchanged

\* The ticket is encrypted; the result is not looked at before the MIKEY part.
krb5_encrypt_tkt_part ==
  /\ pc = "krb5_encrypt_tkt_part"
  /\ pc' = IF request.mikey THEN "krb5_sname_to_principal" ELSE "if_errcode"
  /\ \/ errcode' = FALSE /\ UNCHANGED failed
     \/ /\ "krb5_encrypt_tkt_part" \in Fault
        /\ errcode' = TRUE /\ failed' = "krb5_encrypt_tkt_part"
  /\ UNCHANGED <<request, reachable, forwarded, answer>>
  /\ Database_unchanged /\ Network_unchanged

\* The GCKS's principal.
krb5_sname_to_principal ==
  /\ Checked("krb5_sname_to_principal", "krb5_db_get_principal_ext")
  /\ Database_unchanged

\* The name is unparsed before the test, from a pointer nobody has set if the
\* call failed, which may end the KDC.
krb5_unparse_name ==
  /\ "krb5_sname_to_principal" \in Fault
  /\ pc = "krb5_sname_to_principal"
  /\ pc' = "exited" /\ fds' = 0
  /\ UNCHANGED <<errcode, gcks, refused>>
  /\ Request_unchanged /\ Database_unchanged

\* Its entry in the database.
krb5_db_get_principal_ext ==
  /\ Checked("krb5_db_get_principal_ext", "krb5_dbe_find_enctype")
  /\ gcks_db_entry' = mkvno
  /\ UNCHANGED <<master_keylist, mkvno>>

\* No entry is no error: nprincs_gcks is 0 then, and nobody looks at it.
principal_not_found ==
  /\ "no_principal" \in Fault
  /\ pc = "krb5_db_get_principal_ext"
  /\ errcode' = FALSE /\ pc' = "uninitialised_entry"
  /\ Request_unchanged /\ Database_unchanged /\ Network_unchanged

\* What gcks_db_entry holds is used all the same: the search in it fails, or
\* it ends the KDC.
uninitialised_entry ==
  /\ pc = "uninitialised_entry"
  /\ \/ Cleanup("krb5_dbe_find_enctype") /\ UNCHANGED fds
     \/ pc' = "exited" /\ fds' = 0 /\ UNCHANGED errcode /\ Request_unchanged
  /\ UNCHANGED <<gcks, refused>> /\ Database_unchanged

\* Its newest key.
krb5_dbe_find_enctype ==
  /\ Checked("krb5_dbe_find_enctype", "krb5_dbe_find_mkey")
  /\ Database_unchanged

\* The master key that key is stored under, in the list the KDC holds.
krb5_dbe_find_mkey ==
  /\ pc = "krb5_dbe_find_mkey"
  /\ IF gcks_db_entry <= master_keylist
     THEN Succeeds("krb5_dbekd_decrypt_key_data")
     ELSE errcode' = TRUE /\ pc' = "krb5_db_fetch_mkey_list"
  /\ Request_unchanged /\ Database_unchanged /\ Network_unchanged

Mut_OldList == master_keylist

\* The list the KDC goes on with after krb5_db_fetch_mkey_list.
Refreshed == mkvno

\* The list is read again, once, and searched again.
krb5_db_fetch_mkey_list ==
  /\ pc = "krb5_db_fetch_mkey_list"
  /\ \/ /\ master_keylist' = Refreshed
        /\ IF gcks_db_entry <= master_keylist'
           THEN Succeeds("krb5_dbekd_decrypt_key_data") /\ Request_unchanged
           ELSE Reply("FINDING_MASTER_KEY", failed)
     \/ /\ "krb5_db_fetch_mkey_list" \in Fault
        /\ Cleanup("krb5_db_fetch_mkey_list")
        /\ UNCHANGED master_keylist
  /\ UNCHANGED <<mkvno, gcks_db_entry>> /\ Network_unchanged

\* The GCKS's key itself.
krb5_dbekd_decrypt_key_data ==
  /\ Checked("krb5_dbekd_decrypt_key_data", "socket")
  /\ Database_unchanged

----------------------------------------------------------------------------
(* do_gcks_req; its result is ignored. *)

\* The descriptor table is full: return -1.
socket_fails ==
  /\ pc = "socket" /\ fds = FdLimit
  /\ pc' = "if_errcode" /\ reachable' = gcks
  /\ UNCHANGED <<request, errcode, forwarded, failed, answer>>
  /\ Database_unchanged /\ Network_unchanged

\* A socket, with SO_LINGER.
socket ==
  /\ pc = "socket" /\ fds < FdLimit
  /\ fds' = fds + 1
  /\ pc' = "connect" /\ reachable' = gcks
  /\ UNCHANGED <<request, errcode, forwarded, failed, answer, gcks, refused>>
  /\ Database_unchanged

\* setsockopt fails: exit(1) in the middle of a request.
setsockopt_fails ==
  /\ "setsockopt" \in Fault
  /\ pc = "socket" /\ fds < FdLimit
  /\ pc' = "exited" /\ fds' = 0
  /\ UNCHANGED <<errcode, gcks, refused>>
  /\ Request_unchanged /\ Database_unchanged

connect ==
  /\ pc = "connect" /\ gcks
  /\ pc' = "send" /\ reachable' = TRUE
  /\ UNCHANGED <<request, errcode, forwarded, failed, answer>>
  /\ Database_unchanged /\ Network_unchanged

\* Nobody listens, or the GCKS's queue stays full: return -1, without close().
connect_fails ==
  /\ pc = "connect"
  /\ ~gcks \/ "connect_timeout" \in Fault
  /\ refused' = refused + 1
  /\ reachable' = FALSE
  /\ pc' = "if_errcode"
  /\ UNCHANGED <<request, errcode, fds, forwarded, failed, answer, gcks>>
  /\ Database_unchanged

Mut_NoClose == fds

Mut_ClosesTwice == fds - 2

\* close(sock).
AfterSend == fds - 1

\* send() and close(); nobody looks whether the GCKS still has the connection.
send ==
  /\ pc = "send"
  /\ forwarded' = reachable
  /\ fds' = AfterSend
  /\ pc' = "if_errcode"
  /\ UNCHANGED <<request, errcode, reachable, failed, answer, gcks, refused>>
  /\ Database_unchanged

----------------------------------------------------------------------------
(* process_tgs_req, after the MIKEY part. *)

\* if (errcode) { status = "TKT_ENCRYPT"; goto cleanup; }
if_errcode ==
  /\ pc = "if_errcode"
  /\ IF errcode THEN Cleanup("krb5_encrypt_tkt_part")
     ELSE pc' = "reply" /\ UNCHANGED errcode /\ Request_unchanged
  /\ Database_unchanged /\ Network_unchanged

\* A failure while the reply is put together or encoded.
late_error ==
  /\ pc = "reply"
  /\ \E s \in LateStep \cap Fault : Cleanup(s)
  /\ Database_unchanged /\ Network_unchanged

\* The ticket is sent.
issue ==
  /\ pc = "reply"
  /\ Reply("ISSUE", failed)
  /\ Database_unchanged /\ Network_unchanged

----------------------------------------------------------------------------
(* The rest of the world. *)

\* The administrator changes the master key and re-encrypts the database.
master_key_rollover ==
  /\ mkvno < MaxRollover
  /\ mkvno' = mkvno + 1
  /\ UNCHANGED <<pc, errcode, master_keylist, gcks_db_entry>>
  /\ Request_unchanged /\ Network_unchanged

\* gcks2 ends, with the connections it has, or is started.
gcks_dies ==
  /\ "gcks_dies" \in Fault
  /\ gcks /\ gcks' = FALSE
  /\ reachable' = FALSE
  /\ UNCHANGED <<pc, request, errcode, fds, forwarded, failed, refused, answer>>
  /\ Database_unchanged

gcks_starts ==
  /\ ~gcks /\ gcks' = TRUE
  /\ UNCHANGED <<pc, errcode, fds, refused>>
  /\ Request_unchanged /\ Database_unchanged

KdcNext ==
  \/ decode_krb5_tgs_req
  \/ krb5_encrypt_tkt_part
  \/ krb5_sname_to_principal
  \/ krb5_unparse_name
  \/ krb5_db_get_principal_ext
  \/ principal_not_found
  \/ uninitialised_entry
  \/ krb5_dbe_find_enctype
  \/ krb5_dbe_find_mkey
  \/ krb5_db_fetch_mkey_list
  \/ krb5_dbekd_decrypt_key_data
  \/ socket_fails
  \/ socket
  \/ setsockopt_fails
  \/ connect
  \/ connect_fails
  \/ send
  \/ if_errcode
  \/ late_error
  \/ issue

Next == KdcNext \/ master_key_rollover \/ gcks_dies \/ gcks_starts

Spec == Init /\ [][Next]_vars

----------------------------------------------------------------------------
(* Properties. *)

\* Every variable has its type, and the KDC never has more descriptors open
\* than it may.
TypeOK ==
  /\ pc \in Step \cup {"idle", "krb5_dbe_find_mkey", "uninitialised_entry", "socket", "connect",
                      "send", "if_errcode", "reply", "exited"}
  /\ request \in Request \cup {NONE}
  /\ errcode \in BOOLEAN
  /\ fds \in 0 .. FdLimit
  /\ {master_keylist, mkvno, gcks_db_entry} \subseteq 0 .. MaxRollover
  /\ {gcks, reachable, forwarded} \subseteq BOOLEAN
  /\ failed \in Step \cup {NONE}
  /\ refused \in 0 .. FdLimit
  /\ answer \in Answer \cup {NONE}
  /\ pc \notin {"idle", "exited"} => request # NONE

Answered == answer # NONE

\* A client that is given a MIKEY ticket is called: its key has reached the
\* GCKS if that was there to be connected to - and has not, however long the
\* GCKS has been back, once as many connects were refused as the KDC may have
\* descriptors open: the socket of a refused connect is not closed
\* (krb5.patch:1359-1368), and no other one is left open.
ForwardedWhileReachable ==
  (/\ pc = "idle" /\ Answered
   /\ answer.mikey /\ answer.status = "ISSUE" /\ answer.reachable)
     => (answer.forwarded <=> refused < FdLimit)

\* An error names the call that failed first and there is no error without
\* one, whatever became of the master key meanwhile.  The one exception is the
\* code's own: the MIKEY part overwrites the result of krb5_encrypt_tkt_part
\* before the test at krb5.patch:1085, so that such a failure is answered with
\* a ticket or a later error, but never as TKT_ENCRYPT.
StatusNamesFailure ==
  Answered =>
    LET first == answer.failed
    IN IF first = NONE THEN answer.status = "ISSUE"
       ELSE IF first = "krb5_encrypt_tkt_part" /\ answer.mikey
            THEN answer.status # "TKT_ENCRYPT"
            ELSE answer.status = StatusOf[first]

\* The GCKS is told after every call of the MIKEY part has succeeded and
\* before the reply is built and encoded (krb5.patch:1075), so a request that
\* it was told of is refused to the client only by a failure of these.
ToldThenLateErrors ==
  (Answered /\ answer.forwarded) =>
    answer.status \in {"ISSUE"} \cup {StatusOf[s] : s \in LateStep}

===========================================================================
