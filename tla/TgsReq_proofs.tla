-------------------------- MODULE TgsReq_proofs --------------------------
(***************************************************************************)
(* Proofs about the KDC's part of KM2 for any number of descriptors and    *)
(* requests, any number of changes of the master key and every set of      *)
(* failures.                                                               *)
(***************************************************************************)
EXTENDS TgsReq, TLAPS

\* The inductive invariant, in parts.

\* The descriptors open are the sockets of refused connects, and the one of
\* the call under way.
FdsCounted ==
  pc # "exited" =>
    fds = refused + (IF pc \in {"connect", "send"} THEN 1 ELSE 0)

\* The calls up to the GCKS's key, which only a MIKEY request comes to, and
\* those of do_gcks_req.
KeySearch == {"krb5_sname_to_principal", "krb5_db_get_principal_ext",
              "uninitialised_entry", "krb5_dbe_find_enctype",
              "krb5_dbe_find_mkey", "krb5_db_fetch_mkey_list",
              "krb5_dbekd_decrypt_key_data"}
GcksCall  == {"socket", "connect", "send"}
MikeyStep == KeySearch \cup GcksCall

\* The GCKS's key, as read, is stored under a master key there has been.
EntryIsOld == gcks_db_entry <= mkvno /\ master_keylist <= mkvno

\* What the request at hand has met so far: errcode is looked at where it
\* says what failed, but for the ticket of a MIKEY request.
FailureKnown ==
  /\ pc \in MikeyStep => request.mikey
  /\ failed \in {NONE, "krb5_encrypt_tkt_part"}
  /\ pc \in {"idle", "krb5_encrypt_tkt_part"} => failed = NONE
  /\ pc \in GcksCall \cup {"krb5_dbekd_decrypt_key_data", "reply"} => ~errcode
  /\ pc = "if_errcode" =>
       IF request.mikey THEN ~errcode ELSE errcode <=> failed # NONE
  /\ pc = "reply" /\ ~request.mikey => failed = NONE

\* The GCKS hears of a MIKEY request at the end of do_gcks_req, if it was
\* there and the table of descriptors was not full.
ToldOnce ==
  /\ pc \in MikeyStep \cup {"idle", "krb5_encrypt_tkt_part"} => ~forwarded
  /\ forwarded => pc = "exited" \/ request.mikey
  /\ (pc \in {"if_errcode", "reply"} /\ request.mikey /\ reachable)
       => (forwarded <=> refused < FdLimit)

IInv ==
  /\ TypeOK
  /\ FdsCounted
  /\ EntryIsOld
  /\ FailureKnown
  /\ ToldOnce
  /\ ForwardedWhileReachable
  /\ StatusNamesFailure
  /\ ToldThenLateErrors

USE DEF Step, LateStep

\* Each call's status is its own, and none is the one of success.
LEMMA Statuses ==
  ASSUME NEW s \in Step
  PROVE  /\ StatusOf[s] \in Status
         /\ StatusOf[s] # "ISSUE"
         /\ StatusOf[s] = "TKT_ENCRYPT" <=> s = "krb5_encrypt_tkt_part"
BY DEF StatusOf, Status

\* An answer is a record of what the request met.
LEMMA ReplyType ==
  ASSUME TypeOK, pc \notin {"idle", "exited"},
         NEW status \in Status, NEW failure \in Step \cup {NONE},
         Reply(status, failure)
  PROVE  /\ answer' \in Answer
         /\ request' = NONE /\ pc' = "idle" /\ errcode' = FALSE
         /\ reachable' = FALSE /\ forwarded' = FALSE /\ failed' = NONE
<1>1. request \in Request
  BY DEF TypeOK
<1>2. request.mikey \in BOOLEAN /\ reachable \in BOOLEAN /\ forwarded \in BOOLEAN
  BY <1>1 DEF TypeOK, Request
<1> QED
  BY <1>2 DEF Reply, Answer

\* So is the error a failed call is answered with.
LEMMA CleanupType ==
  ASSUME TypeOK, pc \notin {"idle", "exited"}, NEW s \in Step, Cleanup(s)
  PROVE  /\ answer' \in Answer
         /\ request' = NONE /\ pc' = "idle" /\ errcode' = FALSE
         /\ reachable' = FALSE /\ forwarded' = FALSE /\ failed' = NONE
<1>1. StatusOf[s] \in Status
  BY Statuses
<1>2. PICK f \in Step \cup {NONE} : Reply(StatusOf[s], f)
  BY DEF Cleanup, TypeOK
<1> QED
  BY <1>1, <1>2, ReplyType

\* The variables keep their types.
LEMMA TypeStep ==
  ASSUME TypeOK, FdsCounted, EntryIsOld, [Next]_vars
  PROVE  TypeOK'
<1> USE BoundAssumption
<1> DEFINE Idle == /\ answer' \in Answer
                   /\ request' = NONE /\ pc' = "idle" /\ errcode' = FALSE
                   /\ reachable' = FALSE /\ forwarded' = FALSE /\ failed' = NONE
<1>1. ASSUME NEW s \in Step, pc \notin {"idle", "exited"}, Cleanup(s) PROVE Idle
  BY <1>1, CleanupType
<1>2. ASSUME NEW s \in Step, NEW next, Checked(s, next) PROVE
        \/ Idle
        \/ errcode' = FALSE /\ pc' = next /\ Request_unchanged
  <2>1. CASE Cleanup(s)
    BY <1>1, <1>2, <2>1 DEF Checked
  <2> QED
    BY <1>2, <2>1 DEF Checked, Succeeds
<1> HIDE DEF Idle
<1>3. CASE decode_krb5_tgs_req
  <2>1. request' \in Request /\ pc' = "krb5_encrypt_tkt_part"
    BY <1>3 DEF decode_krb5_tgs_req
  <2> QED
    BY <2>1, <1>3, NoneAssumption DEF decode_krb5_tgs_req, Database_unchanged, Network_unchanged, TypeOK
<1>4. CASE krb5_encrypt_tkt_part
  BY <1>4 DEF krb5_encrypt_tkt_part, Database_unchanged, Network_unchanged, TypeOK, FdsCounted
<1>5. CASE krb5_sname_to_principal
  <2>1. Idle \/ (errcode' = FALSE /\ pc' \in {"krb5_db_get_principal_ext", "krb5_dbe_find_enctype",
                "krb5_dbe_find_mkey", "socket"} /\ Request_unchanged)
    BY <1>2, <1>5 DEF krb5_sname_to_principal
  <2> QED
    BY <2>1, <1>5 DEF krb5_sname_to_principal, Checked, Request_unchanged, Database_unchanged, Network_unchanged, Idle, TypeOK
<1>6. CASE krb5_db_get_principal_ext
  <2>1. Idle \/ (errcode' = FALSE /\ pc' \in {"krb5_db_get_principal_ext", "krb5_dbe_find_enctype",
                "krb5_dbe_find_mkey", "socket"} /\ Request_unchanged)
    BY <1>2, <1>6 DEF krb5_db_get_principal_ext
  <2> QED
    BY <2>1, <1>6 DEF krb5_db_get_principal_ext, Checked, Request_unchanged, Database_unchanged, Network_unchanged, Idle, TypeOK
<1>7. CASE principal_not_found
  BY <1>7 DEF principal_not_found, Request_unchanged, Database_unchanged, Network_unchanged, TypeOK, FdsCounted
<1>8. CASE uninitialised_entry
  <2>1. CASE Cleanup("krb5_dbe_find_enctype")
    BY <1>1, <1>8, <2>1 DEF uninitialised_entry, Database_unchanged, Idle, TypeOK
  <2> QED
    BY <1>8, <2>1 DEF uninitialised_entry, Database_unchanged, Request_unchanged, TypeOK
<1>9. CASE krb5_dbe_find_enctype
  <2>1. Idle \/ (errcode' = FALSE /\ pc' \in {"krb5_db_get_principal_ext", "krb5_dbe_find_enctype",
                "krb5_dbe_find_mkey", "socket"} /\ Request_unchanged)
    BY <1>2, <1>9 DEF krb5_dbe_find_enctype
  <2> QED
    BY <2>1, <1>9 DEF krb5_dbe_find_enctype, Checked, Request_unchanged, Database_unchanged, Network_unchanged, Idle, TypeOK
<1>10. CASE krb5_dbe_find_mkey
  BY <1>10 DEF krb5_dbe_find_mkey, Succeeds, Request_unchanged, Database_unchanged, Network_unchanged, TypeOK, FdsCounted
<1>11. CASE krb5_db_fetch_mkey_list
  <2>1. CASE Cleanup("krb5_db_fetch_mkey_list")
    BY <1>1, <1>11, <2>1 DEF krb5_db_fetch_mkey_list, Refreshed, Network_unchanged, Idle, TypeOK
  <2>2. CASE master_keylist' = mkvno /\ ~Cleanup("krb5_db_fetch_mkey_list")
    BY <1>11, <2>2 DEF krb5_db_fetch_mkey_list, Refreshed, Succeeds, Request_unchanged,
       Network_unchanged, TypeOK, EntryIsOld
  <2> QED
    BY <1>11, <2>1, <2>2 DEF krb5_db_fetch_mkey_list, Refreshed
<1>12. CASE krb5_dbekd_decrypt_key_data
  <2>1. Idle \/ (errcode' = FALSE /\ pc' \in {"krb5_db_get_principal_ext", "krb5_dbe_find_enctype",
                "krb5_dbe_find_mkey", "socket"} /\ Request_unchanged)
    BY <1>2, <1>12 DEF krb5_dbekd_decrypt_key_data
  <2> QED
    BY <2>1, <1>12 DEF krb5_dbekd_decrypt_key_data, Checked, Request_unchanged, Database_unchanged, Network_unchanged, Idle, TypeOK
<1>13. CASE socket_fails
  BY <1>13 DEF socket_fails, Database_unchanged, Network_unchanged, TypeOK, FdsCounted
<1>14. CASE socket
  BY <1>14 DEF socket, Database_unchanged, TypeOK, FdsCounted
<1>15. CASE setsockopt_fails
  BY <1>15 DEF setsockopt_fails, Request_unchanged, Database_unchanged, TypeOK, FdsCounted
<1>16. CASE connect
  BY <1>16 DEF connect, Database_unchanged, Network_unchanged, TypeOK, FdsCounted
<1>17. CASE connect_fails
  BY <1>17 DEF connect_fails, Database_unchanged, TypeOK, FdsCounted
<1>18. CASE send
  BY <1>18 DEF send, Database_unchanged, AfterSend, TypeOK, FdsCounted
<1>19. CASE if_errcode
  <2>1. CASE Cleanup("krb5_encrypt_tkt_part")
    BY <1>1, <1>19, <2>1 DEF if_errcode, Database_unchanged, Network_unchanged, Idle, TypeOK
  <2> QED
    BY <1>19, <2>1 DEF if_errcode, Request_unchanged, Database_unchanged, Network_unchanged, TypeOK
<1>20. CASE late_error
  <2>1. Idle
    BY <1>1, <1>20 DEF late_error
  <2> QED
    BY <2>1, <1>20 DEF late_error, Database_unchanged, Network_unchanged, Idle, TypeOK
<1>21. CASE issue
  <2>1. Idle
    BY <1>21, ReplyType DEF issue, Idle, TypeOK, Status
  <2> QED
    BY <2>1, <1>21 DEF issue, Database_unchanged, Network_unchanged, Idle, TypeOK
<1>22. CASE master_key_rollover
  BY <1>22 DEF master_key_rollover, Request_unchanged, Network_unchanged, TypeOK, FdsCounted
<1>23. CASE gcks_dies
  BY <1>23 DEF gcks_dies, Database_unchanged, TypeOK, FdsCounted
<1>24. CASE gcks_starts
  BY <1>24 DEF gcks_starts, Request_unchanged, Database_unchanged, TypeOK, FdsCounted
<1>25. CASE krb5_unparse_name
  BY <1>25 DEF krb5_unparse_name, Request_unchanged, Database_unchanged, TypeOK, FdsCounted
<1>26. CASE UNCHANGED vars
  BY <1>26 DEF vars, TypeOK
<1> QED
  BY <1>3, <1>4, <1>5, <1>6, <1>7, <1>8, <1>9, <1>10, <1>11, <1>12, <1>13, <1>14, <1>15, <1>16, <1>17, <1>18, <1>19, <1>20, <1>21, <1>22, <1>23, <1>24, <1>25, <1>26 DEF Next, KdcNext

\* What a step does to the descriptors, the refused connects and the keys.
LEMMA CountStep ==
  ASSUME TypeOK, FdsCounted, EntryIsOld, [Next]_vars
  PROVE  FdsCounted' /\ EntryIsOld'
<1> USE DEF FdsCounted, EntryIsOld
<1>1. CASE decode_krb5_tgs_req
  BY <1>1 DEF decode_krb5_tgs_req, Database_unchanged, Network_unchanged, TypeOK
<1>2. CASE krb5_encrypt_tkt_part
  BY <1>2 DEF krb5_encrypt_tkt_part, Database_unchanged, Network_unchanged, TypeOK
<1>3. CASE krb5_sname_to_principal
  BY <1>3 DEF krb5_sname_to_principal, Database_unchanged, Checked, Succeeds, Cleanup, Reply, Network_unchanged, TypeOK
<1>4. CASE krb5_db_get_principal_ext
  BY <1>4 DEF krb5_db_get_principal_ext, Checked, Succeeds, Cleanup, Reply, Network_unchanged, TypeOK
<1>5. CASE principal_not_found
  BY <1>5 DEF principal_not_found, Request_unchanged, Database_unchanged, Network_unchanged, TypeOK
<1>6. CASE uninitialised_entry
  BY <1>6 DEF uninitialised_entry, Request_unchanged, Database_unchanged, Cleanup, Reply, TypeOK
<1>7. CASE krb5_dbe_find_enctype
  BY <1>7 DEF krb5_dbe_find_enctype, Database_unchanged, Checked, Succeeds, Cleanup, Reply, Network_unchanged, TypeOK
<1>8. CASE krb5_dbe_find_mkey
  BY <1>8 DEF krb5_dbe_find_mkey, Succeeds, Request_unchanged, Database_unchanged, Network_unchanged, TypeOK
<1>9. CASE krb5_db_fetch_mkey_list
  BY <1>9 DEF krb5_db_fetch_mkey_list, Succeeds, Request_unchanged, Network_unchanged, Refreshed, Cleanup, Reply, TypeOK
<1>10. CASE krb5_dbekd_decrypt_key_data
  BY <1>10 DEF krb5_dbekd_decrypt_key_data, Database_unchanged, Checked, Succeeds, Cleanup, Reply, Network_unchanged, TypeOK
<1>11. CASE socket_fails
  BY <1>11 DEF socket_fails, Database_unchanged, Network_unchanged, TypeOK
<1>12. CASE socket
  BY <1>12 DEF socket, Database_unchanged, TypeOK
<1>13. CASE setsockopt_fails
  BY <1>13 DEF setsockopt_fails, Request_unchanged, Database_unchanged, TypeOK
<1>14. CASE connect
  BY <1>14 DEF connect, Database_unchanged, Network_unchanged, TypeOK
<1>15. CASE connect_fails
  BY <1>15 DEF connect_fails, Database_unchanged, TypeOK
<1>16. CASE send
  BY <1>16 DEF send, Database_unchanged, AfterSend, TypeOK
<1>17. CASE if_errcode
  BY <1>17 DEF if_errcode, Request_unchanged, Database_unchanged, Network_unchanged, Cleanup, Reply, TypeOK
<1>18. CASE late_error
  BY <1>18 DEF late_error, Database_unchanged, Network_unchanged, Cleanup, Reply, TypeOK
<1>19. CASE issue
  BY <1>19 DEF issue, Database_unchanged, Network_unchanged, Reply, TypeOK
<1>20. CASE master_key_rollover
  BY <1>20 DEF master_key_rollover, Request_unchanged, Network_unchanged, TypeOK
<1>21. CASE gcks_dies
  BY <1>21 DEF gcks_dies, Database_unchanged, TypeOK
<1>22. CASE gcks_starts
  BY <1>22 DEF gcks_starts, Request_unchanged, Database_unchanged, TypeOK
<1>23. CASE krb5_unparse_name
  BY <1>23 DEF krb5_unparse_name, Request_unchanged, Database_unchanged, TypeOK
<1>24. CASE UNCHANGED vars
  BY <1>24 DEF vars
<1> QED
  BY <1>1, <1>2, <1>3, <1>4, <1>5, <1>6, <1>7, <1>8, <1>9, <1>10, <1>11, <1>12, <1>13, <1>14, <1>15, <1>16, <1>17, <1>18, <1>19, <1>20, <1>21, <1>22, <1>23, <1>24 DEF Next, KdcNext

\* What a step does to what is known of the request at hand.
LEMMA RequestStep ==
  ASSUME TypeOK, FdsCounted, EntryIsOld, FailureKnown, ToldOnce, [Next]_vars
  PROVE  FailureKnown' /\ ToldOnce'
<1> USE NoneAssumption DEF KeySearch, GcksCall, MikeyStep
<1>1. CASE decode_krb5_tgs_req
  BY <1>1 DEF decode_krb5_tgs_req, Database_unchanged, Network_unchanged, TypeOK, FailureKnown, ToldOnce, EntryIsOld, FdsCounted
<1>2. CASE krb5_encrypt_tkt_part
  BY <1>2 DEF krb5_encrypt_tkt_part, Database_unchanged, Network_unchanged, TypeOK, FailureKnown, ToldOnce, EntryIsOld, FdsCounted
<1>3. CASE krb5_sname_to_principal
  BY <1>3 DEF krb5_sname_to_principal, Database_unchanged, Checked, Succeeds, Cleanup, Reply, Request_unchanged, Network_unchanged, TypeOK, FailureKnown, ToldOnce, EntryIsOld, FdsCounted
<1>4. CASE krb5_db_get_principal_ext
  BY <1>4 DEF krb5_db_get_principal_ext, Checked, Succeeds, Cleanup, Reply, Request_unchanged, Network_unchanged, TypeOK, FailureKnown, ToldOnce, EntryIsOld, FdsCounted
<1>5. CASE principal_not_found
  BY <1>5 DEF principal_not_found, Request_unchanged, Database_unchanged, Network_unchanged, TypeOK, FailureKnown, ToldOnce, EntryIsOld, FdsCounted
<1>6. CASE uninitialised_entry
  BY <1>6 DEF uninitialised_entry, Request_unchanged, Database_unchanged, Cleanup, Reply, TypeOK, FailureKnown, ToldOnce, EntryIsOld, FdsCounted
<1>7. CASE krb5_dbe_find_enctype
  BY <1>7 DEF krb5_dbe_find_enctype, Database_unchanged, Checked, Succeeds, Cleanup, Reply, Request_unchanged, Network_unchanged, TypeOK, FailureKnown, ToldOnce, EntryIsOld, FdsCounted
<1>8. CASE krb5_dbe_find_mkey
  BY <1>8 DEF krb5_dbe_find_mkey, Succeeds, Request_unchanged, Database_unchanged, Network_unchanged, TypeOK, FailureKnown, ToldOnce, EntryIsOld, FdsCounted
<1>9. CASE krb5_db_fetch_mkey_list
  BY <1>9 DEF krb5_db_fetch_mkey_list, Succeeds, Request_unchanged, Network_unchanged, Refreshed, Cleanup, Reply, TypeOK, FailureKnown, ToldOnce, EntryIsOld, FdsCounted
<1>10. CASE krb5_dbekd_decrypt_key_data
  BY <1>10 DEF krb5_dbekd_decrypt_key_data, Database_unchanged, Checked, Succeeds, Cleanup, Reply, Request_unchanged, Network_unchanged, TypeOK, FailureKnown, ToldOnce, EntryIsOld, FdsCounted
<1>11. CASE socket_fails
  BY <1>11 DEF socket_fails, Database_unchanged, Network_unchanged, TypeOK, FailureKnown, ToldOnce, EntryIsOld, FdsCounted
<1>12. CASE socket
  BY <1>12 DEF socket, Database_unchanged, TypeOK, FailureKnown, ToldOnce, EntryIsOld, FdsCounted
<1>13. CASE setsockopt_fails
  BY <1>13 DEF setsockopt_fails, Request_unchanged, Database_unchanged, TypeOK, FailureKnown, ToldOnce, EntryIsOld, FdsCounted
<1>14. CASE connect
  BY <1>14 DEF connect, Database_unchanged, Network_unchanged, TypeOK, FailureKnown, ToldOnce, EntryIsOld, FdsCounted
<1>15. CASE connect_fails
  BY <1>15 DEF connect_fails, Database_unchanged, TypeOK, FailureKnown, ToldOnce, EntryIsOld, FdsCounted
<1>16. CASE send
  BY <1>16, BoundAssumption DEF send, Database_unchanged, AfterSend, TypeOK, FailureKnown, ToldOnce, EntryIsOld, FdsCounted
<1>17. CASE if_errcode
  BY <1>17 DEF if_errcode, Request_unchanged, Database_unchanged, Network_unchanged, Cleanup, Reply, TypeOK, FailureKnown, ToldOnce, EntryIsOld, FdsCounted
<1>18. CASE late_error
  BY <1>18 DEF late_error, Database_unchanged, Network_unchanged, Cleanup, Reply, TypeOK, FailureKnown, ToldOnce, EntryIsOld, FdsCounted
<1>19. CASE issue
  BY <1>19 DEF issue, Database_unchanged, Network_unchanged, Reply, TypeOK, FailureKnown, ToldOnce, EntryIsOld, FdsCounted
<1>20. CASE master_key_rollover
  BY <1>20 DEF master_key_rollover, Request_unchanged, Network_unchanged, TypeOK, FailureKnown, ToldOnce, EntryIsOld, FdsCounted
<1>21. CASE gcks_dies
  BY <1>21 DEF gcks_dies, Database_unchanged, TypeOK, FailureKnown, ToldOnce, EntryIsOld, FdsCounted
<1>22. CASE gcks_starts
  BY <1>22 DEF gcks_starts, Request_unchanged, Database_unchanged, TypeOK, FailureKnown, ToldOnce, EntryIsOld, FdsCounted
<1>23. CASE krb5_unparse_name
  BY <1>23 DEF krb5_unparse_name, Request_unchanged, Database_unchanged, TypeOK, FailureKnown, ToldOnce, EntryIsOld, FdsCounted
<1>24. CASE UNCHANGED vars
  BY <1>24 DEF vars, FailureKnown, ToldOnce
<1> QED
  BY <1>1, <1>2, <1>3, <1>4, <1>5, <1>6, <1>7, <1>8, <1>9, <1>10, <1>11, <1>12, <1>13, <1>14, <1>15, <1>16, <1>17, <1>18, <1>19, <1>20, <1>21, <1>22, <1>23, <1>24 DEF Next, KdcNext

\* What the three properties say of the answer just given, from what is known
\* of the request it answers.
LEMMA CleanupAnswer ==
  ASSUME TypeOK, FailureKnown, pc \notin {"idle", "exited"},
         NEW s \in Step, Cleanup(s),
         s = "krb5_encrypt_tkt_part" => ~request.mikey /\ failed = s,
         failed # NONE => request.mikey \/ s = "krb5_encrypt_tkt_part",
         forwarded => s \in LateStep
  PROVE  ForwardedWhileReachable' /\ StatusNamesFailure' /\ ToldThenLateErrors'
<1> DEFINE first == IF failed = NONE THEN s ELSE failed
<1>1. /\ answer' = [mikey |-> request.mikey, status |-> StatusOf[s], failed |-> first,
                    reachable |-> reachable, forwarded |-> forwarded]
      /\ answer'.status # "ISSUE"
  BY Statuses DEF Cleanup, Reply
<1>2. ForwardedWhileReachable'
  BY <1>1 DEF ForwardedWhileReachable
<1>3. StatusNamesFailure'
  <2>1. first # NONE /\ (first = s \/ (first = "krb5_encrypt_tkt_part" /\ request.mikey))
    BY NoneAssumption DEF FailureKnown
  <2>2. first = "krb5_encrypt_tkt_part" /\ request.mikey => answer'.status # "TKT_ENCRYPT"
    BY <1>1, Statuses
  <2> QED
    BY <1>1, <2>1, <2>2 DEF StatusNamesFailure, Answered
<1>4. ToldThenLateErrors'
  BY <1>1 DEF ToldThenLateErrors
<1> QED
  BY <1>2, <1>3, <1>4

\* A step that gives no answer leaves the last one as it is.
LEMMA AnswerStays ==
  ASSUME ForwardedWhileReachable, StatusNamesFailure, ToldThenLateErrors,
         answer' = answer, pc' # "idle" \/ (pc = "idle" /\ refused' = refused)
  PROVE  ForwardedWhileReachable' /\ StatusNamesFailure' /\ ToldThenLateErrors'
BY DEF ForwardedWhileReachable, StatusNamesFailure, ToldThenLateErrors, Answered

\* What a step does to the answers.
LEMMA AnswerStep ==
  ASSUME IInv, [Next]_vars
  PROVE  ForwardedWhileReachable' /\ StatusNamesFailure' /\ ToldThenLateErrors'
<1> USE NoneAssumption DEF IInv, KeySearch, GcksCall, MikeyStep
<1> DEFINE Right == ForwardedWhileReachable' /\ StatusNamesFailure' /\ ToldThenLateErrors'
           Stays == answer' = answer /\ (pc' # "idle" \/ (pc = "idle" /\ refused' = refused))
<1>1. Stays => Right
  BY AnswerStays
<1>2. ASSUME NEW s \in KeySearch \cap Step, pc \in KeySearch, Cleanup(s)
      PROVE  Right
  <2>1. request.mikey /\ ~forwarded /\ pc \notin {"idle", "exited"}
    BY <1>2 DEF FailureKnown, ToldOnce
  <2> QED
    BY <1>2, <2>1, CleanupAnswer
<1>3. CASE decode_krb5_tgs_req
  BY <1>1, <1>3 DEF decode_krb5_tgs_req, Database_unchanged, Network_unchanged
<1>4. CASE krb5_encrypt_tkt_part
  BY <1>1, <1>4 DEF krb5_encrypt_tkt_part, Database_unchanged, Network_unchanged
<1>5. CASE krb5_sname_to_principal
  <2>1. CASE Cleanup("krb5_sname_to_principal")
    BY <1>2, <1>5, <2>1 DEF krb5_sname_to_principal, Checked
  <2>2. CASE ~Cleanup("krb5_sname_to_principal")
    BY <1>1, <1>5, <2>2 DEF krb5_sname_to_principal, Checked, Succeeds, Request_unchanged
  <2> QED
    BY <2>1, <2>2
<1>6. CASE krb5_db_get_principal_ext
  <2>1. CASE Cleanup("krb5_db_get_principal_ext")
    BY <1>2, <1>6, <2>1 DEF krb5_db_get_principal_ext, Checked
  <2>2. CASE ~Cleanup("krb5_db_get_principal_ext")
    BY <1>1, <1>6, <2>2 DEF krb5_db_get_principal_ext, Checked, Succeeds, Request_unchanged
  <2> QED
    BY <2>1, <2>2
<1>7. CASE principal_not_found
  BY <1>1, <1>7 DEF principal_not_found, Request_unchanged, Database_unchanged, Network_unchanged
<1>8. CASE uninitialised_entry
  <2>1. CASE Cleanup("krb5_dbe_find_enctype")
    BY <1>2, <1>8, <2>1 DEF uninitialised_entry
  <2>2. CASE ~Cleanup("krb5_dbe_find_enctype")
    BY <1>1, <1>8, <2>2 DEF uninitialised_entry, Request_unchanged
  <2> QED
    BY <2>1, <2>2
<1>9. CASE krb5_dbe_find_enctype
  <2>1. CASE Cleanup("krb5_dbe_find_enctype")
    BY <1>2, <1>9, <2>1 DEF krb5_dbe_find_enctype, Checked
  <2>2. CASE ~Cleanup("krb5_dbe_find_enctype")
    BY <1>1, <1>9, <2>2 DEF krb5_dbe_find_enctype, Checked, Succeeds, Request_unchanged
  <2> QED
    BY <2>1, <2>2
<1>10. CASE krb5_dbe_find_mkey
  BY <1>1, <1>10 DEF krb5_dbe_find_mkey, Succeeds, Request_unchanged, Database_unchanged, Network_unchanged
<1>11. CASE krb5_db_fetch_mkey_list
  <2>1. CASE Cleanup("krb5_db_fetch_mkey_list")
    BY <1>2, <1>11, <2>1 DEF krb5_db_fetch_mkey_list
  <2>2. CASE ~Cleanup("krb5_db_fetch_mkey_list")
    BY <1>1, <1>11, <2>2 DEF krb5_db_fetch_mkey_list, Refreshed, Succeeds, Request_unchanged, EntryIsOld, TypeOK
  <2> QED
    BY <2>1, <2>2
<1>12. CASE krb5_dbekd_decrypt_key_data
  <2>1. CASE Cleanup("krb5_dbekd_decrypt_key_data")
    BY <1>2, <1>12, <2>1 DEF krb5_dbekd_decrypt_key_data, Checked
  <2>2. CASE ~Cleanup("krb5_dbekd_decrypt_key_data")
    BY <1>1, <1>12, <2>2 DEF krb5_dbekd_decrypt_key_data, Checked, Succeeds, Request_unchanged
  <2> QED
    BY <2>1, <2>2
<1>13. CASE socket_fails
  BY <1>1, <1>13 DEF socket_fails, Database_unchanged, Network_unchanged
<1>14. CASE socket
  BY <1>1, <1>14 DEF socket, Database_unchanged
<1>15. CASE setsockopt_fails
  BY <1>1, <1>15 DEF setsockopt_fails, Request_unchanged, Database_unchanged
<1>16. CASE connect
  BY <1>1, <1>16 DEF connect, Database_unchanged, Network_unchanged
<1>17. CASE connect_fails
  BY <1>1, <1>17 DEF connect_fails, Database_unchanged
<1>18. CASE send
  BY <1>1, <1>18 DEF send, Database_unchanged, AfterSend
<1>19. CASE if_errcode
  <2>1. CASE errcode
    <3>1. ~request.mikey /\ failed = "krb5_encrypt_tkt_part" /\ ~forwarded
      BY <1>19, <2>1 DEF if_errcode, FailureKnown, ToldOnce
    <3>2. Cleanup("krb5_encrypt_tkt_part") /\ pc \notin {"idle", "exited"}
      BY <1>19, <2>1 DEF if_errcode
    <3> QED
      BY <3>1, <3>2, CleanupAnswer
  <2>2. CASE ~errcode
    BY <1>1, <1>19, <2>2 DEF if_errcode, Request_unchanged
  <2> QED
    BY <2>1, <2>2
<1>20. CASE late_error
  <2>1. PICK s \in LateStep : Cleanup(s)
    BY <1>20 DEF late_error
  <2>2. pc = "reply" /\ (failed # NONE => request.mikey)
    BY <1>20 DEF late_error, FailureKnown
  <2> QED
    BY <2>1, <2>2, CleanupAnswer
<1>21. CASE issue
  <2>1. /\ answer' = [mikey |-> request.mikey, status |-> "ISSUE", failed |-> failed,
                       reachable |-> reachable, forwarded |-> forwarded]
        /\ refused' = refused /\ pc = "reply"
    BY <1>21 DEF issue, Reply, Network_unchanged
  <2>2. ForwardedWhileReachable'
    BY <2>1 DEF ForwardedWhileReachable, ToldOnce
  <2>3. StatusNamesFailure'
    BY <2>1 DEF StatusNamesFailure, FailureKnown
  <2>4. ToldThenLateErrors'
    BY <2>1 DEF ToldThenLateErrors
  <2> QED
    BY <2>2, <2>3, <2>4
<1>22. CASE master_key_rollover
  BY <1>1, <1>22 DEF master_key_rollover, Request_unchanged, Network_unchanged
<1>23. CASE gcks_dies
  BY <1>1, <1>23 DEF gcks_dies, Database_unchanged
<1>24. CASE gcks_starts
  BY <1>1, <1>24 DEF gcks_starts, Request_unchanged, Database_unchanged
<1>25. CASE krb5_unparse_name
  BY <1>1, <1>25 DEF krb5_unparse_name, Request_unchanged, Database_unchanged
<1>26. CASE UNCHANGED vars
  BY <1>26 DEF vars, ForwardedWhileReachable, StatusNamesFailure, ToldThenLateErrors, Answered
<1> QED
  BY <1>3, <1>4, <1>5, <1>6, <1>7, <1>8, <1>9, <1>10, <1>11, <1>12, <1>13, <1>14, <1>15, <1>16, <1>17, <1>18, <1>19, <1>20, <1>21, <1>22, <1>23, <1>24, <1>25, <1>26 DEF Next, KdcNext

--------------------------------------------------------------------------
\* The inductive invariant holds from the first state on.
THEOREM InductiveInvariant == Spec => []IInv
<1>1. Init => IInv
  <2> SUFFICES ASSUME Init PROVE IInv
    OBVIOUS
  <2>1. TypeOK
    <3>1. {gcks, reachable, forwarded} \subseteq BOOLEAN
      BY Zenon DEF Init
    <3>2. FdLimit \in Nat /\ MaxRollover \in Nat
      BY BoundAssumption
    <3>3. fds \in 0 .. FdLimit /\ refused \in 0 .. FdLimit
      BY <3>2 DEF Init
    <3>4. {master_keylist, mkvno, gcks_db_entry} \subseteq 0 .. MaxRollover
      BY <3>2 DEF Init
    <3> QED
      BY <3>1, <3>3, <3>4 DEF Init, TypeOK
  <2>2. FdsCounted /\ EntryIsOld
    BY DEF Init, FdsCounted, EntryIsOld
  <2>3. FailureKnown /\ ToldOnce
    BY DEF Init, FailureKnown, ToldOnce, KeySearch, GcksCall, MikeyStep
  <2>4. ForwardedWhileReachable /\ StatusNamesFailure /\ ToldThenLateErrors
    BY DEF Init, ForwardedWhileReachable, StatusNamesFailure, ToldThenLateErrors, Answered
  <2> QED
    BY <2>1, <2>2, <2>3, <2>4 DEF IInv
<1>2. IInv /\ [Next]_vars => IInv'
  BY TypeStep, CountStep, RequestStep, AnswerStep DEF IInv
<1> QED
  BY <1>1, <1>2, PTL DEF Spec

\* The variables keep their types; in particular the KDC's open descriptors
\* stay within the limit of the process, and so do the connects it was refused.
THEOREM TypeCorrect == Spec => []TypeOK
<1>1. IInv => TypeOK
  BY DEF IInv
<1> QED
  BY <1>1, InductiveInvariant, PTL

\* Whatever fails and whenever the GCKS comes and goes, the key of a MIKEY
\* ticket reaches a GCKS that is there exactly until the sockets of refused
\* connects have used the KDC's descriptors up.
THEOREM ForwardedUntilFull == Spec => []ForwardedWhileReachable
<1>1. IInv => ForwardedWhileReachable
  BY DEF IInv
<1> QED
  BY <1>1, InductiveInvariant, PTL

\* An error answer names the first failure, but for that of a MIKEY ticket's
\* encryption, which no error names.
THEOREM FirstFailureNamed == Spec => []StatusNamesFailure
<1>1. IInv => StatusNamesFailure
  BY DEF IInv
<1> QED
  BY <1>1, InductiveInvariant, PTL

\* A request the GCKS was told of is refused only while the reply is built or
\* encoded, by one of the four calls that can fail there, and never for a
\* failure of the MIKEY part or of the ticket's encryption.
THEOREM ToldBeforeReply == Spec => []ToldThenLateErrors
<1>1. IInv => ToldThenLateErrors
  BY DEF IInv
<1> QED
  BY <1>1, InductiveInvariant, PTL
==========================================================================
