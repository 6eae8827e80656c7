--------------------------- MODULE Km2Harness ----------------------------
(***************************************************************************)
(* KM2 as the test programs drive it (test4.c; test1.c to test3.c have the *)
(* same loop): clients run one after the other, each only when the one     *)
(* before has ended, and each with a cache that create_client_cache has    *)
(* just filled with a TGT, so that it has to ask the KDC.  The KDC and the *)
(* GCKS go on in the background.                                           *)
(***************************************************************************)
EXTENDS Km2

NobodyRuns == \A c \in Client : pc[c] = "off"

\* The loop's next call of client_exec.
Mut_AnyCache(c) == NobodyRuns /\ client_exec(c)
Mut_Background(c) == ticket[c] = NoKey /\ client_exec(c)
harness_exec(c) == NobodyRuns /\ ticket[c] = NoKey /\ client_exec(c)

HarnessNext ==
  \/ \E c \in Client : harness_exec(c) \/ ClientStep(c)
  \/ \E c \in Client : NobodyRuns /\ recreate_client_cache(c)
  \/ KdcNext
  \/ GcksNext

HarnessSpec == Init /\ [][HarnessNext]_vars
FairHarnessSpec == HarnessSpec /\ Progress

--------------------------------------------------------------------------
\* A client that listens with a ticket in hand has its message on the way:
\* the KDC told the GCKS before it answered the client, and nobody else on
\* the host can have taken the call.
ListenerIsServed ==
  \A c \in Client : pc[c] = "accept" =>
    creds[c] \in Queued \cup InDelivery \cup KeysIn(inbox[c])

\* The client in the foreground reads its own message, and it authenticates.
EveryReadAuthenticates == \A r \in receipts : r.ok

\* When nobody runs, the KDC and the GCKS are idle too: no client inherits
\* a call meant for the one before.
NothingLeftBehind ==
  NobodyRuns => kpc = "idle" /\ requests = {} /\ Queued \cup InDelivery = {}

\* Every client that is started comes to accept its group key.
EveryRunCompletes ==
  \A c \in Client : \A n \in 1 .. MaxRun[c] :
    (pc[c] = "creds" /\ run[c] = n)
      ~> (\E r \in Accepted : r.client = c /\ r.run = n)
==========================================================================
