------------------------ MODULE GroupKeyTransport ------------------------
(***************************************************************************)
(* What the composition of Kerberos and MIKEY promises, whatever the       *)
(* network and the processes do: a session key belongs to the client the   *)
(* KDC generated it for; at most one group key is transported under a      *)
(* session key, or several where tickets are reused (KM1); and only the    *)
(* owner of that session key can come to accept the group key, at most     *)
(* once.  That it does come to accept it is not promised: any of the steps *)
(* may never happen.                                                       *)
(***************************************************************************)
EXTENDS Naturals, Sequences

CONSTANTS
  Client,
  Reuse     \* TRUE if a session key may protect several group keys

VARIABLES
  issued,   \* issued[k]: the client session key k was generated for
  wrapped,  \* wrapped[g]: the session key group key g is transported under
  accepted  \* which client accepted which group key

gktVars == <<issued, wrapped, accepted>>

GktInit ==
  /\ issued = <<>>
  /\ wrapped = <<>>
  /\ accepted = {}

\* The KDC generates a session key for client c.
IssueSessionKey(c) ==
  /\ issued' = Append(issued, c)
  /\ UNCHANGED <<wrapped, accepted>>

\* The GCKS generates a group key, to be transported under session key k.
WrapGroupKey(k) ==
  /\ Reuse \/ \A g \in DOMAIN wrapped : wrapped[g] # k
  /\ wrapped' = Append(wrapped, k)
  /\ UNCHANGED <<issued, accepted>>

\* The owner of the session key accepts group key g.
AcceptGroupKey(g) ==
  /\ \A a \in accepted : a.tgk # g
  /\ accepted' = accepted \cup {[tgk |-> g, client |-> issued[wrapped[g]]]}
  /\ UNCHANGED <<issued, wrapped>>

GktNext ==
  \/ \E c \in Client : IssueSessionKey(c)
  \/ \E k \in DOMAIN issued : WrapGroupKey(k)
  \/ \E g \in DOMAIN wrapped : AcceptGroupKey(g)

GktSpec == GktInit /\ [][GktNext]_gktVars
==========================================================================
