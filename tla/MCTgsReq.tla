----------------------------- MODULE MCTgsReq -----------------------------
(* Instances of TgsReq for TLC. *)
EXTENDS TgsReq
===========================================================================
