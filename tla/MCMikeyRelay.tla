--------------------------- MODULE MCMikeyRelay ---------------------------
(* Instance of MikeyRelay for TLC. *)
EXTENDS MikeyRelay, TLC

CONSTANTS a, b

\* Clients are interchangeable.
ClientSymmetry == Permutations(Client)
===========================================================================
