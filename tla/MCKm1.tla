------------------------------ MODULE MCKm1 ------------------------------
(* Instances of Km1 for TLC. *)
EXTENDS Km1, TLC

CONSTANTS a, b, c3

\* One client runs twice, so that its ticket and its stream meet a second
\* use, while the others run once at any point of that.
OneTwice == [c \in Client |-> IF c = a THEN 2 ELSE 1]
==========================================================================
