-------------------------- MODULE MCKm2Harness ---------------------------
(* Instances of Km2Harness for TLC. *)
EXTENDS Km2Harness

CONSTANTS a, b, c3, h1, h2, h3

\* The test programs run every client on the machine they run on.
MCOneHost == [c \in Client |-> h1]

Once       == [c \in Client |-> 1]
ThreeTimes == [c \in Client |-> 3]
==========================================================================
