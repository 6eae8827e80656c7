------------------------------ MODULE MCKm2 ------------------------------
(* Instances of Km2 for TLC. *)
EXTENDS Km2, TLC

CONSTANTS a, b, c3, h1, h2, h3

\* Clients that share a host, and so port 9999.
MCOneHost == [c \in Client |-> h1]

\* Each client on a host of its own.
MCThreeHosts == [c \in Client |-> CASE c = a -> h1 [] c = b -> h2 [] c = c3 -> h3]

\* One client runs twice, so that its cached ticket and a message left from
\* its first run meet the second, while the other runs once at any point of
\* that.
TwiceAndOnce == a :> 2 @@ b :> 1

Once  == [c \in Client |-> 1]
Twice == [c \in Client |-> 2]
==========================================================================
