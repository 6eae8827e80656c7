----------------------------- MODULE MCTiming -----------------------------
(* Instance of Timing for TLC: 60 "nanoseconds" in a second, 3 in a        *)
(* "millisecond", int of 8 and long of 16 bits.  As in the code's units,   *)
(* the third second overflows the product, the period of int is a little   *)
(* more than four seconds, and a tenth of a second is believed.            *)
EXTENDS Timing

MCClockStep == {-130, -1, 0}
===========================================================================
