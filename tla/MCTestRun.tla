---------------------------- MODULE MCTestRun ----------------------------
(* Instances of TestRun for TLC. *)
EXTENDS TestRun, TLC

\* The ends of the accepted range, and what is just outside it.
MCTime == {-1, 0, 100, 101}
==========================================================================
