----------------------------- MODULE MCSeries -----------------------------
(* Instances of Series for TLC. *)
EXTENDS Series, TLC

\* Two values of the parameter, not in the order of their size.
MCParam == <<3, 1>>
==========================================================================
