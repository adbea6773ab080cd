------------------------------ MODULE MCSandbox ------------------------------
(* Instances of Sandbox for TLC: one or two callers and the timer thread. *)
EXTENDS Sandbox

CONSTANTS c1, c2, tm

OneCaller  == {c1, tm}
TwoCallers == {c1, c2, tm}
=============================================================================
