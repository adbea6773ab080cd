---------------------------- MODULE MCExecStream ----------------------------
(* An instance of ExecStream for TLC; the bounds are in the configurations. *)
EXTENDS ExecStream
=============================================================================
