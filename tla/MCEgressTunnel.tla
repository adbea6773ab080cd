--------------------------- MODULE MCEgressTunnel ---------------------------
(* An instance of EgressTunnel for TLC; the bounds are in the configuration. *)
EXTENDS EgressTunnel
=============================================================================
