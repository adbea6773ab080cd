------------------------ MODULE MCKubernetesRuntime ------------------------
(* An instance of KubernetesRuntime for TLC: two callers and the timer thread. *)
EXTENDS KubernetesRuntime

CONSTANTS c1, c2, tm

TwoCallers == {c1, c2, tm}
=============================================================================
