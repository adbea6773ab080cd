--------------------------- MODULE MCPythonSession ---------------------------
(* Instances of PythonSession for TLC: one or two sessions on a sandbox. *)
EXTENDS PythonSession

CONSTANTS p, q

OneSession  == {p}
TwoSessions == {p, q}
=============================================================================
