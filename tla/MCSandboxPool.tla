---------------------------- MODULE MCSandboxPool ----------------------------
(* Instances of SandboxPool for TLC: more borrowers than sandboxes.  Besides *)
(* the Size sandboxes of the pool one identity is free for a replacement,    *)
(* and a fourth for the one a replaced sandbox gives back.                   *)
EXTENDS SandboxPool

CONSTANTS b1, b2, b3, s1, s2, s3, s4

TwoBorrowers   == {b1, b2}
ThreeBorrowers == {b1, b2, b3}
ThreeSandboxes == {s1, s2, s3}
FourSandboxes  == {s1, s2, s3, s4}
=============================================================================
