------------------------------ MODULE MCRegistry ------------------------------
(* Instances of Registry for TLC: two or three threads, two plugins. *)
EXTENDS Registry

CONSTANTS r1, r2, r3

TwoThreads   == {r1, r2}
ThreeThreads == {r1, r2, r3}
=============================================================================
