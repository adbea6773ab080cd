--------------------------- MODULE MCDockerRuntime ---------------------------
(* Instances of DockerRuntime for TLC: two or three host threads. *)
EXTENDS DockerRuntime

CONSTANTS t1, t2, t3

TwoThreads   == {t1, t2}
ThreeThreads == {t1, t2, t3}
=============================================================================
