---------------------------- MODULE MCRemoteWorker ----------------------------
(* Instances of RemoteWorker for TLC. *)
EXTENDS RemoteWorker, TLC

CONSTANTS o1, o2, u1, i1, i2

TwoObjects == {o1, o2}
OneUser    == {u1}
TwoIds     == {i1, i2}

\* Objects and ids are interchangeable; every property of the runs is an invariant.
Interchangeable == Permutations(TwoObjects) \cup Permutations(TwoIds)
=============================================================================
