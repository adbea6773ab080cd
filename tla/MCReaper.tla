------------------------------ MODULE MCReaper ------------------------------
(* Instances of Reaper for TLC: one owner, one or two pruners. *)
EXTENDS Reaper

CONSTANTS o, p1, p2

OneOwner   == {o}
OnePruner  == {p1}
TwoPruners == {p1, p2}
SecondForced == {p2}
=============================================================================
