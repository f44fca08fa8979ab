------------------------------ MODULE MCSystem ------------------------------
(***************************************************************************)
(* An instance of System for TLC.  The market starts with the worse ask    *)
(* and the better bid; from there it can get to every order of two levels. *)
(***************************************************************************)
EXTENDS System

FullWindow == {Level}

SomeStart == hist[1] = [l \in Level |-> IF l[2] = 2 THEN 1 ELSE 0]

SomeInit == SystemInit /\ SomeStart

SystemSpecFrom == SomeInit /\ [][SystemNext]_systemVars /\ Fairness

=============================================================================
