------------------------------ MODULE MCHosts -------------------------------
(***************************************************************************)
(* Hosts with up to three scripts.                                         *)
(***************************************************************************)
EXTENDS Hosts, TLC

UpToThree == {<<>>} \cup [1 .. 1 -> Outcome] \cup [1 .. 2 -> Outcome] \cup [1 .. 3 -> Outcome]
=============================================================================
