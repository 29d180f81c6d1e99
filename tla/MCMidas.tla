------------------------------ MODULE MCMidas -------------------------------
(***************************************************************************)
(* One or two words that fit, for TLC.                                     *)
(***************************************************************************)
EXTENDS Midas

MCWord == 1..2
MCOneWord == {1}
MCCut == [w \in Word |-> w]
=============================================================================
