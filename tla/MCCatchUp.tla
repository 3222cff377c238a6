------------------------------ MODULE MCCatchUp ------------------------------
(* Instances of CatchUp for TLC.                                           *)
EXTENDS CatchUp
=============================================================================
