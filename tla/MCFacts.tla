------------------------------ MODULE MCFacts ------------------------------
(* Instances of Facts for TLC.                                             *)
EXTENDS Facts
=============================================================================
