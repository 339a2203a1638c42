----------------------------- MODULE MCPackage ------------------------------
(***************************************************************************)
(* The instances of Package take their constants from the configurations.   *)
(***************************************************************************)
EXTENDS Package
=============================================================================
