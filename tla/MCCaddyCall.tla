---------------------------- MODULE MCCaddyCall -----------------------------
(***************************************************************************)
(* The instance of CaddyCall: the constants are those of MCCaddy.           *)
(***************************************************************************)
EXTENDS CaddyCall, MCCaddy
=============================================================================
