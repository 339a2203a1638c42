------------------------------ MODULE MCHealth ------------------------------
(***************************************************************************)
(* Two sites of one version, whose runtime may be registered with the       *)
(* service of the derived name or with a service of a name of its own.      *)
(***************************************************************************)
EXTENDS Health, TLC

MCVersionOf == [i \in SiteIds |-> "v1"]
MCPHPFPMServiceName == "v1" :> "fpm1"
MCRuntimeServices == "v1" :> {"fpm1", "own"}
=============================================================================
