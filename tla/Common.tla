------------------------------- MODULE Common -------------------------------
(***************************************************************************)
(* Values that the registries and the services share.                       *)
(***************************************************************************)
CONSTANTS
    Unset,              \* an argument a request leaves out; no version at all
    SupportedVersions   \* the PHP versions of supportedPHPVersions

ASSUME CommonAssumption == Unset \notin SupportedVersions
=============================================================================
