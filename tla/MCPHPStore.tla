----------------------------- MODULE MCPHPStore -----------------------------
(***************************************************************************)
(* Two requests that register runtimes and change the default.  One binary  *)
(* reports an unsupported version, one does not run at all, and two report  *)
(* the same version.                                                        *)
(***************************************************************************)
EXTENDS PHPStore

CONSTANTS c1, c2

MCDetectVersion ==
    [b \in {"php82", "php83", "php83b", "php74", "sh"} |->
        CASE b = "php82" -> "8.2" [] b \in {"php83", "php83b"} -> "8.3"
          [] b = "php74" -> "7.4" [] b = "sh" -> Unset]
MCServiceName == [v \in {"8.2", "8.3"} |-> IF v = "8.2" THEN "fpm82" ELSE "fpm83"]

\* Register with and without a requested version, and with a version that the
\* binary does not have.
MCOps ==
    {o \in PHPOps :
        o.method = "Register" =>
            <<o.version, o.binary, o.service>> \in
              {<<Unset, "php82", Unset>>, <<"8.3", "php83", Unset>>,
               <<"8.3", "php83b", "custom">>, <<"8.2", "php83", Unset>>,
               <<Unset, "php74", Unset>>, <<Unset, "sh", Unset>>}}
=============================================================================
