--------------------------- MODULE MCDesktopShell ---------------------------
(***************************************************************************)
(* Each click may be a refresh, a change, a query or the tray's Refresh.    *)
(***************************************************************************)
EXTENDS DesktopShell, TLC

MCEmitterOf == ("c1" :> "e1") @@ ("c2" :> "e2")
=============================================================================
