---------------------------- MODULE MCSiteStore -----------------------------
(***************************************************************************)
(* Two requests on a registry of two sites.  The roots r1 and r1copy derive *)
(* the same site name, so a registration can collide in name, in domain or  *)
(* in both; r9 is no Laravel project.                                       *)
(***************************************************************************)
EXTENDS SiteStore

CONSTANTS c1, c2

MCRoots == {"r1", "r1copy", "r2", "r9"}
MCNameOf == [r \in MCRoots |-> IF r = "r1copy" THEN "r1" ELSE r]
MCDomainOf == [n \in {"r1", "r2", "r9"} |->
                 IF n = "r1" THEN "r1.test" ELSE "r2.test"]

\* A selection of calls in which every refusal of Register can happen.
MCOps ==
    {o \in SiteOps :
       \/ /\ o.method = "Register"
          /\ <<o.id, o.root, o.domain>> \in
               {<<"i1", "r1", Unset>>, <<"i2", "r1copy", "r2.test">>,
                <<"i2", "r2", "r1.test">>, <<"i2", "r2", Unset>>,
                <<"i2", "r9", Unset>>}
       \/ /\ o.method = "Update"
          /\ o.record.root = "r1" /\ o.record.domain = "r1.test"
          /\ o.record.id = "i1"
       \/ o.method = "Delete"
       \/ o.method = "Get" /\ o.id = "i2"}
=============================================================================
