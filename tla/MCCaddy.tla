------------------------------ MODULE MCCaddy -------------------------------
(***************************************************************************)
(* Instances of Caddy: two sites, one of which may have a file already, and *)
(* a Caddyfile the operator wrote.                                          *)
(***************************************************************************)
EXTENDS Caddy

\* A single domain, where only one site can be active.
OneConfig == {[domain |-> "a.test", php |-> "8.3"]}
MCConfigs == [domain : {"a.test", "b.test"}, php : {"8.3"}]

\* Nothing managed yet; s2 has a file of somebody else.
FreshFiles == [p \in Paths |-> IF p = Root THEN {"operator"}
                               ELSE IF p = "s2" THEN Foreign ELSE Absent]
\* One site is active.
ActiveFiles == [p \in Paths |-> IF p = Root THEN {"operator", Import}
                                ELSE IF p = "s1" THEN [domain |-> "a.test", php |-> "8.3"]
                                ELSE Absent]
\* One site is active, and the Caddyfile holds the import and nothing else.
ImportOnly == [ActiveFiles EXCEPT ![Root] = {Import}]

SomeFiles == {FreshFiles, ActiveFiles}
OnlyImport == {ImportOnly}
=============================================================================
