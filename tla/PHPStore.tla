------------------------------ MODULE PHPStore ------------------------------
(***************************************************************************)
(* php-runtimes.json: the methods of PHPRegistry run by concurrent requests *)
(* on a StateStore.                                                         *)
(***************************************************************************)
EXTENDS StateStore, PHPRegistry

PHPOps ==
    [method : {"Register"}, version : SupportedVersions \cup {Unset},
     binary : Binaries, service : FPMServices \cup {Unset}]
      \cup [method : {"SetDefault", "Get"}, version : SupportedVersions]
      \cup [method : {"DefaultRuntime"}]

Found(st, v) ==
    [answer |-> IF v = Unset THEN "notfound" ELSE "ok", save |-> FALSE, next |-> st]

PHPApply(o, st) ==
    CASE o.method = "Register" ->
             RegisterRuntime(st, o.version, o.binary, o.service)
      [] o.method = "SetDefault" -> SetDefault(st, o.version)
      [] o.method = "Get" -> Found(st, GetRuntime(st, o.version))
      [] o.method = "DefaultRuntime" -> Found(st, DefaultRuntime(st))

\* At most one runtime for each version.
RuntimeMaps ==
    UNION {{f \in [D -> RuntimeRecords] : \A v \in D : f[v].version = v} :
              D \in SUBSET SupportedVersions}
RecordsOf(f) == {f[v] : v \in DOMAIN f}
PHPStates ==
    {[runtimes |-> RecordsOf(f), default |-> d] :
        f \in RuntimeMaps, d \in SupportedVersions \cup {Unset}}

\* The store is used for this registry.
ASSUME PHPStoreAssumption ==
    /\ Ops \subseteq PHPOps /\ States = PHPStates /\ Empty = NoRuntimes
    /\ \A o \in Ops, st \in States : Apply(o, st) = PHPApply(o, st)

Runtimes == Decode(file)

\* The default version always names a registered runtime, and there is one
\* as soon as a runtime is registered: a site without a version of its own
\* can be resolved (php_registry.go:108-122, 209-263).
DefaultIsRegistered ==
    IF Runtimes.runtimes = {} THEN Runtimes.default = Unset
    ELSE HasRuntime(Runtimes, Runtimes.default)

\* A registered version stays registered, whatever registrations overlap:
\* sites that use it keep resolving (php_registry.go:68-132).
RuntimesAreKept ==
    [][\A r \in Runtimes.runtimes : HasRuntime(Runtimes', r.version)]_file
=============================================================================
