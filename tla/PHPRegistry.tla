---------------------------- MODULE PHPRegistry -----------------------------
(***************************************************************************)
(* The methods of PHPRegistry (php_registry.go) as operators on the state   *)
(* in php-runtimes.json: the registered runtimes and the default version.   *)
(* PHPStore runs them on the state file, Orchestration uses them as atomic  *)
(* steps.  Runtimes are kept sorted by version in the file: a set here.     *)
(***************************************************************************)
EXTENDS Common

CONSTANTS
    Binaries,           \* executables a request may name
    DetectVersion,      \* the version each one reports, or Unset if it runs not
    FPMServices,        \* systemd units a runtime may use
    PHPFPMServiceName   \* the unit a version uses when the request names none

ASSUME RuntimeAssumption ==
    /\ DOMAIN DetectVersion = Binaries
    /\ \A v \in SupportedVersions : PHPFPMServiceName[v] \in FPMServices
    /\ Unset \notin FPMServices

RuntimeRecords ==
    [version : SupportedVersions, binary : Binaries, service : FPMServices]

NoRuntimes == [runtimes |-> {}, default |-> Unset]

RuntimeOf(st, v) == CHOOSE r \in st.runtimes : r.version = v
HasRuntime(st, v) == \E r \in st.runtimes : r.version = v

\* What the executable says its version is, if it can be run.
detectRuntimeVersion(binary) == DetectVersion[binary]

\* verifyRuntime: the binary answers with a supported version, and with the
\* one the request asked for if it asked for one.
Verified(version, binary) ==
    /\ detectRuntimeVersion(binary) \in SupportedVersions
    /\ version \in {Unset, detectRuntimeVersion(binary)}

\* Mutant of RegisterRuntime: the list is replaced, not extended.
RegisterOnly(st, version, binary, service) ==
    LET v == detectRuntimeVersion(binary)
        record == [version |-> v, binary |-> binary,
                   service |-> IF service = Unset THEN PHPFPMServiceName[v]
                               ELSE service]
    IN  IF Verified(version, binary)
          THEN [answer |-> "ok", save |-> TRUE,
                next |-> [runtimes |-> {record}, default |-> v]]
          ELSE [answer |-> "refused", save |-> FALSE, next |-> st]

\* Register replaces the runtime of the detected version or adds it; the
\* first runtime becomes the default.
RegisterRuntime(st, version, binary, service) ==
    LET v == detectRuntimeVersion(binary)
        record == [version |-> v, binary |-> binary,
                   service |-> IF service = Unset THEN PHPFPMServiceName[v]
                               ELSE service]
        others == {r \in st.runtimes : r.version # v}
    IN  IF Verified(version, binary)
          THEN [answer |-> "ok", save |-> TRUE,
                next |-> [runtimes |-> others \cup {record},
                          default |-> IF st.default = Unset THEN v
                                      ELSE st.default]]
          ELSE [answer |-> "refused", save |-> FALSE, next |-> st]

\* Mutant of SetDefault: the version is not looked up.
SetDefaultUnchecked(st, v) ==
    [answer |-> "ok", save |-> TRUE, next |-> [st EXCEPT !.default = v]]

SetDefault(st, v) ==
    IF HasRuntime(st, v)
      THEN [answer |-> "ok", save |-> TRUE, next |-> [st EXCEPT !.default = v]]
      ELSE [answer |-> "notfound", save |-> FALSE, next |-> st]

\* Get and DefaultRuntime: the version they find, or Unset for not found.
GetRuntime(st, v) == IF HasRuntime(st, v) THEN v ELSE Unset
DefaultRuntime(st) == GetRuntime(st, st.default)

\* resolveRuntime of the services: the default when the request names none.
resolveRuntime(st, v) == IF v = Unset THEN DefaultRuntime(st) ELSE GetRuntime(st, v)
=============================================================================
