--------------------------- MODULE PHPStore_proofs --------------------------
(***************************************************************************)
(* Theorems about php-runtimes.json, for any binaries, versions, services   *)
(* and concurrent requests: its operations on a decoded state give a state  *)
(* again, keep every registered version and a registered default; and the   *)
(* file changes by such an operation only (FileChanges).                    *)
(***************************************************************************)
EXTENDS PHPStore, StateStore_proofs

-----------------------------------------------------------------------------
(* The registry's states.                                                   *)

OnePerVersion(R) == \A r, s \in R : r.version = s.version => r = s

\* A state is a set of records, one for each version, and a version or none.
LEMMA StateIs ==
    ASSUME NEW R \in SUBSET RuntimeRecords, OnePerVersion(R),
           NEW d \in SupportedVersions \cup {Unset}
    PROVE  [runtimes |-> R, default |-> d] \in PHPStates
<1> DEFINE D == {r.version : r \in R}
           f == [v \in D |-> CHOOSE r \in R : r.version = v]
<1>1. D \in SUBSET SupportedVersions
  BY DEF RuntimeRecords
<1>2. \A v \in D : f[v] \in R /\ f[v].version = v
  OBVIOUS
<1>3. \A r \in R : r.version \in D /\ f[r.version] = r
  BY <1>2 DEF OnePerVersion
<1>4. DOMAIN f = D /\ f = [v \in D |-> f[v]]
  OBVIOUS
<1> HIDE DEF D, f
<1>5. f \in [D -> RuntimeRecords]
  BY <1>2, <1>4
<1>6. f \in {g \in [D -> RuntimeRecords] : \A v \in D : g[v].version = v}
  BY <1>2, <1>5
<1>7. f \in RuntimeMaps
  <2>1. \E E \in SUBSET SupportedVersions :
          f \in {g \in [E -> RuntimeRecords] : \A v \in E : g[v].version = v}
    BY <1>1, <1>6
  <2> QED BY <2>1 DEF RuntimeMaps
<1>8. R = RecordsOf(f)
  BY <1>2, <1>3, <1>4 DEF RecordsOf
<1> QED BY <1>7, <1>8 DEF PHPStates

LEMMA StateHas ==
    ASSUME NEW st \in PHPStates
    PROVE  /\ st = [runtimes |-> st.runtimes, default |-> st.default]
           /\ st.runtimes \in SUBSET RuntimeRecords
           /\ OnePerVersion(st.runtimes)
           /\ st.default \in SupportedVersions \cup {Unset}
<1>1. PICK f \in RuntimeMaps, d \in SupportedVersions \cup {Unset} :
        st = [runtimes |-> RecordsOf(f), default |-> d]
  BY DEF PHPStates
<1>2. PICK D \in SUBSET SupportedVersions :
        f \in [D -> RuntimeRecords] /\ \A v \in D : f[v].version = v
  BY <1>1 DEF RuntimeMaps
<1>3. RecordsOf(f) \in SUBSET RuntimeRecords /\ OnePerVersion(RecordsOf(f))
  BY <1>2 DEF OnePerVersion, RecordsOf
<1> QED BY <1>1, <1>3

-----------------------------------------------------------------------------
(* The operations.                                                          *)

\* A default is registered, and there is one when there is a runtime.
DefaultOf(st) ==
    IF st.runtimes = {} THEN st.default = Unset ELSE HasRuntime(st, st.default)

Kept(st, next) == \A r \in st.runtimes : HasRuntime(next, r.version)

\* Registering a verified binary.
LEMMA RegisterIsGood ==
    ASSUME NEW st \in PHPStates, NEW version, NEW binary \in Binaries,
           NEW service \in FPMServices \cup {Unset}
    PROVE  LET o == RegisterRuntime(st, version, binary, service)
           IN  /\ o.answer \in {"ok", "refused"} /\ o.save \in BOOLEAN
               /\ o.next \in PHPStates
               /\ ~o.save => o.next = st
               /\ Kept(st, o.next)
               /\ DefaultOf(st) => DefaultOf(o.next)
<1> DEFINE v == detectRuntimeVersion(binary)
           record == [version |-> v, binary |-> binary,
                      service |-> IF service = Unset THEN PHPFPMServiceName[v]
                                  ELSE service]
           others == {r \in st.runtimes : r.version # v}
           default == IF st.default = Unset THEN v ELSE st.default
           o == RegisterRuntime(st, version, binary, service)
<1> USE StateHas
<1>1. CASE ~Verified(version, binary)
  BY <1>1 DEF RegisterRuntime, Kept, HasRuntime
<1>2. CASE Verified(version, binary)
  <2>1. o = [answer |-> "ok", save |-> TRUE,
             next |-> [runtimes |-> others \cup {record}, default |-> default]]
    BY <1>2 DEF RegisterRuntime
  <2> HIDE DEF o
  <2>2. v \in SupportedVersions /\ v # Unset
    BY <1>2, CommonAssumption DEF Verified
  <2>3. record \in RuntimeRecords
    BY <2>2, RuntimeAssumption DEF RuntimeRecords
  <2>4. OnePerVersion(others \cup {record})
    BY <2>3 DEF OnePerVersion
  <2>6. \A r \in st.runtimes : r.version = record.version \/ r \in others
    OBVIOUS
  <2>9. others \cup {record} \in SUBSET RuntimeRecords /\ record.version = v
        /\ default \in SupportedVersions \cup {Unset} /\ record \in others \cup {record}
    BY <2>2, <2>3
  <2> HIDE DEF record, others, v, default
  <2>5. o.next \in PHPStates
    BY <2>1, <2>4, <2>9, StateIs
  <2>7. Kept(st, o.next)
    BY <2>1, <2>6 DEF Kept, HasRuntime
  <2>8. ASSUME DefaultOf(st) PROVE DefaultOf(o.next)
    <3>1. CASE st.default = Unset
      <4>1. default = v
        BY <3>1 DEF default
      <4> QED BY <2>1, <2>9, <4>1 DEF DefaultOf, HasRuntime
    <3>2. CASE st.default # Unset
      <4>1. default = st.default
        BY <3>2 DEF default
      <4>2. PICK r \in st.runtimes : r.version = st.default
        BY <2>8, <3>2 DEF DefaultOf, HasRuntime
      <4> QED BY <2>1, <2>7, <4>1, <4>2 DEF DefaultOf, HasRuntime, Kept
    <3> QED BY <3>1, <3>2
  <2> QED BY <2>1, <2>5, <2>7, <2>8 DEF o
<1> QED BY <1>1, <1>2

\* Choosing another default.
LEMMA SetDefaultIsGood ==
    ASSUME NEW st \in PHPStates, NEW v \in SupportedVersions
    PROVE  LET o == SetDefault(st, v)
           IN  /\ o.answer \in {"ok", "notfound"} /\ o.save \in BOOLEAN
               /\ o.next \in PHPStates
               /\ ~o.save => o.next = st
               /\ Kept(st, o.next)
               /\ DefaultOf(st) => DefaultOf(o.next)
<1> DEFINE o == SetDefault(st, v)
<1>1. CASE ~HasRuntime(st, v)
  BY <1>1 DEF SetDefault, Kept, HasRuntime
<1>2. CASE HasRuntime(st, v)
  <2>1. o.next = [runtimes |-> st.runtimes, default |-> v] /\ o.answer = "ok" /\ o.save
    BY <1>2, StateHas DEF SetDefault
  <2>2. o.next \in PHPStates
    BY <2>1, StateHas, StateIs
  <2> QED BY <1>2, <2>1, <2>2 DEF Kept, HasRuntime, DefaultOf, SetDefault
<1> QED BY <1>1, <1>2

\* Every operation of the registry: with it the assumption that StateStore
\* makes of Apply holds for any binaries, versions and services.
LEMMA ApplyIsGood ==
    ASSUME NEW o \in PHPOps, NEW st \in PHPStates
    PROVE  /\ PHPApply(o, st).answer \in {"ok", "refused", "notfound"}
           /\ PHPApply(o, st).save \in BOOLEAN
           /\ PHPApply(o, st).next \in PHPStates
           /\ ~PHPApply(o, st).save => PHPApply(o, st).next = st
           /\ Kept(st, PHPApply(o, st).next)
           /\ DefaultOf(st) => DefaultOf(PHPApply(o, st).next)
<1>1. CASE o.method = "Register"
  <2>1. o.binary \in Binaries /\ o.service \in FPMServices \cup {Unset}
    BY <1>1 DEF PHPOps
  <2>2. PHPApply(o, st) = RegisterRuntime(st, o.version, o.binary, o.service)
    BY <1>1 DEF PHPApply
  <2> QED BY <2>1, <2>2, RegisterIsGood
<1>2. CASE o.method = "SetDefault"
  <2>1. o.version \in SupportedVersions /\ PHPApply(o, st) = SetDefault(st, o.version)
    BY <1>2 DEF PHPOps, PHPApply
  <2> QED BY <2>1, SetDefaultIsGood
<1>3. CASE o.method \in {"Get", "DefaultRuntime"}
  <2>1. \E v : PHPApply(o, st) = Found(st, v)
    BY <1>3 DEF PHPApply
  <2> QED BY <2>1 DEF Found, Kept, HasRuntime
<1> QED BY <1>1, <1>2, <1>3 DEF PHPOps

-----------------------------------------------------------------------------
\* A save of the file keeps its versions and its default.
LEMMA SaveIsGood ==
    ASSUME IInv, [Next]_vars, file' # file
    PROVE  /\ Kept(Runtimes, Runtimes')
           /\ DefaultOf(Runtimes) => DefaultOf(Runtimes')
<1>1. PICK o \in Ops : /\ Decode(file) \in States
                       /\ Decode(file') = Apply(o, Decode(file)).next
  BY FileChanges
<1>2. o \in PHPOps /\ Decode(file) \in PHPStates
      /\ Decode(file') = PHPApply(o, Decode(file)).next
  BY <1>1, PHPStoreAssumption
<1> QED BY <1>2, ApplyIsGood DEF Runtimes

\* There is a default as soon as there is a runtime, and it is registered,
\* whatever registrations and changes of the default overlap, fail or die with
\* the daemon (php_registry.go:108-122, 209-263).
THEOREM DefaultAlwaysRegistered == Spec => []DefaultIsRegistered
<1>1. Init => DefaultIsRegistered
  BY PHPStoreAssumption
     DEF Init, DefaultIsRegistered, Runtimes, Decode, NoRuntimes
<1>2. IInv /\ DefaultIsRegistered /\ [Next]_vars => DefaultIsRegistered'
  <2> SUFFICES ASSUME IInv, DefaultIsRegistered, [Next]_vars
               PROVE  DefaultIsRegistered'
    OBVIOUS
  <2>1. CASE file' = file
    BY <2>1 DEF DefaultIsRegistered, Runtimes
  <2>2. CASE file' # file
    BY <2>2, SaveIsGood DEF DefaultIsRegistered, DefaultOf
  <2> QED BY <2>1, <2>2
<1> QED BY <1>1, <1>2, Invariance, PTL DEF Spec

\* No save of the registry drops a version that another request registered
\* (php_registry.go:68-132).
THEOREM RuntimesAlwaysKept == Spec => RuntimesAreKept
<1>1. IInv /\ [Next]_vars =>
        [\A r \in Runtimes.runtimes : HasRuntime(Runtimes', r.version)]_file
  BY SaveIsGood DEF Kept
<1> QED BY <1>1, Invariance, PTL DEF Spec, RuntimesAreKept
=============================================================================
