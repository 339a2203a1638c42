-------------------------- MODULE SiteStore_proofs --------------------------
(***************************************************************************)
(* Theorems about sites.json, for any roots, names, domains, versions and   *)
(* concurrent requests: an operation on a decoded state gives a state       *)
(* again, touches the record of one site, and adds none that collides with  *)
(* another; and the file changes by such an operation only (FileChanges).   *)
(***************************************************************************)
EXTENDS SiteStore, StateStore_proofs, FiniteSetTheorems

\* What an outcome next of an operation on sites is.
OnlyTouches(sites, next, i) == \A s \in SiteRecords : s.id # i => (s \in sites <=> s \in next)

Sound(sites, next, i) ==
    /\ next \in SiteStates
    /\ OnlyTouches(sites, next, i)
    /\ AddedSiteIsNew(sites, next)

\* An operation that leaves the registry as it is.
LEMMA SameIsSound ==
    ASSUME NEW sites \in SiteStates, NEW i
    PROVE  Sound(sites, sites, i)
BY DEF Sound, OnlyTouches, AddedSiteIsNew, HasSite

LEMMA SiteOfIsIn ==
    ASSUME NEW sites \in SiteStates, NEW i, HasSite(sites, i)
    PROVE  /\ SiteOf(sites, i) \in sites /\ SiteOf(sites, i).id = i
           /\ \A s \in sites : s.id = i => s = SiteOf(sites, i)
<1>1. PICK s \in sites : s.id = i
  BY DEF HasSite
<1>2. SiteOf(sites, i) \in sites /\ SiteOf(sites, i).id = i
  BY <1>1 DEF SiteOf
<1> QED BY <1>2 DEF SiteStates

\* Register, with an identifier that no record has.
LEMMA RegisterIsSound ==
    ASSUME NEW sites \in SiteStates, NEW i \in SiteIds, NEW root \in Roots,
           NEW raw \in Domains \cup {Unset}, NEW php \in SupportedVersions,
           ~HasSite(sites, i)
    PROVE  Sound(sites, Register(sites, i, root, raw, php).next, i)
<1> DEFINE domain == normalizeDomain(raw, deriveSiteName(root))
           record == [id |-> i, root |-> root, domain |-> domain, php |-> php]
           o == Register(sites, i, root, raw, php)
<1>1. CASE ~ValidateLaravelPath(root) \/ Collides(sites, root, domain)
  <2>1. o.next = sites
    BY <1>1 DEF Register, Outcome
  <2> QED BY <2>1, SameIsSound
<1>2. CASE ValidateLaravelPath(root) /\ ~Collides(sites, root, domain)
  <2>1. o.next = sites \cup {record}
    BY <1>2 DEF Register, Outcome
  <2>2. domain \in Domains
    BY RegistryAssumption DEF normalizeDomain, deriveSiteName
  <2>3. record \in SiteRecords /\ record.id = i
        /\ record.root = root /\ record.domain = domain
    BY <2>2 DEF SiteRecords
  <2>4. \A s \in sites : s.id # i
    BY DEF HasSite
  <2> HIDE DEF record, o, domain
  <2>5. sites \cup {record} \in SiteStates
    BY <2>3, <2>4 DEF SiteStates
  <2>6. AddedSiteIsNew(sites, sites \cup {record})
    BY <1>2, <2>3 DEF AddedSiteIsNew, HasSite
  <2>7. OnlyTouches(sites, sites \cup {record}, i)
    BY <2>3 DEF OnlyTouches
  <2> QED BY <2>1, <2>5, <2>6, <2>7 DEF Sound, o
<1> QED BY <1>1, <1>2

LEMMA UpdateIsSound ==
    ASSUME NEW sites \in SiteStates, NEW record \in SiteRecords
    PROVE  Sound(sites, Update(sites, record).next, record.id)
<1>1. CASE ~HasSite(sites, record.id)
  <2>1. Update(sites, record).next = sites
    BY <1>1 DEF Update, Outcome
  <2> QED BY <2>1, SameIsSound
<1>2. CASE HasSite(sites, record.id)
  <2> DEFINE old == SiteOf(sites, record.id)
             new == (sites \ {old}) \cup {record}
  <2>1. Update(sites, record).next = new
    BY <1>2 DEF Update, Outcome
  <2>2. old \in sites /\ old.id = record.id /\ \A s \in sites : s.id = record.id => s = old
    BY <1>2, SiteOfIsIn
  <2> HIDE DEF old
  <2>3. new \in SiteStates
    BY <2>2 DEF SiteStates
  <2>4. AddedSiteIsNew(sites, new)
    BY <1>2, <2>2 DEF AddedSiteIsNew, HasSite
  <2>5. OnlyTouches(sites, new, record.id)
    BY <2>2 DEF OnlyTouches
  <2> QED BY <2>1, <2>3, <2>4, <2>5 DEF Sound
<1> QED BY <1>1, <1>2

LEMMA DeleteIsSound ==
    ASSUME NEW sites \in SiteStates, NEW i \in SiteIds
    PROVE  Sound(sites, Delete(sites, i).next, i)
<1>1. CASE ~HasSite(sites, i)
  <2>1. Delete(sites, i).next = sites
    BY <1>1 DEF Delete, Outcome
  <2> QED BY <2>1, SameIsSound
<1>2. CASE HasSite(sites, i)
  <2> DEFINE old == SiteOf(sites, i)
  <2>1. Delete(sites, i).next = sites \ {old}
    BY <1>2 DEF Delete, Outcome
  <2>2. old \in sites /\ old.id = i
    BY <1>2, SiteOfIsIn
  <2> HIDE DEF old
  <2>3. sites \ {old} \in SiteStates
    BY DEF SiteStates
  <2>4. AddedSiteIsNew(sites, sites \ {old})
    BY DEF AddedSiteIsNew, HasSite
  <2>5. OnlyTouches(sites, sites \ {old}, i)
    BY <2>2 DEF OnlyTouches
  <2> QED BY <2>1, <2>3, <2>4, <2>5 DEF Sound
<1> QED BY <1>1, <1>2

\* Every method of the registry touches one identifier.
LEMMA ApplyIsSound ==
    ASSUME NEW o \in SiteOps, NEW sites \in SiteStates
    PROVE  \E i \in SiteIds : Sound(sites, SiteApply(o, sites).next, i)
<1>1. CASE o.method = "Register"
  <2>1. /\ o.id \in SiteIds /\ o.root \in Roots /\ o.domain \in Domains \cup {Unset}
        /\ o.php \in SupportedVersions
    BY <1>1 DEF SiteOps
  <2>2. SiteApply(o, sites) = IF HasSite(sites, o.id) THEN Outcome("refused", sites, FALSE)
                              ELSE Register(sites, o.id, o.root, o.domain, o.php)
    BY <1>1 DEF SiteApply
  <2>3. CASE HasSite(sites, o.id)
    BY <2>1, <2>2, <2>3, SameIsSound DEF Outcome
  <2>4. CASE ~HasSite(sites, o.id)
    BY <2>1, <2>2, <2>4, RegisterIsSound
  <2> QED BY <2>3, <2>4
<1>2. CASE o.method = "Update"
  <2>1. o.record \in SiteRecords /\ SiteApply(o, sites) = Update(sites, o.record)
    BY <1>2 DEF SiteOps, SiteApply
  <2>2. o.record.id \in SiteIds
    BY <2>1 DEF SiteRecords
  <2> QED BY <2>1, <2>2, UpdateIsSound
<1>3. CASE o.method = "Delete"
  <2>1. o.id \in SiteIds /\ SiteApply(o, sites) = Delete(sites, o.id)
    BY <1>3 DEF SiteOps, SiteApply
  <2> QED BY <2>1, DeleteIsSound
<1>4. CASE o.method = "Get"
  <2>1. o.id \in SiteIds /\ SiteApply(o, sites).next = sites
    BY <1>4 DEF SiteOps, SiteApply, Get, Outcome
  <2> QED BY <2>1, SameIsSound
<1> QED BY <1>1, <1>2, <1>3, <1>4 DEF SiteOps

-----------------------------------------------------------------------------
\* A save of the file touches one site.
LEMMA SaveIsSound ==
    ASSUME IInv, [Next]_vars, file' # file
    PROVE  Sites \in SiteStates /\ \E i \in SiteIds : Sound(Sites, Sites', i)
<1>1. PICK o \in Ops : /\ Decode(file) \in States
                       /\ Decode(file') = Apply(o, Decode(file)).next
  BY FileChanges
<1>2. o \in SiteOps /\ Decode(file) \in SiteStates
      /\ Decode(file') = SiteApply(o, Decode(file)).next
  BY <1>1, SiteStoreAssumption
<1> QED BY <1>2, ApplyIsSound DEF Sites

\* However many registrations and updates overlap, a record that enters the
\* file has a name and a domain that no other record in it has
\* (site_registry.go:79-140).
THEOREM NoRegistrationEverCollides == Spec => RegistrationsNeverCollide
<1>1. IInv /\ [Next]_vars => [AddedSiteIsNew(Sites, Sites')]_file
  BY SaveIsSound DEF Sound
<1> QED BY <1>1, Invariance, PTL DEF Spec, RegistrationsNeverCollide

\* A save changes the record of at most one site, so that no request undoes
\* what another one saved for another site (site_registry.go:79-248).
THEOREM AlwaysOneSitePerSave == Spec => OneSitePerSave
<1>1. IInv /\ [Next]_vars => [Cardinality(ChangedIds(Sites, Sites')) <= 1]_file
  <2> SUFFICES ASSUME IInv, [Next]_vars, file' # file
               PROVE  Cardinality(ChangedIds(Sites, Sites')) <= 1
    OBVIOUS
  <2>1. PICK i \in SiteIds : Sound(Sites, Sites', i)
    BY SaveIsSound
  <2>2. \A s \in Sites : s \in SiteRecords
    BY SaveIsSound DEF SiteStates
  <2>3. \A s \in Sites' : s \in SiteRecords
    BY <2>1 DEF Sound, SiteStates
  <2>4. ChangedIds(Sites, Sites') \subseteq {i}
    BY <2>1, <2>2, <2>3 DEF ChangedIds, Sound, OnlyTouches
  <2>5. CASE ChangedIds(Sites, Sites') = {}
    BY <2>5, FS_EmptySet
  <2>6. CASE ChangedIds(Sites, Sites') = {i}
    BY <2>6, FS_Singleton
  <2> QED BY <2>4, <2>5, <2>6
<1> QED BY <1>1, Invariance, PTL DEF Spec, OneSitePerSave
=============================================================================
