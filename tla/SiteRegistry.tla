---------------------------- MODULE SiteRegistry ----------------------------
(***************************************************************************)
(* The methods of SiteRegistry (site_registry.go) as operators on the       *)
(* registry's state, the set of site records in sites.json.  SiteStore runs *)
(* them on the state file; Orchestration uses them as the atomic steps      *)
(* that StateStore implements.                                              *)
(*                                                                          *)
(* A record keeps what the services tell apart: its identifier, the project *)
(* root, the domain and the PHP version.  The name is a function of the     *)
(* root in every record the code writes, so it is not a field.  Time stamps *)
(* and status messages are left out; the status is "ready" in every record  *)
(* production code writes.                                                  *)
(***************************************************************************)
EXTENDS Common, FiniteSets

CONSTANTS
    SiteIds,       \* identifiers newRecordID may draw
    Roots,         \* project directories, after normalizeRootPath
    LaravelRoots,  \* those that ValidateLaravelPath accepts
    NameOf,        \* deriveSiteName: the site name of each root
    DomainOf,      \* the fallback domain of each name, name + ".test"
    Domains        \* domains that normalizeDomain accepts

ASSUME RegistryAssumption ==
    /\ LaravelRoots \subseteq Roots
    /\ DOMAIN NameOf = Roots
    /\ \A r \in Roots : DomainOf[NameOf[r]] \in Domains
    /\ Unset \notin Domains \cup Roots

SiteRecords ==
    [id : SiteIds, root : Roots, domain : Domains, php : SupportedVersions]

SiteOf(sites, i) == CHOOSE s \in sites : s.id = i
HasSite(sites, i) == \E s \in sites : s.id = i

\* The directory exists and holds what a Laravel project holds.
ValidateLaravelPath(root) == root \in LaravelRoots

\* Roots that differ may derive the same name.
deriveSiteName(root) == NameOf[root]

\* The fallback name for the domain; an invalid domain is never Accepted.
normalizeDomain(raw, name) == IF raw = Unset THEN DomainOf[name] ELSE raw

\* The loop both Register and prepareUpdatedSite run over the other records.
Collides(sites, root, domain) ==
    \E s \in sites : deriveSiteName(s.root) = deriveSiteName(root) \/ s.domain = domain

\* What one call does: its answer, the state after it, whether it saves.
Outcome(answer, next, save) == [answer |-> answer, next |-> next, save |-> save]

\* Mutant of Register: the domains are not compared.
RegisterByName(sites, i, root, raw, php) ==
    LET domain == normalizeDomain(raw, deriveSiteName(root))
    IN  IF \/ ~ValidateLaravelPath(root)
           \/ \E s \in sites : deriveSiteName(s.root) = deriveSiteName(root)
          THEN Outcome("refused", sites, FALSE)
          ELSE Outcome("ok",
                       sites \cup {[id |-> i, root |-> root,
                                    domain |-> domain, php |-> php]},
                       TRUE)

Register(sites, i, root, raw, php) ==
    LET domain == normalizeDomain(raw, deriveSiteName(root))
    IN  IF ~ValidateLaravelPath(root) \/ Collides(sites, root, domain)
          THEN Outcome("refused", sites, FALSE)
          ELSE Outcome("ok",
                       sites \cup {[id |-> i, root |-> root,
                                    domain |-> domain, php |-> php]},
                       TRUE)

\* Mutant of Update: a record that is gone is added again.
Upsert(sites, record) ==
    Outcome("ok", {s \in sites : s.id # record.id} \cup {record}, TRUE)

\* Update replaces the record that has the identifier, and never adds one.
Update(sites, record) ==
    IF HasSite(sites, record.id)
      THEN Outcome("ok",
                   (sites \ {SiteOf(sites, record.id)}) \cup {record}, TRUE)
      ELSE Outcome("notfound", sites, FALSE)

\* Mutant of Delete: the records after the deleted one are cut off as well.
DeleteRest(sites, i) ==
    IF HasSite(sites, i) THEN Outcome("ok", {}, TRUE)
    ELSE Outcome("notfound", sites, FALSE)

Delete(sites, i) ==
    IF HasSite(sites, i)
      THEN Outcome("ok", sites \ {SiteOf(sites, i)}, TRUE)
      ELSE Outcome("notfound", sites, FALSE)

\* List and Get save nothing.
Get(sites, i) ==
    Outcome(IF HasSite(sites, i) THEN "ok" ELSE "notfound", sites, FALSE)
=============================================================================
