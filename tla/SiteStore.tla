----------------------------- MODULE SiteStore ------------------------------
(***************************************************************************)
(* sites.json: the methods of SiteRegistry run by concurrent requests on a  *)
(* StateStore.                                                              *)
(***************************************************************************)
EXTENDS Naturals, StateStore, SiteRegistry

\* A method with its arguments.  Register draws a random identifier of eight
\* bytes: a drawn identifier is taken to be one that no record has.
SiteOps ==
    [method : {"Register"}, id : SiteIds, root : Roots,
     domain : Domains \cup {Unset}, php : SupportedVersions]
      \cup [method : {"Update"}, record : SiteRecords]
      \cup [method : {"Delete", "Get"}, id : SiteIds]

SiteApply(o, sites) ==
    CASE o.method = "Register" ->
             IF HasSite(sites, o.id)
               THEN Outcome("refused", sites, FALSE)
               ELSE Register(sites, o.id, o.root, o.domain, o.php)
      [] o.method = "Update" -> Update(sites, o.record)
      [] o.method = "Delete" -> Delete(sites, o.id)
      [] o.method = "Get"    -> Get(sites, o.id)

\* The registry's states: an identifier is in at most one record.
SiteStates ==
    {sites \in SUBSET SiteRecords : \A s, t \in sites : s.id = t.id => s = t}

\* The store is used for this registry.
ASSUME SiteStoreAssumption ==
    /\ Ops \subseteq SiteOps /\ States = SiteStates /\ Empty = {}
    /\ \A o \in Ops, sites \in States : Apply(o, sites) = SiteApply(o, sites)

Sites == Decode(file)

\* Whatever other requests do between its call and its save, a registration
\* that enters the file collides in name or domain with no record that is
\* there at that moment (site_registry.go:79-140).
AddedSiteIsNew(old, new) ==
    \A s \in new : ~HasSite(old, s.id) => ~Collides(old, s.root, s.domain)
RegistrationsNeverCollide == [][AddedSiteIsNew(Sites, Sites')]_file

\* A save changes the record of one site: it cannot undo or drop what a
\* concurrent request saved for another site.
ChangedIds(old, new) ==
    {i \in SiteIds : {s \in old : s.id = i} # {s \in new : s.id = i}}
OneSitePerSave == [][Cardinality(ChangedIds(Sites, Sites')) <= 1]_file
=============================================================================
