--------------------------- MODULE Orchestration ----------------------------
(***************************************************************************)
(* The daemon's services that change the machine, run by concurrent         *)
(* requests on the registries and the host managers:                        *)
(*                                                                          *)
(*   activate  SiteActivationService.Activate       orchestration.go        *)
(*   update    SiteManagementService.Update         site_management.go      *)
(*   switch    PHPManager.SwitchSiteRuntime         php_manager.go          *)
(*   onboard   RuntimeOnboardingService.Register    runtime_onboarding.go   *)
(*   package   the same, from the installed packages                        *)
(*   default   RuntimeCatalogService.SetDefault     runtime_catalog.go      *)
(*                                                                          *)
(* The services keep no state and take no lock: each handler runs in its    *)
(* own goroutine.  A registry method is one atomic step here, which is what *)
(* StateStore is proved to implement; a call of a host manager runs step by *)
(* step in the manager's module.  Each request is served once.              *)
(***************************************************************************)
EXTENDS Host, SiteRegistry, PHPRegistry

CONSTANTS
    Jobs,             \* what a request may ask for
    Serial,           \* TRUE if a request starts only when no other runs
    MayCrash,         \* TRUE if the daemon may die
    InitialSiteSets,  \* registries (sites, all active) the daemon may start with
    InitialRuntimes,  \* the runtimes registered at the start
    OperatorBlocks,   \* see Caddy
    Root,
    Foreign,
    NoSite            \* a request that has no site

\* The requests the handlers let through to the services.
Requests ==
    [op : {"activate"}, root : Roots, domain : Domains \cup {Unset},
     php : SupportedVersions \cup {Unset}]
    \cup [op : {"update"}, id : SiteIds, root : Roots \cup {Unset},
          domain : Domains \cup {Unset}, php : SupportedVersions \cup {Unset}]
    \cup [op : {"switch"}, id : SiteIds, php : SupportedVersions]
    \cup [op : {"onboard", "package"}, version : SupportedVersions \cup {Unset},
          binary : Binaries, service : FPMServices \cup {Unset}]
    \cup [op : {"default"}, php : SupportedVersions]

ASSUME OrchestrationAssumption ==
    /\ Callers \subseteq SiteIds
    /\ Serial \in BOOLEAN /\ MayCrash \in BOOLEAN
    /\ Jobs \subseteq Requests
    /\ NoSite \notin SiteRecords
    /\ InitialRuntimes \in [runtimes : SUBSET RuntimeRecords,
                            default : SupportedVersions \cup {Unset}]
    /\ \A S \in InitialSiteSets :
          /\ S \subseteq SiteRecords
          /\ \A s \in S : s.id \notin Callers /\ ~Collides(S \ {s}, s.root, s.domain)
          /\ \A s, t \in S : s.id = t.id => s = t

VARIABLES
    sites, runtimes,                       \* sites.json, php-runtimes.json
    caddyFiles, caddyTemp, live, webCall,  \* Caddy
    stub, stubTemp, loaded, dnsCall,       \* Resolved
    fpmFiles, fpmTemp, fpm, phpCall,       \* PhpFpm
    pc,        \* where each request is in its service
    loc,       \* the service's local variables
    result     \* the answer to each request

web == <<caddyFiles, caddyTemp, live, webCall>>
dns == <<stub, stubTemp, loaded, dnsCall>>
php == <<fpmFiles, fpmTemp, fpm, phpCall>>
app == <<pc, loc, result>>
vars == <<sites, runtimes, web, dns, php, app, cancelled, faults>>

\* What a site file is rendered from.
siteToWebSite(s) == [domain |-> s.domain, root |-> s.root, php |-> s.php]
WebConfigs == [domain : Domains, root : Roots, php : SupportedVersions]

CaddyPaths == {Root} \cup SiteIds
FilesOf(S) == [p \in CaddyPaths |->
    IF p = Root THEN OperatorBlocks \cup (IF S = {} THEN {} ELSE {"import"})
    ELSE IF HasSite(S, p) THEN siteToWebSite(SiteOf(S, p)) ELSE Absent]

Web == INSTANCE Caddy WITH Configs <- WebConfigs, InitialFiles <- {FilesOf({})},
    files <- caddyFiles, temp <- caddyTemp, call <- webCall
Dns == INSTANCE Resolved WITH ExternalClaimant <- FALSE,
    temp <- stubTemp, call <- dnsCall
Php == INSTANCE PhpFpm WITH Versions <- SupportedVersions, NoVersion <- Unset,
    files <- fpmFiles, temp <- fpmTemp, call <- phpCall

ASSUME ManagersAssumption == Web!CaddyAssumption /\ Dns!ResolvedAssumption

-----------------------------------------------------------------------------
NoJob == [op |-> "none"]
NoLocals == [job |-> NoJob, current |-> NoSite, next |-> NoSite,
             runtime |-> Unset, committedWeb |-> FALSE, committedResolver |-> FALSE]

\* A machine on which the given sites are active.
Init ==
    /\ HostInit
    /\ sites \in InitialSiteSets
    /\ runtimes = InitialRuntimes
    /\ caddyFiles = FilesOf(sites)
    /\ caddyTemp = [p \in CaddyPaths |-> Absent]
    /\ live = {siteToWebSite(s) : s \in sites}
    /\ stub = (IF sites = {} THEN Absent ELSE "managed")
    /\ stubTemp = Absent
    /\ loaded = stub
    /\ fpmFiles = [p \in Php!Paths |->
                     IF \E s \in sites : s.php = p[2] THEN "managed" ELSE Absent]
    /\ fpmTemp = [p \in Php!Paths |-> Absent]
    /\ fpm = [v \in SupportedVersions |-> Php!Started(v)]
    /\ webCall = [r \in Callers |-> Web!Idle]
    /\ dnsCall = [r \in Callers |-> Dns!Idle]
    /\ phpCall = [r \in Callers |-> Php!Idle]
    /\ pc = [r \in Callers |-> "idle"]
    /\ loc = [r \in Callers |-> NoLocals]
    /\ result = [r \in Callers |-> "none"]

-----------------------------------------------------------------------------
(* Steps of a request.                                                      *)

At(r, l) == pc[r] = l
Job(r) == loc[r].job
Is(r, op) == Job(r).op = op
Goto(r, l) == pc' = [pc EXCEPT ![r] = l] /\ UNCHANGED result
Set(r, l) == loc' = [loc EXCEPT ![r] = l]

Finish(r, res) ==
    /\ pc' = [pc EXCEPT ![r] = "done"]
    /\ result' = [result EXCEPT ![r] = res]
    /\ loc' = [loc EXCEPT ![r] = [NoLocals EXCEPT !.job = Job(r)]]

\* A registry method gives up when the context is done; its load or save may
\* fail.  Either way the registry is as before.
StoreWorks(r) == r \notin cancelled /\ Works /\ UNCHANGED cancelled
StoreFails(r, kind) ==
    /\ (r \in cancelled /\ Works) \/ Fails(kind)
    /\ UNCHANGED cancelled

Running(r) == pc[r] \notin {"idle", "done", "dead"}

Begin(r, j) ==
    /\ At(r, "idle")
    /\ Serial => \A q \in Callers : ~Running(q)
    /\ Set(r, [NoLocals EXCEPT !.job = j])
    /\ Goto(r, CASE j.op = "activate" -> "resolve"
                 [] j.op \in {"update", "switch"} -> "get"
                 [] j.op = "onboard" -> "registerRuntime"
                 [] j.op = "package" -> "inventory"
                 [] j.op = "default" -> "setDefault")
    /\ UNCHANGED <<sites, runtimes, web, dns, php, cancelled, faults>>

-----------------------------------------------------------------------------
(* Activate.                                                                *)

Resolve(r) ==
    /\ At(r, "resolve")
    /\ LET v == resolveRuntime(runtimes, Job(r).php)
       IN  \/ /\ StoreWorks(r) /\ v # Unset
              /\ Set(r, [loc[r] EXCEPT !.runtime = v])
              /\ Goto(r, "register")
           \/ /\ StoreFails(r, "store") \/ (StoreWorks(r) /\ v = Unset)
              /\ Finish(r, "err")
    /\ UNCHANGED <<sites, runtimes, web, dns, php>>

\* newRecordID: the identifier of a new site is the name of its request.
RegisterSite(r) ==
    /\ At(r, "register")
    /\ LET o == Register(sites, r, Job(r).root, Job(r).domain, loc[r].runtime)
       IN  \/ /\ StoreWorks(r) /\ o.save
              /\ sites' = o.next
              /\ Set(r, [loc[r] EXCEPT !.current = SiteOf(o.next, r),
                                       !.next = SiteOf(o.next, r)])
              /\ Goto(r, "ensureStub")
              /\ Dns!EnsureTestStub(r)
           \/ /\ StoreFails(r, "store") \/ (StoreWorks(r) /\ ~o.save)
              /\ Finish(r, "err")
              /\ UNCHANGED <<sites, dnsCall>>
    /\ UNCHANGED <<runtimes, web, stub, stubTemp, loaded, php>>

\* The deferred rollback of Activate: the site file if Caddy has it, then the
\* resolver stub if this was the only site, then the record.
RollbackAfterWeb(r, l) ==
    Goto(r, IF l.committedResolver THEN "undoList" ELSE "undoRecord")

StubEnsured(r) ==
    /\ At(r, "ensureStub")
    /\ Dns!Collect(r)
    /\ IF dnsCall[r].result = "ok"
         THEN /\ Set(r, [loc[r] EXCEPT !.committedResolver = TRUE])
              /\ Goto(r, "materialize")
              /\ Php!MaterializeRuntime(r, loc[r].runtime)
         ELSE /\ RollbackAfterWeb(r, loc[r])
              /\ UNCHANGED <<loc, phpCall>>
    /\ UNCHANGED <<sites, runtimes, web, stub, stubTemp, loaded, fpmFiles, fpmTemp,
                   fpm, cancelled, faults>>

\* Mutants of UndoList: the stub is removed although other sites need it; and
\* nobody waits for its removal.
UndoListForAll(r) ==
    /\ At(r, "undoList")
    /\ \/ /\ StoreWorks(r)
          /\ Goto(r, "undoStub")
          /\ Dns!RemoveManagedStub(r)
       \/ /\ StoreFails(r, "undo")
          /\ Goto(r, "undoRecord")
          /\ UNCHANGED dnsCall
    /\ UNCHANGED <<sites, runtimes, web, stub, stubTemp, loaded, php, loc>>

UndoListInBackground(r) ==
    /\ At(r, "undoList")
    /\ \/ StoreWorks(r) /\ (\A s \in sites : s.id = r) /\ Dns!RemoveManagedStub(r)
       \/ /\ StoreFails(r, "undo") \/ (StoreWorks(r) /\ \E s \in sites : s.id # r)
          /\ UNCHANGED dnsCall
    /\ Goto(r, "undoRecord")
    /\ UNCHANGED <<sites, runtimes, web, stub, stubTemp, loaded, php, loc>>

UndoList(r) ==
    /\ At(r, "undoList")
    /\ \/ /\ StoreWorks(r) /\ \A s \in sites : s.id = r
          /\ Goto(r, "undoStub")
          /\ Dns!RemoveManagedStub(r)
       \/ /\ StoreFails(r, "undo") \/ (StoreWorks(r) /\ \E s \in sites : s.id # r)
          /\ Goto(r, "undoRecord")
          /\ UNCHANGED dnsCall
    /\ UNCHANGED <<sites, runtimes, web, stub, stubTemp, loaded, php, loc>>

\* Mutant of StubRemoved: a removal that fails is waited for without end.
StubRemovedIfOk(r) ==
    /\ At(r, "undoStub")
    /\ dnsCall[r].result = "ok"
    /\ Dns!Collect(r)
    /\ Goto(r, "undoRecord")
    /\ UNCHANGED <<sites, runtimes, web, stub, stubTemp, loaded, php, loc,
                   cancelled, faults>>

StubRemoved(r) ==
    /\ At(r, "undoStub")
    /\ Dns!Collect(r)
    /\ Goto(r, "undoRecord")
    /\ UNCHANGED <<sites, runtimes, web, stub, stubTemp, loaded, php, loc,
                   cancelled, faults>>

\* Mutant of UndoRecord: the deferred rollback leaves the record.
UndoRecordForgotten(r) ==
    /\ At(r, "undoRecord")
    /\ StoreWorks(r) \/ StoreFails(r, "undo")
    /\ Finish(r, "err")
    /\ UNCHANGED <<sites, runtimes, web, dns, php>>

UndoRecord(r) ==
    /\ At(r, "undoRecord")
    /\ \/ StoreWorks(r) /\ sites' = Delete(sites, r).next
       \/ StoreFails(r, "undo") /\ UNCHANGED sites
    /\ Finish(r, "err")
    /\ UNCHANGED <<runtimes, web, dns, php>>

-----------------------------------------------------------------------------
(* Update and SwitchSiteRuntime.                                            *)

GetSite(r) ==
    /\ At(r, "get")
    /\ \/ /\ StoreWorks(r) /\ HasSite(sites, Job(r).id)
          /\ Set(r, [loc[r] EXCEPT !.current = SiteOf(sites, Job(r).id)])
          /\ Goto(r, "prepare")
       \/ /\ StoreFails(r, "store") \/ (StoreWorks(r) /\ ~HasSite(sites, Job(r).id))
          /\ Finish(r, "err")
    /\ UNCHANGED <<sites, runtimes, web, dns, php>>

Given(arg, otherwise) == IF arg = Unset THEN otherwise ELSE arg

\* prepareUpdatedSite: the record that Update will store, computed from the
\* record that was read before.  What is not given is kept; an empty domain,
\* which asks for the fallback again, is the same as giving that domain.
updatedSite(r) ==
    LET s == loc[r].current
        j == Job(r)
    IN  IF j.op = "switch" THEN [s EXCEPT !.php = j.php]
        ELSE [id |-> s.id, root |-> Given(j.root, s.root),
              domain |-> Given(j.domain, s.domain), php |-> Given(j.php, s.php)]

\* Mutant of Refused: an update is not compared with the other sites.
RefusedAlone(r) ==
    LET s == updatedSite(r)
    IN  \/ ~HasRuntime(runtimes, s.php)
        \/ Is(r, "update") /\ Job(r).root # Unset /\ ~ValidateLaravelPath(s.root)

\* The requests that are refused: an unknown runtime, no Laravel project, or
\* a name or domain that another site has when the registry is listed.
Refused(r) ==
    LET s == updatedSite(r)
    IN  \/ ~HasRuntime(runtimes, s.php)
        \/ /\ Is(r, "update")
           /\ \/ Job(r).root # Unset /\ ~ValidateLaravelPath(s.root)
              \/ Collides({t \in sites : t.id # s.id}, s.root, s.domain)

phpChanged(r) == loc[r].current.php # loc[r].next.php

Prepare(r) ==
    /\ At(r, "prepare")
    /\ LET s == loc[r].current
           n == updatedSite(r)
       IN  \/ /\ StoreWorks(r) /\ ~Refused(r)
              /\ IF Is(r, "switch") /\ s.php = n.php
                   THEN Finish(r, "ok") /\ UNCHANGED phpCall
                   ELSE /\ Set(r, [loc[r] EXCEPT !.next = n, !.runtime = n.php])
                        /\ IF s.php # n.php
                             THEN /\ Goto(r, "switchRuntime")
                                  /\ Php!SwitchRuntime(r, s.php, n.php)
                             ELSE /\ Goto(r, IF siteToWebSite(s) = siteToWebSite(n)
                                             THEN "persist" ELSE "start")
                                  /\ UNCHANGED phpCall
           \/ /\ StoreFails(r, "store") \/ (StoreWorks(r) /\ Refused(r))
              /\ Finish(r, "err")
              /\ UNCHANGED phpCall
    /\ UNCHANGED <<sites, runtimes, web, dns, fpmFiles, fpmTemp, fpm>>

\* rollbackRuntime, and the switch back of SwitchSiteRuntime.
SwitchBack(r) ==
    /\ Php!SwitchRuntime(r, loc[r].next.php, loc[r].current.php)
    /\ Goto(r, "switchBack")
    /\ UNCHANGED loc

\* The end of Update and SwitchSiteRuntime when a step before the registry
\* was changed failed, and the end of Activate likewise.
Abort(r) ==
    \/ /\ Is(r, "activate")
       /\ RollbackAfterWeb(r, loc[r])
       /\ UNCHANGED <<loc, phpCall>>
    \/ /\ ~Is(r, "activate") /\ phpChanged(r)
       /\ SwitchBack(r)
    \/ /\ ~Is(r, "activate") /\ ~phpChanged(r)
       /\ Finish(r, "err")
       /\ UNCHANGED phpCall

-----------------------------------------------------------------------------
(* Steps the services share.                                                *)

\* MaterializeRuntime or SwitchRuntime has returned.
RuntimeReady(r) ==
    /\ pc[r] \in {"materialize", "switchRuntime"}
    /\ Php!Collect(r)
    /\ \/ /\ phpCall[r].result = "ok" /\ Is(r, "switch")
          /\ Goto(r, "web")
          /\ Web!ActivateSite(r, loc[r].next.id, siteToWebSite(loc[r].next))
          /\ UNCHANGED loc
       \/ /\ phpCall[r].result = "ok" /\ Job(r).op \in {"activate", "update", "onboard"}
          /\ Goto(r, IF Is(r, "onboard") THEN "status" ELSE "start")
          /\ UNCHANGED <<loc, webCall>>
       \/ /\ phpCall[r].result = "ok" /\ Is(r, "package")
          /\ Finish(r, "ok")
          /\ UNCHANGED webCall
       \/ /\ phpCall[r].result = "err" /\ Is(r, "activate")
          /\ RollbackAfterWeb(r, loc[r])
          /\ UNCHANGED <<loc, webCall>>
       \/ /\ phpCall[r].result = "err" /\ ~Is(r, "activate")
          /\ Finish(r, "err")
          /\ UNCHANGED webCall
    /\ UNCHANGED <<sites, runtimes, caddyFiles, caddyTemp, live, dns, fpmFiles,
                   fpmTemp, fpm, cancelled, faults>>

\* ensureServices and startManagedServices: Caddy, then the FPM service.
StartServices(r) ==
    /\ At(r, "start")
    /\ \/ /\ CommandSucceeds(r)
          /\ Php!StartService(loc[r].runtime)
          /\ Goto(r, "web")
          /\ Web!ActivateSite(r, loc[r].next.id, siteToWebSite(loc[r].next))
          /\ UNCHANGED <<loc, phpCall>>
       \/ /\ \/ (CommandRefused(r) \/ CommandBreaks(r, "start")) /\ UNCHANGED fpm
             \/ CommandBreaks(r, "start") /\ Php!StartService(loc[r].runtime)
          /\ Abort(r)
          /\ UNCHANGED webCall
    /\ UNCHANGED <<sites, runtimes, caddyFiles, caddyTemp, live, dns, fpmFiles, fpmTemp>>

WebActivated(r) ==
    /\ At(r, "web")
    /\ Web!Collect(r)
    /\ \/ /\ webCall[r].result = "ok"
          /\ Set(r, [loc[r] EXCEPT !.committedWeb = TRUE])
          /\ Goto(r, "persist")
          /\ UNCHANGED phpCall
       \/ /\ webCall[r].result = "err"
          /\ Abort(r)
    /\ UNCHANGED <<sites, runtimes, caddyFiles, caddyTemp, live, dns, fpmFiles, fpmTemp,
                   fpm, cancelled, faults>>

\* Mutant of Persist: the rollback of Activate leaves the site file.
PersistKeepsWeb(r) ==
    /\ At(r, "persist")
    /\ LET o == Update(sites, loc[r].next)
       IN  \/ /\ StoreWorks(r) /\ o.save
              /\ sites' = o.next
              /\ Finish(r, "ok")
              /\ UNCHANGED webCall
           \/ /\ StoreFails(r, "store") \/ (StoreWorks(r) /\ ~o.save)
              /\ UNCHANGED sites
              /\ \/ /\ ~Is(r, "activate") /\ ~loc[r].committedWeb
                    /\ Finish(r, "err") /\ UNCHANGED webCall
                 \/ /\ ~Is(r, "activate") /\ loc[r].committedWeb
                    /\ Goto(r, "undoWeb") /\ UNCHANGED loc
                    /\ Web!ActivateSite(r, loc[r].current.id, siteToWebSite(loc[r].current))
                 \/ /\ Is(r, "activate")
                    /\ RollbackAfterWeb(r, loc[r]) /\ UNCHANGED <<loc, webCall>>
    /\ UNCHANGED <<runtimes, caddyFiles, caddyTemp, live, dns, php>>

\* sites.Update of the whole record; if it fails, the web configuration is
\* taken back first: removed by Activate, reactivated by the other two.
Persist(r) ==
    /\ At(r, "persist")
    /\ LET o == Update(sites, loc[r].next)
       IN  \/ /\ StoreWorks(r) /\ o.save
              /\ sites' = o.next
              /\ Finish(r, "ok")
              /\ UNCHANGED webCall
           \/ /\ StoreFails(r, "store") \/ (StoreWorks(r) /\ ~o.save)
              /\ UNCHANGED sites
              /\ IF ~loc[r].committedWeb
                   THEN Finish(r, "err") /\ UNCHANGED webCall
                   ELSE /\ Goto(r, "undoWeb")
                        /\ IF Is(r, "activate")
                             THEN Web!RemoveSite(r, r)
                             ELSE Web!ActivateSite(r, loc[r].current.id,
                                                   siteToWebSite(loc[r].current))
                        /\ UNCHANGED loc
    /\ UNCHANGED <<runtimes, caddyFiles, caddyTemp, live, dns, php>>

WebUndone(r) ==
    /\ At(r, "undoWeb")
    /\ Web!Collect(r)
    /\ \/ Is(r, "activate") /\ RollbackAfterWeb(r, loc[r]) /\ UNCHANGED <<loc, phpCall>>
       \/ Is(r, "switch") /\ Goto(r, "restartPrevious") /\ UNCHANGED <<loc, phpCall>>
       \/ Is(r, "update") /\ phpChanged(r) /\ SwitchBack(r)
       \/ /\ Is(r, "update") /\ ~phpChanged(r)
          /\ Finish(r, "err") /\ UNCHANGED phpCall
    /\ UNCHANGED <<sites, runtimes, caddyFiles, caddyTemp, live, dns, fpmFiles, fpmTemp,
                   fpm, cancelled, faults>>

SwitchedBack(r) ==
    /\ At(r, "switchBack")
    /\ Php!Collect(r)
    /\ Finish(r, "err")
    /\ UNCHANGED <<sites, runtimes, web, dns, fpmFiles, fpmTemp, fpm, cancelled, faults>>

\* SwitchSiteRuntime restarts the previous service instead of switching back.
RestartPreviousService(r) ==
    /\ At(r, "restartPrevious")
    /\ Php!TryRestart(r, loc[r].current.php)
    /\ Finish(r, "err")
    /\ UNCHANGED <<sites, runtimes, web, dns, fpmFiles, fpmTemp, phpCall>>

-----------------------------------------------------------------------------
(* Runtimes.                                                                *)

\* RefreshRuntimeInventory asks dpkg-query about every package: when one of
\* these commands fails, the runtime is not in the inventory.
RefreshInventory(r) ==
    /\ At(r, "inventory")
    /\ \/ CommandSucceeds(r) /\ Goto(r, "registerRuntime") /\ UNCHANGED loc
       \/ (CommandRefused(r) \/ CommandBreaks(r, "inventory")) /\ Finish(r, "err")
    /\ UNCHANGED <<sites, runtimes, web, dns, php>>

\* The registration stays when the materialization that follows it fails.
RegisterPHP(r) ==
    /\ At(r, "registerRuntime")
    /\ LET j == Job(r)
           o == RegisterRuntime(runtimes, j.version, j.binary, j.service)
       IN  \/ /\ StoreWorks(r) /\ o.save
              /\ runtimes' = o.next
              /\ Php!MaterializeRuntime(r, detectRuntimeVersion(j.binary))
              /\ Goto(r, "materialize")
              /\ UNCHANGED loc
           \/ /\ StoreFails(r, "store") \/ (StoreWorks(r) /\ ~o.save)
              /\ Finish(r, "err")
              /\ UNCHANGED <<runtimes, phpCall>>
    /\ UNCHANGED <<sites, web, dns, fpmFiles, fpmTemp, fpm>>

ServiceStatus(r) ==
    /\ At(r, "status")
    /\ \/ CommandSucceeds(r) /\ Finish(r, "ok")
       \/ (CommandRefused(r) \/ CommandBreaks(r, "status")) /\ Finish(r, "err")
    /\ UNCHANGED <<sites, runtimes, web, dns, php>>

SetDefaultVersion(r) ==
    /\ At(r, "setDefault")
    /\ LET o == SetDefault(runtimes, Job(r).php)
       IN  \/ /\ StoreWorks(r)
              /\ runtimes' = o.next
              /\ Finish(r, IF o.save THEN "ok" ELSE "err")
           \/ StoreFails(r, "store") /\ Finish(r, "err") /\ UNCHANGED runtimes
    /\ UNCHANGED <<sites, web, dns, php>>

-----------------------------------------------------------------------------
ServiceStep(r) ==
    \/ Resolve(r) \/ RegisterSite(r) \/ StubEnsured(r) \/ UndoList(r)
    \/ StubRemoved(r) \/ UndoRecord(r) \/ GetSite(r) \/ Prepare(r)
    \/ RuntimeReady(r) \/ StartServices(r) \/ WebActivated(r) \/ Persist(r)
    \/ WebUndone(r) \/ SwitchedBack(r) \/ RestartPreviousService(r)
    \/ RefreshInventory(r) \/ RegisterPHP(r) \/ ServiceStatus(r) \/ SetDefaultVersion(r)

ManagerStep(r) ==
    \/ Web!Step(r) /\ UNCHANGED <<sites, runtimes, dns, php, app>>
    \/ Dns!Step(r) /\ UNCHANGED <<sites, runtimes, web, php, app>>
    \/ Php!Step(r) /\ UNCHANGED <<sites, runtimes, web, dns, app>>

Step(r) == ServiceStep(r) \/ ManagerStep(r)

\* The client's timeout expires while its request is served.
Disconnect(r) ==
    /\ Running(r)
    /\ Cancel(r)
    /\ UNCHANGED <<sites, runtimes, web, dns, php, app, faults>>

\* The daemon dies and starts again (killed, or stopped with requests still
\* running after the five seconds of main.go).  Nothing is reconciled.
Crash ==
    /\ MayCrash /\ \E r \in Callers : Running(r)
    /\ pc' = [r \in Callers |-> IF Running(r) THEN "dead" ELSE pc[r]]
    /\ loc' = [r \in Callers |-> IF Running(r) THEN NoLocals ELSE loc[r]]
    /\ webCall' = [r \in Callers |-> Web!Idle]
    /\ dnsCall' = [r \in Callers |-> Dns!Idle]
    /\ phpCall' = [r \in Callers |-> Php!Idle]
    /\ UNCHANGED <<sites, runtimes, caddyFiles, caddyTemp, live, stub, stubTemp, loaded,
                   fpmFiles, fpmTemp, fpm, result, cancelled, faults>>

Next ==
    \/ \E r \in Callers : (\E j \in Jobs : Begin(r, j)) \/ Step(r) \/ Disconnect(r)
    \/ Crash

Spec == Init /\ [][Next]_vars

\* A handler that runs goes on: Go schedules every runnable goroutine, and
\* every command ends (its context kills it after the client's timeout).
FairSpec == Spec /\ \A r \in Callers : WF_vars(Step(r))

-----------------------------------------------------------------------------
Labels == {"idle", "resolve", "register", "ensureStub", "materialize", "start",
           "web", "persist", "undoWeb", "undoList", "undoStub", "undoRecord",
           "get", "prepare", "switchRuntime", "switchBack", "restartPrevious",
           "inventory", "registerRuntime", "status", "setDefault", "done", "dead"}

\* A request waits in at most one host manager, and only where it called one.
CallsInOrder ==
    \A r \in Callers :
        /\ webCall[r].at # "idle" => pc[r] \in {"web", "undoWeb"}
        /\ dnsCall[r].at # "idle" => pc[r] \in {"ensureStub", "undoStub"}
        /\ phpCall[r].at # "idle" =>
              pc[r] \in {"materialize", "switchRuntime", "switchBack"}

TypeOK ==
    /\ sites \subseteq SiteRecords
    /\ runtimes.runtimes \subseteq RuntimeRecords
    /\ Web!TypeOK /\ Dns!TypeOK /\ Php!TypeOK
    /\ pc \in [Callers -> Labels]
    /\ result \in [Callers -> {"none", "ok", "err"}]
    /\ CallsInOrder

Quiescent == \A r \in Callers : ~Running(r)

\* A site is served: its own file says what its record says, Caddy imports the
\* file and has loaded it, its domain resolves, and its FPM pool listens.
IsConfigured(s) == caddyFiles[s.id] = siteToWebSite(s)
IsImported(s) == Web!HasImport(caddyFiles[Root]) /\ siteToWebSite(s) \in live
Resolves == stub = "managed" /\ loaded = "managed"
HasPool(s) == fpmFiles[Php!Pool(s.php)] = "managed" /\ fpm[s.php] = "managed"

IsServed(s) == IsConfigured(s) /\ IsImported(s) /\ Resolves /\ HasPool(s)

\* Whatever a request asked for and whichever of its steps failed, between
\* requests every registered site is served as its record says (the rollbacks
\* of orchestration.go:108-121, site_management.go:74-103 and
\* php_manager.go:81-107).
SitesAreServed == Quiescent => \A s \in sites : IsServed(s)

\* Between requests, the sites that were activated have their FPM pool
\* (local-site-serving/spec.md:11).
ActivatedSitesHavePool == Quiescent => \A s \in sites : HasPool(s)

\* Between requests Caddy has and serves no site that is not registered.
NoOrphanSites ==
    Quiescent => /\ \A i \in SiteIds : caddyFiles[i] # Absent => HasSite(sites, i)
                 /\ live \subseteq {siteToWebSite(s) : s \in sites}

\* A request that was answered with an error has left no record of its own
\* (the deferred Delete, orchestration.go:120).
FailedActivationsLeaveNoRecord ==
    \A r \in Callers : result[r] = "err" => ~HasSite(sites, r)

\* A site whose activation was answered with success stays registered, also
\* when the rollback of another request runs at the same time.
ActivatedSitesStay ==
    \A r \in Callers : result[r] = "ok" /\ Is(r, "activate") => HasSite(sites, r)

\* No two sites have one name or one domain.
NamesAreUnique ==
    \A s \in sites : ~Collides(sites \ {s}, s.root, s.domain)

\* A record enters the registry by the registration of its own request only:
\* an update that overlaps the rollback of an activation does not bring the
\* deleted record back (site_registry.go:189-221).
DeletedSitesStayDeleted ==
    [][\A i \in SiteIds :
          HasSite(sites', i) /\ ~HasSite(sites, i) => i \in Callers /\ pc[i] = "register"]_sites

\* Every request is answered, or dies with the daemon.
RequestsEnd == \A r \in Callers : Running(r) ~> pc[r] \in {"done", "dead"}
=============================================================================
