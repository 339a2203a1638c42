------------------------------- MODULE Health -------------------------------
(***************************************************************************)
(* The health report (app/health_service.go) while the machine changes      *)
(* under it.  Report takes no snapshot: it lists the sites, lists the       *)
(* runtimes, inspects the resolver, asks systemd for each service, looks at *)
(* the ports and then goes through the sites, with a call in each step.     *)
(* Meanwhile another request changes the resolver's drop-in (Resolved) or a *)
(* service (service_manager.go, host/ubuntu/systemd/manager.go), registries *)
(* change, services die and projects move.                                  *)
(***************************************************************************)
EXTENDS Resolved, FiniteSets

CONSTANTS
    Reporter,           \* the request that asks for the report
    SiteIds, Versions, Services,
    Unset,              \* no runtime
    VersionOf,          \* the PHP version of each site
    PHPFPMServiceName,  \* the service name derived from each version
    RuntimeServices,    \* the services a runtime may be registered with
    MaxChanges          \* requests of the clients and changes from outside at most

Clients == Callers \ {Reporter}
Web == "caddy"

ASSUME HealthAssumption ==
    /\ Reporter \in Callers /\ Web \in Services /\ Unset \notin Services
    /\ VersionOf \in [SiteIds -> Versions]
    /\ PHPFPMServiceName \in [Versions -> Services \ {Web}]
    /\ RuntimeServices \in [Versions -> SUBSET Services]
    /\ MaxChanges \in Nat

VARIABLES
    services,   \* the state of each service
    sites,      \* the registered sites
    runtimes,   \* the FPM service of each registered runtime
    projects,   \* the sites whose root is a Laravel project
    facts,      \* the ports are free; the daemon's socket is as it should be
    action,     \* the frame of a client's service action
    report,     \* the frame of the report
    changes,    \* requests of the clients and changes from outside so far
    held,       \* history: what held at some time since the report began
    missed,     \* history: what did not hold at some time since then
    was         \* history: the resolver when each client's call began

worldVars == <<services, sites, runtimes, projects, facts>>
resolverVars == <<stub, temp, loaded, call>>
history == <<held, missed, was>>
allVars == <<vars, worldVars, action, report, changes, history>>

-----------------------------------------------------------------------------
(* Services.                                                                *)

States == {"active", "inactive", "failed"}

\* effect: what start and restart, or stop, are for.
NoAction == [at |-> "idle", service |-> Web, effect |-> "none", state |-> "unknown",
             result |-> "none"]

\* systemctl is-active, read by parseServiceState: without an answer the state
\* is unknown, which is an error.  "activating" is read as active.
Status(c, s, state) ==
    \/ CommandSucceeds(c) /\ state = services[s]
    \/ CommandRefused(c) /\ state = "unknown"
    \/ CommandBreaks(c, "status") /\ state \in {services[s], "unknown"}

\* Changes matter to the report while it is made; the initial states stand for
\* the earlier ones.
Underway == report.at \notin {"idle", "done", "error"}

Counted == changes < MaxChanges /\ changes' = changes + 1

Act(c, s, effect) ==
    /\ action[c].at = "idle" /\ call[c].at = "idle"
    /\ Counted /\ Underway
    /\ action' = [action EXCEPT ![c] = [NoAction EXCEPT !.at = "run", !.service = s,
                                                        !.effect = effect]]
    /\ UNCHANGED <<vars, worldVars, report>>

\* systemctl start, stop or restart; a service may fail to start.
RunAction(c) ==
    /\ action[c].at = "run"
    /\ LET f == action[c]
           done == [services EXCEPT ![f.service] = f.effect]
           Ends(res) == action' = [action EXCEPT ![c].at = "status", ![c].result = res]
       IN  \/ /\ CommandSucceeds(c)
              /\ services' = done /\ Ends("ok")
           \/ /\ CommandRefused(c)
              /\ UNCHANGED services /\ Ends("err")
           \/ /\ CommandBreaks(c, "action")
              /\ services' \in {services, done, [services EXCEPT ![f.service] = "failed"]}
              /\ Ends("err")
    /\ UNCHANGED <<resolverVars, sites, runtimes, projects, facts, report, changes>>

\* The status that is returned with the result; its own error counts only
\* after a command that worked.
ActionStatus(c) ==
    /\ action[c].at = "status"
    /\ \E state \in States \cup {"unknown"} :
          /\ Status(c, action[c].service, state)
          /\ action' = [action EXCEPT ![c].at = "returned", ![c].state = state,
                            ![c].result = IF state = "unknown" THEN "err" ELSE @]
    /\ UNCHANGED <<resolverVars, worldVars, report, changes>>

ActionEnds(c) ==
    /\ action[c].at = "returned"
    /\ action' = [action EXCEPT ![c] = NoAction]
    /\ UNCHANGED <<vars, worldVars, report, changes>>

\* A start of what runs, or a stop of what does not, is left out.
ServiceRequest(c) ==
    \/ \E s \in Services, effect \in {"active", "inactive"} :
          services[s] # effect /\ Act(c, s, effect)
    \/ RunAction(c) \/ ActionStatus(c) \/ ActionEnds(c)

-----------------------------------------------------------------------------
(* The report.                                                              *)

\* passed: the checks of the machine that passed.  A state nobody asked for is
\* the zero value of Go's map, which is not active.
NoReport == [at |-> "idle", sites |-> {}, passed |-> {}, ask |-> {},
             states |-> [s \in Services |-> "unknown"], left |-> {}, ready |-> {},
             ok |-> FALSE]

MachineChecks == {"socket", "inventory", "routing", "ports"}

Passed(check, holds) == IF holds THEN {check} ELSE {}

\* Mutant of ServiceNames: Caddy is not among them.
ServiceNamesOfSites(ids) == {PHPFPMServiceName[VersionOf[i]] : i \in ids}

\* The services the report asks for.
ServiceNames(ids) == {Web} \cup {PHPFPMServiceName[VersionOf[i]] : i \in ids}

StartReport ==
    /\ report.at = "idle"
    /\ report' = [NoReport EXCEPT !.at = "list",
                                  !.passed = Passed("socket", "socket" \in facts)]
    /\ UNCHANGED <<vars, worldVars, action, changes>>

\* sites.List and runtimes.List, which fail when the context is done or the
\* file cannot be read.
ListSites ==
    /\ report.at = "list"
    /\ \/ /\ Works /\ Reporter \notin cancelled
          /\ report' = [report EXCEPT !.at = "runtimes", !.sites = sites,
                            !.left = sites, !.ask = ServiceNames(sites)]
       \/ /\ (Works /\ Reporter \in cancelled) \/ Fails("read")
          /\ report' = [NoReport EXCEPT !.at = "error"]
    /\ UNCHANGED <<resolverVars, cancelled, worldVars, action, changes>>

Inventory == \E v \in Versions : runtimes[v] # Unset

ListRuntimes ==
    /\ report.at = "runtimes"
    /\ \/ /\ Works /\ Reporter \notin cancelled
          /\ report' = [report EXCEPT !.at = "inspect",
                            !.passed = @ \cup Passed("inventory", Inventory)]
       \/ /\ (Works /\ Reporter \in cancelled) \/ Fails("read")
          /\ report' = [NoReport EXCEPT !.at = "error"]
    /\ UNCHANGED <<resolverVars, cancelled, worldVars, action, changes>>

\* Inspect: ~test is managed, as rendered, or available; an error is a check
\* that fails.
RoutingOk == stub \in {"managed", Absent} /\ ~ExternalClaimant

InspectRouting ==
    /\ report.at = "inspect"
    /\ \/ /\ Works
          /\ report' = [report EXCEPT !.at = "status", !.passed =
                            @ \cup Passed("routing", Reporter \notin cancelled /\ RoutingOk)]
       \/ Fails("read") /\ report' = [report EXCEPT !.at = "status"]
    /\ UNCHANGED <<resolverVars, cancelled, worldVars, action, changes>>

\* One service after the other, in the order of a Go map.
AskService ==
    /\ report.at = "status" /\ report.ask # {}
    /\ \E s \in report.ask, state \in States \cup {"unknown"} :
          /\ Status(Reporter, s, state)
          /\ report' = [report EXCEPT !.ask = @ \ {s}, !.states[s] = state]
    /\ UNCHANGED <<resolverVars, worldVars, action, changes>>

\* Mutant of CheckPorts: the states that are still asked for are not awaited.
CheckPortsEarly ==
    /\ report.at = "status"
    /\ Works
    /\ report' = [report EXCEPT !.at = "sites",
                      !.passed = @ \cup Passed("ports", "ports" \in facts)]
    /\ UNCHANGED <<resolverVars, cancelled, worldVars, action, changes>>

\* portHealth: the ports are Caddy's, or can be had.
CheckPorts ==
    /\ report.at = "status" /\ report.ask = {}
    /\ Works
    /\ report' = [report EXCEPT !.at = "sites",
                      !.passed = @ \cup Passed("ports", report.states[Web] = "active"
                                                          \/ "ports" \in facts)]
    /\ UNCHANGED <<resolverVars, cancelled, worldVars, action, changes>>

\* Mutant of PhpService: the service of the version, whatever is registered.
PhpServiceOfVersion(v) == PHPFPMServiceName[v]

\* The service a site depends on: the registered one, which has only been asked
\* for when it has the derived name of some site's version.
PhpService(v) == IF runtimes[v] = Unset THEN PHPFPMServiceName[v] ELSE runtimes[v]

\* siteReadiness: the project on disk, runtimes.Get, and the states asked for
\* before.
SiteReady(i) ==
    /\ i \in projects
    /\ Reporter \notin cancelled /\ runtimes[VersionOf[i]] # Unset
    /\ report.states[Web] = "active"
    /\ report.states[PhpService(VersionOf[i])] = "active"

CheckSite ==
    /\ report.at = "sites" /\ report.left # {}
    /\ \E i \in report.left :
          \/ /\ Works
             /\ report' = [report EXCEPT !.left = @ \ {i},
                               !.ready = IF SiteReady(i) THEN @ \cup {i} ELSE @]
          \/ Fails("read") /\ report' = [report EXCEPT !.left = @ \ {i}]
    /\ UNCHANGED <<resolverVars, cancelled, worldVars, action, changes>>

\* Mutant of Ready: the sites decide alone.
ReadyForSites == report.ready = report.sites

\* HealthReport.Ready.
Ready == report.ready = report.sites /\ report.passed = MachineChecks

Conclude ==
    /\ report.at = "sites" /\ report.left = {}
    /\ Works
    /\ report' = [report EXCEPT !.at = "done", !.ok = Ready]
    /\ UNCHANGED <<resolverVars, cancelled, worldVars, action, changes>>

Report ==
    \/ StartReport \/ ListSites \/ ListRuntimes \/ InspectRouting \/ AskService
    \/ CheckPorts \/ CheckSite \/ Conclude

-----------------------------------------------------------------------------
(* The world.                                                               *)

ResolverRequest(c) ==
    /\ \/ /\ EnsureTestStub(c) \/ RemoveManagedStub(c)
          /\ action[c].at = "idle"
          /\ Counted
          /\ UNCHANGED <<stub, temp, loaded, cancelled, faults>>
       \/ Collect(c) /\ UNCHANGED <<stub, temp, loaded, cancelled, faults, changes>>
       \/ Step(c) /\ UNCHANGED changes
    /\ UNCHANGED <<worldVars, action, report>>

Disconnect(c) ==
    /\ Cancel(c)
    /\ UNCHANGED <<resolverVars, faults, worldVars, action, report, changes>>

Toggle(S, e) == IF e \in S THEN S \ {e} ELSE S \cup {e}

\* Registrations, a service that dies, a project that appears or goes, another
\* program that takes or frees a port, a socket that is removed or made again.
Change ==
    /\ Counted /\ Underway
    /\ \/ /\ \E i \in SiteIds : sites' = Toggle(sites, i)
          /\ UNCHANGED <<services, runtimes, projects, facts>>
       \/ /\ \E v \in Versions : \E s \in RuntimeServices[v] \ {runtimes[v]} :
                runtimes' = [runtimes EXCEPT ![v] = s]
          /\ UNCHANGED <<services, sites, projects, facts>>
       \/ /\ \E s \in Services :
                services[s] = "active" /\ services' = [services EXCEPT ![s] = "failed"]
          /\ UNCHANGED <<sites, runtimes, projects, facts>>
       \/ /\ \E i \in SiteIds : projects' = Toggle(projects, i)
          /\ UNCHANGED <<services, sites, runtimes, facts>>
       \/ /\ \E f \in {"ports", "socket"} : facts' = Toggle(facts, f)
          /\ UNCHANGED <<services, sites, runtimes, projects>>
    /\ UNCHANGED <<vars, action, report>>

-----------------------------------------------------------------------------
(* History: what the report is about, while it is made.                     *)

Conditions ==
    {<<"project", i>> : i \in SiteIds} \cup {<<"registered", i>> : i \in SiteIds}
    \cup {<<"service", s>> : s \in Services}
    \cup {<<"assigned", v, s>> : v \in Versions, s \in Services}
    \cup {<<c>> : c \in MachineChecks}

Holds(c) ==
    CASE c[1] = "project"    -> c[2] \in projects
      [] c[1] = "registered" -> c[2] \in sites
      [] c[1] = "service"    -> services[c[2]] = "active"
      [] c[1] = "assigned"   -> runtimes[c[2]] = c[3]
      [] c[1] = "socket"     -> "socket" \in facts
      [] c[1] = "inventory"  -> Inventory
      [] c[1] = "routing"    -> RoutingOk
      [] c[1] = "ports"      -> services[Web] = "active" \/ "ports" \in facts

Remember ==
    /\ IF Underway'
       THEN /\ held' = held \cup {c \in Conditions : Holds(c)}
            /\ missed' = missed \cup {c \in Conditions : ~Holds(c)}
       ELSE IF report'.at = "error" THEN held' = {} /\ missed' = {}
       ELSE UNCHANGED <<held, missed>>
    /\ was' = [c \in Callers |->
                  IF call[c].at = "idle" /\ call'[c].at # "idle"
                  THEN [stub |-> stub, inSync |-> loaded = stub, op |-> call'[c].op]
                  ELSE was[c]]

Init ==
    /\ HostInit
    /\ stub \in Stubs /\ temp = Absent /\ loaded \in {stub, Absent}
    /\ call = [c \in Callers |-> Idle]
    /\ action = [c \in Callers |-> NoAction]
    /\ \E down \in SUBSET Services :
          /\ Cardinality(down) <= 1
          /\ services = [s \in Services |-> IF s \in down THEN "inactive" ELSE "active"]
    /\ sites = SiteIds /\ projects = SiteIds
    /\ runtimes \in [Versions -> {Unset} \cup Services]
    /\ \A v \in Versions : runtimes[v] \in {Unset} \cup RuntimeServices[v]
    /\ facts = {"ports", "socket"}
    /\ report = NoReport
    /\ changes = 0
    /\ held = {} /\ missed = {}
    /\ was = [c \in Callers |-> [stub |-> stub, inSync |-> TRUE, op |-> "none"]]

Next ==
    /\ \/ Report \/ Change \/ Disconnect(Reporter)
       \/ \E c \in Clients : ResolverRequest(c) \/ ServiceRequest(c) \/ Disconnect(c)
    /\ Remember

Spec == Init /\ [][Next]_allVars

-----------------------------------------------------------------------------
\* The types of the state; the sites are judged when every service has been
\* asked for (health_service.go:84-187).
HealthTypeOK ==
    /\ TypeOK
    /\ services \in [Services -> States]
    /\ sites \subseteq SiteIds /\ projects \subseteq SiteIds
    /\ runtimes \in [Versions -> {Unset} \cup Services]
    /\ report.sites \subseteq SiteIds /\ report.ready \subseteq report.sites
    /\ report.left \subseteq report.sites /\ report.passed \subseteq MachineChecks
    /\ report.at \in {"sites", "done"} => report.ask = {}
    /\ \A c \in Callers : action[c].state \in States \cup {"unknown"}

Once(c) == c \in held

\* A site the report calls ready was registered, was a Laravel project, had
\* Caddy running and the FPM service its runtime was registered with running,
\* each at some time while the report was made, whatever changed meanwhile
\* (health_service.go:114-133, 189-248).
ReadySitesWereReady ==
    \A i \in report.ready :
        /\ Once(<<"registered", i>>) /\ Once(<<"project", i>>)
        /\ Once(<<"service", Web>>)
        /\ \E s \in Services : /\ Once(<<"assigned", VersionOf[i], s>>)
                               /\ Once(<<"service", s>>)

\* A report that is ready as a whole found every check of the machine to hold
\* at some time while it was made, and every site that was registered throughout
\* is among its ready sites (health_service.go:84-187).
ReadyReportsCoverTheMachine ==
    report.ok =>
        /\ \A check \in MachineChecks : Once(<<check>>)
        /\ \A i \in SiteIds : <<"registered", i>> \notin missed => i \in report.ready

\* A site a whole report calls not ready did lack something at some time while
\* the report was made, unless its runtime was registered with a service of a
\* name that the report does not ask for (health_service.go:114-131, 210-213).
UnreadySitesWereNot ==
    report.at = "done" /\ faults = 0 /\ Reporter \notin cancelled =>
        \A i \in report.sites \ report.ready :
            \/ <<"project", i>> \in missed \/ <<"service", Web>> \in missed
            \/ \E s \in Services :
                  /\ Once(<<"assigned", VersionOf[i], s>>)
                  /\ <<"service", s>> \in missed \/ s \notin ServiceNames(report.sites)
            \/ \A s \in Services : <<"assigned", VersionOf[i], s>> \in missed

\* EnsureTestStub and RemoveManagedStub, one call at a time: success leaves the
\* drop-in managed or gone, an error leaves it as it was, or in place and loaded
\* when only the last Inspect failed; and systemd-resolved has read it, unless
\* the request was cancelled or it had not before
\* (resolved/manager.go:131-185).
ResolverCallsAllOrNothing ==
    \A c \in Clients : call[c].at = "returned" =>
        LET w == was[c]
            inSync == w.inSync => loaded = stub
        IN  IF call[c].result = "ok"
            THEN stub = (IF w.op = "ensure" THEN "managed" ELSE Absent) /\ inSync
            ELSE \/ stub = w.stub /\ (c \in cancelled \/ inSync)
                 \/ w.op = "ensure" /\ stub = "managed" /\ loaded = "managed"
=============================================================================
