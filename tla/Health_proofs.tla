---------------------------- MODULE Health_proofs ----------------------------
(***************************************************************************)
(* What a health report says held, or failed to hold, while it was made:    *)
(* for any sites, services, requests, failures and changes.  The report     *)
(* combines answers it got at different times, so the invariant keeps, with *)
(* every part of a report that is under way, what the history must hold     *)
(* because of it: Grounded for what the report has found in order, Covering *)
(* for what it has not.                                                     *)
(***************************************************************************)
EXTENDS Health, TLAPS

Answers == States \cup {"unknown"}

ReportType ==
    [at : {"idle", "list", "runtimes", "inspect", "status", "sites", "done", "error"},
     sites : SUBSET SiteIds, passed : SUBSET MachineChecks, ask : SUBSET Services,
     states : [Services -> Answers], left : SUBSET SiteIds, ready : SUBSET SiteIds,
     ok : BOOLEAN]

ActionType ==
    [at : {"idle", "run", "status", "returned"}, service : Services,
     effect : {"none", "active", "inactive"}, state : Answers,
     result : {"none", "ok", "err"}]

\* The frame of a service action knows what it is for.
ActionsTyped ==
    /\ action \in [Callers -> ActionType]
    /\ \A c \in Callers : action[c].at = "run" => action[c].effect # "none"

WorldTyped ==
    /\ services \in [Services -> States]
    /\ sites \subseteq SiteIds /\ projects \subseteq SiteIds
    /\ runtimes \in [Versions -> {Unset} \cup Services]

HostTyped == faults \in Nat /\ cancelled \subseteq Callers

\* A report fills up in the order of its steps.
Progress ==
    /\ report.at \in {"idle", "list", "error"} => report.sites = {}
    /\ report.at = "error" => report = [NoReport EXCEPT !.at = "error"]
    /\ report.at \notin {"sites", "done"} => report.ready = {}
    /\ report.at \in {"sites", "done"} => report.ask = {}
    /\ report.at = "done" => report.left = {}
    /\ report.ready \subseteq report.sites /\ report.left \subseteq report.sites
    /\ report.ok => report.ready = report.sites /\ report.passed = MachineChecks
                    /\ report.at = "done"

ReportTyped == report \in ReportType /\ Progress

-----------------------------------------------------------------------------
(* Types.                                                                   *)

\* The three ends of a command, and a failing call, touch the host alone.
HostSteps ==
    /\ faults' \in {faults, faults + 1}
    /\ \/ cancelled' = cancelled
       \/ \E c \in Callers : cancelled' = cancelled \cup {c}

LEMMA CommandsAreHostSteps ==
    ASSUME HostTyped, NEW c \in Callers, NEW kind,
           CommandSucceeds(c) \/ CommandRefused(c) \/ CommandBreaks(c, kind)
    PROVE  HostSteps
BY DEF CommandSucceeds, CommandRefused, CommandBreaks, HostSteps, Works, Fails, Cancel

LEMMA StatusAnswers ==
    ASSUME HostTyped, WorldTyped, NEW c \in Callers, NEW s \in Services, NEW state,
           Status(c, s, state)
    PROVE  /\ HostSteps
           /\ state \in Answers
           /\ state = "active" => services[s] = "active"
           /\ faults' = 0 /\ c \notin cancelled' => state = services[s]
<1>1. HostSteps
  BY CommandsAreHostSteps DEF Status
<1>2. services[s] \in States
  BY DEF WorldTyped
<1> QED
  BY <1>1, <1>2 DEF Status, Answers, HostTyped, CommandSucceeds, CommandRefused, CommandBreaks,
     Works, Fails, Cancel

\* What the check of a site does to the report.
LEMMA SiteChecked ==
    ASSUME HostTyped, report \in ReportType, CheckSite
    PROVE  \E i \in report.left :
             \/ /\ SiteReady(i) /\ faults' = faults
                /\ report' = [report EXCEPT !.left = @ \ {i}, !.ready = @ \cup {i}]
             \/ /\ ~SiteReady(i) \/ faults' = faults + 1
                /\ report' = [report EXCEPT !.left = @ \ {i}]
<1>1. PICK i \in report.left :
          \/ /\ Works
             /\ report' = [report EXCEPT !.left = @ \ {i},
                               !.ready = IF SiteReady(i) THEN @ \cup {i} ELSE @]
          \/ Fails("read") /\ report' = [report EXCEPT !.left = @ \ {i}]
  BY DEF CheckSite
<1>2. CASE SiteReady(i) /\ Works
  BY <1>1, <1>2 DEF Works, Fails, ReportType
<1>3. CASE ~SiteReady(i) /\ Works
  <2>1. [report EXCEPT !.left = @ \ {i}, !.ready = @] = [report EXCEPT !.left = @ \ {i}]
    BY DEF ReportType
  <2> QED BY <1>1, <1>3, <2>1 DEF Works, Fails
<1>4. CASE Fails("read")
  BY <1>1, <1>4 DEF Fails, Works, HostTyped
<1> QED BY <1>1, <1>2, <1>3, <1>4

LEMMA ReportStepTypes ==
    ASSUME HostTyped, WorldTyped, ReportTyped, Report
    PROVE  HostSteps /\ ReportTyped'
<1> USE HealthAssumption DEF ReportTyped, ReportType, Progress, MachineChecks, Answers
<1>r. Reporter \in Callers
  OBVIOUS
<1>1. CASE StartReport
  BY <1>1 DEF StartReport, NoReport, Passed, HostSteps, vars
<1>2. CASE ListSites
  <2>1. HostSteps
    BY <1>2 DEF ListSites, HostSteps, Works, Fails
  <2>2. ServiceNames(sites) \subseteq Services
    BY DEF ServiceNames, WorldTyped
  <2>3. CASE report' = [report EXCEPT !.at = "runtimes", !.sites = sites,
                            !.left = sites, !.ask = ServiceNames(sites)]
    <3>1. report' \in ReportType
      BY <2>2, <2>3 DEF WorldTyped
    <3>2. report.at = "list"
      BY <1>2 DEF ListSites
    <3> QED BY <2>1, <2>3, <3>1, <3>2
  <2>4. CASE report' = [NoReport EXCEPT !.at = "error"]
    BY <2>1, <2>4 DEF NoReport
  <2> QED BY <1>2, <2>3, <2>4 DEF ListSites
<1>3. CASE ListRuntimes
  <2>1. HostSteps
    BY <1>3 DEF ListRuntimes, HostSteps, Works, Fails
  <2>2. CASE report' = [report EXCEPT !.at = "inspect",
                            !.passed = @ \cup Passed("inventory", Inventory)]
    <3>1. report' \in ReportType
      BY <2>2 DEF Passed
    <3>2. report.at = "runtimes"
      BY <1>3 DEF ListRuntimes
    <3> QED BY <2>1, <2>2, <3>1, <3>2
  <2>3. CASE report' = [NoReport EXCEPT !.at = "error"]
    BY <2>1, <2>3 DEF NoReport
  <2> QED BY <1>3, <2>2, <2>3 DEF ListRuntimes
<1>4. CASE InspectRouting
  <2>1. HostSteps
    BY <1>4 DEF InspectRouting, HostSteps, Works, Fails
  <2>2. report.at = "inspect"
    BY <1>4 DEF InspectRouting
  <2>3. CASE report' = [report EXCEPT !.at = "status", !.passed =
                            @ \cup Passed("routing", Reporter \notin cancelled /\ RoutingOk)]
    <3>1. report' \in ReportType
      BY <2>3 DEF Passed
    <3> QED BY <2>1, <2>2, <2>3, <3>1
  <2>4. CASE report' = [report EXCEPT !.at = "status"]
    BY <2>1, <2>2, <2>4
  <2> QED BY <1>4, <2>3, <2>4 DEF InspectRouting
<1>5. CASE AskService
  <2>1. PICK s \in report.ask, state \in States \cup {"unknown"} :
          /\ Status(Reporter, s, state)
          /\ report' = [report EXCEPT !.ask = @ \ {s}, !.states[s] = state]
    BY <1>5 DEF AskService
  <2>2. s \in Services
    OBVIOUS
  <2>3. HostSteps
    BY <2>1, <2>2, StatusAnswers, <1>r
  <2> QED BY <1>5, <2>1, <2>2, <2>3 DEF AskService
<1>6. CASE CheckPorts
  BY <1>6 DEF CheckPorts, Passed, HostSteps, Works
<1>7. CASE CheckSite
  <2>1. HostSteps
    BY <1>7 DEF CheckSite, HostSteps, Works, Fails
  <2>2. report.at = "sites"
    BY <1>7 DEF CheckSite
  <2>3. PICK i \in report.left :
          \/ report' = [report EXCEPT !.left = @ \ {i}, !.ready = @ \cup {i}]
          \/ report' = [report EXCEPT !.left = @ \ {i}]
    BY <1>7, SiteChecked
  <2>4. CASE report' = [report EXCEPT !.left = @ \ {i}, !.ready = @ \cup {i}]
    <3>1. report.left \ {i} \in SUBSET SiteIds /\ report.ready \cup {i} \in SUBSET SiteIds
      OBVIOUS
    <3>2. report' \in ReportType
      BY ONLY <2>4, <3>1, report \in ReportType DEF ReportType
    <3> QED BY <2>1, <2>2, <2>4, <3>2
  <2>5. CASE report' = [report EXCEPT !.left = @ \ {i}]
    BY <2>1, <2>2, <2>5
  <2> QED BY <2>3, <2>4, <2>5
<1>8. CASE Conclude
  BY <1>8 DEF Conclude, HostSteps, Works, Ready
<1> QED BY <1>1, <1>2, <1>3, <1>4, <1>5, <1>6, <1>7, <1>8 DEF Report

LEMMA ReportKeepsWorld ==
    ASSUME Report
    PROVE  UNCHANGED <<resolverVars, worldVars, action>>
BY DEF Report, StartReport, ListSites, ListRuntimes, InspectRouting, AskService, CheckPorts,
       CheckSite, Conclude, vars, resolverVars

LEMMA ServiceStepTypes ==
    ASSUME HostTyped, WorldTyped, ActionsTyped, NEW c \in Callers, ServiceRequest(c)
    PROVE  /\ HostSteps /\ WorldTyped' /\ ActionsTyped'
           /\ UNCHANGED <<resolverVars, report>>
<1> USE HealthAssumption DEF ActionsTyped
<1>1. CASE \E s \in Services, effect \in {"active", "inactive"} :
             services[s] # effect /\ Act(c, s, effect)
  <2>1. PICK s \in Services, effect \in {"active", "inactive"} : Act(c, s, effect)
    BY <1>1
  <2>2. UNCHANGED <<cancelled, faults, resolverVars, worldVars, report>>
    BY <2>1 DEF Act, vars, resolverVars
  <2> DEFINE g == [NoAction EXCEPT !.at = "run", !.service = s, !.effect = effect]
  <2>3. g \in ActionType /\ g.effect # "none"
    BY DEF ActionType, Answers, NoAction
  <2>4. ActionsTyped'
    BY <2>1, <2>3 DEF Act
  <2> QED BY <2>2, <2>4 DEF HostSteps, worldVars, WorldTyped
<1>2. CASE RunAction(c)
  <2> DEFINE f == action[c]
  <2>1. f \in ActionType /\ f.effect \in States /\ f.service \in Services
    BY <1>2 DEF RunAction, ActionType, States
  <2>2. HostSteps
    BY <1>2, CommandsAreHostSteps DEF RunAction
  <2>3. \E v \in States : services' \in {services, [services EXCEPT ![f.service] = v]}
    BY <1>2, <2>1 DEF RunAction, States
  <2>4. services' \in [Services -> States]
    BY <2>3 DEF WorldTyped
  <2>5. \E res \in {"ok", "err"} :
           action' = [action EXCEPT ![c].at = "status", ![c].result = res]
    BY <1>2 DEF RunAction
  <2>6. ActionsTyped'
    <3>1. PICK res \in {"ok", "err"} :
             action' = [action EXCEPT ![c] = [f EXCEPT !.at = "status", !.result = res]]
      BY <2>5
    <3>2. [f EXCEPT !.at = "status", !.result = res] \in ActionType
      BY <2>1 DEF ActionType
    <3> QED BY <2>1, <3>1, <3>2
  <2>7. WorldTyped'
    BY <1>2, <2>4 DEF RunAction, WorldTyped
  <2> QED BY <1>2, <2>2, <2>6, <2>7 DEF RunAction
<1>3. CASE ActionStatus(c)
  <2>1. PICK state \in States \cup {"unknown"} :
          /\ Status(c, action[c].service, state)
          /\ action' = [action EXCEPT ![c].at = "returned", ![c].state = state,
                            ![c].result = IF state = "unknown" THEN "err" ELSE @]
    BY <1>3 DEF ActionStatus
  <2>2. action[c] \in ActionType /\ action[c].service \in Services
    BY DEF ActionType
  <2>3. HostSteps
    BY <2>1, <2>2, StatusAnswers
  <2>4. PICK res \in {"none", "ok", "err"} :
           action' = [action EXCEPT ![c].at = "returned", ![c].state = state, ![c].result = res]
    BY <2>1, <2>2 DEF ActionType
  <2>5. ActionsTyped'
    BY <2>2, <2>4 DEF ActionType, Answers
  <2> QED BY <1>3, <2>3, <2>5 DEF ActionStatus, WorldTyped, worldVars
<1>4. CASE ActionEnds(c)
  BY <1>4 DEF ActionEnds, NoAction, HostSteps, vars, resolverVars, worldVars, WorldTyped, ActionType, Answers
<1> QED BY <1>1, <1>2, <1>3, <1>4 DEF ServiceRequest

FrameType ==
    [at : Labels, op : {"none", "ensure", "remove"}, previous : Stubs, data : Stubs,
     undo : BOOLEAN, result : {"none", "ok", "err"}]

LEMMA FramesTyped ==
    ASSUME NEW f \in FrameType
    PROVE  /\ Written(f) \in FrameType /\ WriteFailed(f) \in FrameType
           /\ Undo(f) \in FrameType
           /\ \A l \in Labels : [f EXCEPT !.at = l] \in FrameType
           /\ Idle \in FrameType
           /\ \A res \in {"ok", "err"} : Returned(res) \in FrameType
<1> USE DEF FrameType, Labels, Stubs
<1>1. Idle \in FrameType /\ \A res \in {"ok", "err"} : Returned(res) \in FrameType
  BY DEF Idle, Returned
<1>2. \A l \in Labels : [f EXCEPT !.at = l] \in FrameType
  OBVIOUS
<1>3. Written(f) \in FrameType
  BY DEF Written
<1>4. WriteFailed(f) \in FrameType
  BY <1>1, <1>3 DEF WriteFailed
<1>5. Undo(f) \in FrameType
  BY DEF Undo
<1> QED BY <1>1, <1>2, <1>3, <1>4, <1>5

\* A call of the resolver's manager, whatever state it meets.
LEMMA ResolverStepTypes ==
    ASSUME TypeOK, HostTyped, NEW c \in Callers, Step(c)
    PROVE  TypeOK' /\ HostSteps
<1> DEFINE f == call[c]
<1>0. call \in [Callers -> FrameType] /\ f \in FrameType
      /\ stub \in Stubs /\ temp \in Stubs /\ loaded \in Stubs /\ f.data \in Stubs
  BY DEF TypeOK, FrameType
<1>f. /\ Written(f) \in FrameType /\ WriteFailed(f) \in FrameType /\ Undo(f) \in FrameType
      /\ \A l \in Labels : [f EXCEPT !.at = l] \in FrameType
      /\ \A res \in {"ok", "err"} : Returned(res) \in FrameType
  BY <1>0, FramesTyped
<1> SUFFICES /\ HostSteps
             /\ \E g \in FrameType : To(c, g)
             /\ stub' \in Stubs /\ temp' \in Stubs /\ loaded' \in Stubs
  BY <1>0 DEF TypeOK, FrameType, To
<1>a. Absent \in Stubs /\ "managed" \in Stubs
  BY DEF Stubs
<1> HIDE DEF f
<1>1. CASE Inspect(c)
  <2>1. [f EXCEPT !.at = "writeTemp", !.previous = stub, !.data = "managed"] \in FrameType
    BY <1>0, <1>a DEF FrameType, Labels
  <2> QED BY <1>1, <1>0, <1>f, <2>1 DEF Inspect, HostSteps, Works, Fails, f
<1>2. CASE WriteTemp(c)
  BY <1>2, <1>0, <1>f DEF WriteTemp, HostSteps, Works, Fails, f, Labels
<1>3. CASE Rename(c)
  BY <1>3, <1>0, <1>f, <1>a DEF Rename, HostSteps, Works, Fails, f
<1>4. CASE Read(c)
  <2>1. [f EXCEPT !.at = "remove", !.previous = stub] \in FrameType
    BY <1>0 DEF FrameType, Labels
  <2> QED BY <1>4, <1>0, <1>f, <2>1 DEF Read, HostSteps, Works, Fails, f
<1>5. CASE Remove(c)
  BY <1>5, <1>0, <1>f, <1>a DEF Remove, HostSteps, Works, Fails, f
<1>6. CASE Reload(c)
  <2>1. HostSteps
    BY <1>6, CommandsAreHostSteps DEF Reload
  <2>2. loaded' \in {loaded, stub} /\ UNCHANGED <<stub, temp>>
    BY <1>6 DEF Reload
  <2>3. \E g \in FrameType : To(c, g)
    BY <1>6, <1>f DEF Reload, Labels, f
  <2> QED BY <2>1, <2>2, <2>3, <1>0
<1>7. CASE UndoReload(c)
  <2>1. HostSteps
    BY <1>7, CommandsAreHostSteps DEF UndoReload
  <2>2. loaded' \in {loaded, stub} /\ UNCHANGED <<stub, temp>>
    BY <1>7 DEF UndoReload
  <2> QED BY <1>7, <2>1, <2>2, <1>0, <1>f DEF UndoReload
<1>8. CASE Confirm(c)
  BY <1>8, <1>0, <1>f DEF Confirm, HostSteps, Works, Fails, f
<1> QED BY <1>1, <1>2, <1>3, <1>4, <1>5, <1>6, <1>7, <1>8 DEF Step

LEMMA ResolverRequestTypes ==
    ASSUME TypeOK, HostTyped, NEW c \in Callers, ResolverRequest(c)
    PROVE  TypeOK' /\ HostSteps /\ UNCHANGED <<worldVars, action, report>>
<1>1. CASE Step(c)
  BY <1>1, ResolverStepTypes DEF ResolverRequest
<1>2. CASE ~Step(c)
  <2>1. UNCHANGED <<stub, temp, loaded, cancelled, faults>>
    BY <1>2 DEF ResolverRequest
  <2>2. \E g \in FrameType : To(c, g)
    <3>1. call[c] \in FrameType
      BY DEF TypeOK, FrameType
    <3>2. /\ Idle \in FrameType
          /\ [Idle EXCEPT !.at = "inspect", !.op = "ensure"] \in FrameType
          /\ [Idle EXCEPT !.at = "read", !.op = "remove"] \in FrameType
      BY DEF FrameType, Idle, Labels, Stubs
    <3> QED BY <1>2, <3>2 DEF ResolverRequest, EnsureTestStub, RemoveManagedStub, Collect
  <2> QED BY <2>1, <2>2 DEF TypeOK, FrameType, To, HostSteps, ResolverRequest
<1> QED BY <1>1, <1>2

TypeInv == TypeOK /\ HostTyped /\ WorldTyped /\ ActionsTyped /\ ReportTyped

LEMMA ChangeTypes ==
    ASSUME WorldTyped, Change
    PROVE  WorldTyped' /\ UNCHANGED <<vars, action, report>>
<1>1. UNCHANGED <<vars, action, report>>
  BY DEF Change
<1>2. \A S, e : e \in SiteIds /\ S \subseteq SiteIds => Toggle(S, e) \subseteq SiteIds
  BY DEF Toggle
<1>3. /\ \A v \in Versions : \A s : s \in RuntimeServices[v] => s \in Services
      /\ "failed" \in States
  BY HealthAssumption DEF States
<1> QED BY <1>1, <1>2, <1>3 DEF Change, WorldTyped

\* Every step keeps the types; only the report's own steps change the report.
LEMMA StepTypes ==
    ASSUME TypeInv, [Next]_allVars
    PROVE  /\ TypeInv' /\ HostSteps
           /\ \/ Report /\ Remember
              \/ UNCHANGED report /\ (Remember \/ UNCHANGED allVars)
<1> USE DEF TypeInv
<1>h. ASSUME HostSteps PROVE HostTyped'
  BY <1>h DEF HostSteps, HostTyped
<1>1. CASE UNCHANGED allVars
  BY <1>1 DEF allVars, vars, worldVars, TypeOK, HostTyped, WorldTyped, ActionsTyped,
              ReportTyped, Progress, HostSteps
<1>2. CASE Report /\ Remember
  <2>1. HostSteps /\ ReportTyped'
    BY <1>2, ReportStepTypes
  <2>2. UNCHANGED <<resolverVars, worldVars, action>>
    BY <1>2, ReportKeepsWorld
  <2> QED BY <1>2, <1>h, <2>1, <2>2 DEF resolverVars, worldVars, TypeOK, WorldTyped, ActionsTyped
<1>3. CASE Change /\ Remember
  <2>1. WorldTyped' /\ UNCHANGED <<vars, action, report>>
    BY <1>3, ChangeTypes
  <2> QED BY <1>3, <2>1 DEF vars, TypeOK, HostTyped, ActionsTyped, ReportTyped, Progress, HostSteps
<1>4. ASSUME NEW c \in Callers, Disconnect(c), Remember
      PROVE  TypeInv' /\ HostSteps /\ UNCHANGED report
  BY <1>4, HostAssumption DEF Disconnect, Cancel, resolverVars, worldVars, TypeOK, HostTyped,
     WorldTyped, ActionsTyped, ReportTyped, Progress, HostSteps
<1>5. ASSUME NEW c \in Callers, ResolverRequest(c), Remember
      PROVE  TypeInv' /\ HostSteps /\ UNCHANGED report
  <2>1. TypeOK' /\ HostSteps /\ UNCHANGED <<worldVars, action, report>>
    BY <1>5, ResolverRequestTypes
  <2> QED BY <2>1, <1>h DEF worldVars, WorldTyped, ActionsTyped, ReportTyped, Progress
<1>6. ASSUME NEW c \in Callers, ServiceRequest(c), Remember
      PROVE  TypeInv' /\ HostSteps /\ UNCHANGED report
  <2>1. /\ HostSteps /\ WorldTyped' /\ ActionsTyped'
        /\ UNCHANGED <<resolverVars, report>>
    BY <1>6, ServiceStepTypes
  <2> QED BY <2>1, <1>h DEF resolverVars, TypeOK, ReportTyped, Progress
<1>7. Reporter \in Callers /\ Clients \subseteq Callers
  BY HealthAssumption DEF Clients
<1> QED BY <1>1, <1>2, <1>3, <1>4, <1>5, <1>6, <1>7, ChangeTypes DEF Next

LEMMA InitTypes == Init => TypeInv
<1> SUFFICES ASSUME Init PROVE TypeInv
  OBVIOUS
<1> USE HealthAssumption DEF Init
<1>1. TypeOK
  BY DEF TypeOK, Idle, Labels, Stubs
<1>2. HostTyped /\ WorldTyped
  BY DEF HostInit, HostTyped, WorldTyped, States
<1>3. ActionsTyped
  BY DEF ActionsTyped, ActionType, NoAction, Answers
<1>4. ReportTyped
  BY DEF ReportTyped, ReportType, Progress, NoReport, Answers
<1> QED BY <1>1, <1>2, <1>3, <1>4 DEF TypeInv

\* The report and what it reads keep their types, and sites are judged only
\* when no service is left to ask for (health_service.go:84-187).
THEOREM HealthAlwaysTyped == Spec => []HealthTypeOK
<1>1. TypeInv => HealthTypeOK
  BY DEF TypeInv, HealthTypeOK, WorldTyped, ActionsTyped, ActionType, Answers, ReportTyped,
         ReportType, Progress
<1>2. TypeInv /\ [Next]_allVars => TypeInv'
  BY StepTypes
<1> QED BY <1>1, <1>2, InitTypes, PTL DEF Spec

-----------------------------------------------------------------------------
(* What the history holds.                                                  *)

LEMMA WhatHolds ==
    /\ \A i \in SiteIds : /\ <<"project", i>> \in Conditions
                          /\ Holds(<<"project", i>>) <=> i \in projects
                          /\ <<"registered", i>> \in Conditions
                          /\ Holds(<<"registered", i>>) <=> i \in sites
    /\ \A s \in Services : /\ <<"service", s>> \in Conditions
                           /\ Holds(<<"service", s>>) <=> services[s] = "active"
    /\ \A v \in Versions, s \in Services :
          /\ <<"assigned", v, s>> \in Conditions
          /\ Holds(<<"assigned", v, s>>) <=> runtimes[v] = s
    /\ \A check \in MachineChecks : <<check>> \in Conditions
    /\ Holds(<<"socket">>) <=> "socket" \in facts
    /\ Holds(<<"inventory">>) <=> Inventory
    /\ Holds(<<"routing">>) <=> RoutingOk
    /\ Holds(<<"ports">>) <=> services[Web] = "active" \/ "ports" \in facts
<1>1. \A i \in SiteIds : <<"project", i>> \in Conditions /\ <<"registered", i>> \in Conditions
  BY DEF Conditions
<1>2. \A s \in Services : <<"service", s>> \in Conditions
  BY DEF Conditions
<1>3. \A v \in Versions, s \in Services : <<"assigned", v, s>> \in Conditions
  BY DEF Conditions
<1>4. \A check \in MachineChecks : <<check>> \in Conditions
  BY DEF Conditions
<1>5. \A i : Holds(<<"project", i>>) <=> i \in projects
  BY DEF Holds
<1>6. \A i : Holds(<<"registered", i>>) <=> i \in sites
  BY DEF Holds
<1>7. \A s : Holds(<<"service", s>>) <=> services[s] = "active"
  BY DEF Holds
<1>8. \A v, s : Holds(<<"assigned", v, s>>) <=> runtimes[v] = s
  BY DEF Holds
<1>9. /\ Holds(<<"socket">>) <=> "socket" \in facts
      /\ Holds(<<"inventory">>) <=> Inventory
      /\ Holds(<<"routing">>) <=> RoutingOk
      /\ Holds(<<"ports">>) <=> services[Web] = "active" \/ "ports" \in facts
  BY DEF Holds
<1> QED BY <1>1, <1>2, <1>3, <1>4, <1>5, <1>6, <1>7, <1>8, <1>9

\* The history only grows until the report is given up.
LEMMA HistoryGrows ==
    ASSUME Remember, report'.at # "error"
    PROVE  held \subseteq held' /\ missed \subseteq missed'
BY DEF Remember, Underway

LEMMA HistoryRemembers ==
    ASSUME Remember, Underway', NEW c \in Conditions
    PROVE  (Holds(c) => c \in held') /\ (~Holds(c) => c \in missed')
BY DEF Remember

-----------------------------------------------------------------------------
(* What the report has found in order.                                      *)

ReadyOnce(i) ==
    /\ Once(<<"registered", i>>) /\ Once(<<"project", i>>)
    /\ Once(<<"service", Web>>)
    /\ \E s \in Services : /\ Once(<<"assigned", VersionOf[i], s>>)
                           /\ Once(<<"service", s>>)

Grounded ==
    /\ \A i \in report.sites : Once(<<"registered", i>>)
    /\ \A s \in Services : report.states[s] = "active" => Once(<<"service", s>>)
    /\ report.states[Web] = "active" => Once(<<"ports">>)
    /\ \A check \in report.passed : Once(<<check>>)
    /\ \A i \in report.ready : ReadyOnce(i)

\* A report that has found nothing says nothing.
LEMMA NothingIsGrounded ==
    ASSUME NEW l, report' = [NoReport EXCEPT !.at = l]
    PROVE  Grounded'
BY HealthAssumption DEF Grounded, NoReport

\* What was grounded stays so while the history grows.
LEMMA GroundedStays ==
    ASSUME Grounded, held \subseteq held',
           \A i \in report'.sites : i \in report.sites \/ <<"registered", i>> \in held',
           \A s \in Services : report'.states[s] = "active" =>
                report.states[s] = "active" \/ <<"service", s>> \in held',
           report'.states[Web] = "active" =>
                report.states[Web] = "active" \/ <<"ports">> \in held',
           \A check \in report'.passed : check \in report.passed \/ <<check>> \in held',
           \A i \in report'.ready : i \in report.ready \/ ReadyOnce(i)'
    PROVE  Grounded'
<1>1. ASSUME NEW i \in report.ready PROVE ReadyOnce(i)'
  <2>1. ReadyOnce(i)
    BY DEF Grounded
  <2> QED BY <2>1 DEF ReadyOnce, Once
<1> QED BY <1>1 DEF Grounded, Once

LEMMA GroundedStep ==
    ASSUME TypeInv, Grounded, [Next]_allVars
    PROVE  Grounded'
<1>1. CASE UNCHANGED allVars
  <2>1. report' = report /\ held' = held
    BY <1>1 DEF allVars, history
  <2> QED BY <2>1, GroundedStays
<1>2. CASE UNCHANGED report /\ Remember
  <2>1. CASE report'.at # "error"
    <3>1. held \subseteq held'
      BY <1>2, <2>1, HistoryGrows
    <3> QED BY <1>2, <3>1, GroundedStays
  <2>2. CASE report'.at = "error"
    BY <1>2, <2>2, NothingIsGrounded DEF TypeInv, ReportTyped, Progress
  <2> QED BY <2>1, <2>2
<1>3. CASE Report /\ Remember
  <2> USE HealthAssumption DEF TypeInv, ReportTyped
  <2>t. report \in ReportType
    OBVIOUS
  <2>g. ASSUME report'.at # "error" PROVE held \subseteq held'
    BY <1>3, <2>g, HistoryGrows
  <2>r. ASSUME NEW c \in Conditions, Holds(c), report'.at \notin {"idle", "done", "error"}
        PROVE  c \in held'
    BY <1>3, <2>r, HistoryRemembers DEF Underway
  <2>1. CASE StartReport
    <3>1. report' = [NoReport EXCEPT !.at = "list",
                                     !.passed = Passed("socket", "socket" \in facts)]
      BY <2>1 DEF StartReport
    <3>2. "socket" \in facts => <<"socket">> \in held'
      BY <3>1, <2>r, WhatHolds DEF NoReport, MachineChecks
    <3> QED BY <3>1, <3>2 DEF Grounded, NoReport, Passed, Once
  <2>2. CASE ListSites
    <3>1. CASE report' = [NoReport EXCEPT !.at = "error"]
      BY <3>1, NothingIsGrounded
    <3>2. CASE report' = [report EXCEPT !.at = "runtimes", !.sites = sites,
                            !.left = sites, !.ask = ServiceNames(sites)]
      <4>1. /\ report'.at = "runtimes" /\ report'.sites = sites
            /\ report'.states = report.states /\ report'.passed = report.passed
            /\ report'.ready = report.ready
        BY <2>t, <3>2 DEF ReportType
      <4>2. \A i \in sites : <<"registered", i>> \in held'
        BY <4>1, <2>r, WhatHolds DEF WorldTyped
      <4> QED BY <4>1, <4>2, <2>g, GroundedStays
    <3> QED BY <2>2, <3>1, <3>2 DEF ListSites
  <2>3. CASE ListRuntimes
    <3>1. CASE report' = [NoReport EXCEPT !.at = "error"]
      BY <3>1, NothingIsGrounded
    <3>2. CASE report' = [report EXCEPT !.at = "inspect",
                            !.passed = @ \cup Passed("inventory", Inventory)]
      <4>1. /\ report'.at = "inspect" /\ report'.sites = report.sites
            /\ report'.states = report.states /\ report'.ready = report.ready
            /\ report'.passed = report.passed \cup Passed("inventory", Inventory)
        BY <2>t, <3>2 DEF ReportType
      <4>2. Inventory => <<"inventory">> \in held'
        BY <4>1, <2>r, WhatHolds DEF MachineChecks
      <4>3. \A check \in report'.passed : check \in report.passed \/ <<check>> \in held'
        BY <4>1, <4>2 DEF Passed
      <4> QED BY <4>1, <4>3, <2>g, GroundedStays
    <3> QED BY <2>3, <3>1, <3>2 DEF ListRuntimes
  <2>4. CASE InspectRouting
    <3>1. /\ report'.at = "status" /\ report'.sites = report.sites
          /\ report'.states = report.states /\ report'.ready = report.ready
          /\ \/ report'.passed = report.passed
             \/ report'.passed =
                   report.passed \cup Passed("routing", Reporter \notin cancelled /\ RoutingOk)
      BY <2>t, <2>4 DEF InspectRouting, ReportType
    <3>2. RoutingOk => <<"routing">> \in held'
      BY <3>1, <2>r, WhatHolds DEF MachineChecks
    <3>3. \A check \in report'.passed : check \in report.passed \/ <<check>> \in held'
      BY <3>1, <3>2 DEF Passed
    <3> QED BY <3>1, <3>3, <2>g, GroundedStays
  <2>5. CASE AskService
    <3>1. PICK s \in report.ask, state \in States \cup {"unknown"} :
          /\ Status(Reporter, s, state)
          /\ report' = [report EXCEPT !.ask = @ \ {s}, !.states[s] = state]
      BY <2>5 DEF AskService
    <3>2. s \in Services /\ (state = "active" => services[s] = "active")
      BY <2>t, <3>1, StatusAnswers DEF ReportType
    <3>3. /\ report'.at = "status" /\ report'.sites = report.sites
          /\ report'.passed = report.passed /\ report'.ready = report.ready
          /\ report'.states = [report.states EXCEPT ![s] = state]
      BY <2>t, <2>5, <3>1 DEF AskService, ReportType
    <3>4. state = "active" => <<"service", s>> \in held' /\ (s = Web => <<"ports">> \in held')
      BY <3>2, <3>3, <2>r, WhatHolds DEF MachineChecks
    <3>5. report.states \in [Services -> Answers]
      BY <2>t DEF ReportType
    <3>6. /\ \A t \in Services : report'.states[t] = "active" =>
                report.states[t] = "active" \/ <<"service", t>> \in held'
          /\ report'.states[Web] = "active" =>
                report.states[Web] = "active" \/ <<"ports">> \in held'
      BY <3>2, <3>3, <3>4, <3>5
    <3> QED BY <3>3, <3>6, <2>g, GroundedStays
  <2>6. CASE CheckPorts
    <3>1. /\ report'.at = "sites" /\ report'.sites = report.sites
          /\ report'.states = report.states /\ report'.ready = report.ready
          /\ report'.passed = report.passed \cup
                Passed("ports", report.states[Web] = "active" \/ "ports" \in facts)
      BY <2>t, <2>6 DEF CheckPorts, ReportType
    <3>2. report.states[Web] = "active" \/ "ports" \in facts => <<"ports">> \in held'
      BY <3>1, <2>r, <2>g, WhatHolds DEF MachineChecks, Grounded, Once
    <3>3. \A check \in report'.passed : check \in report.passed \/ <<check>> \in held'
      BY <3>1, <3>2 DEF Passed
    <3> QED BY <3>1, <3>3, <2>g, GroundedStays
  <2>7. CASE CheckSite
    <3>1. PICK i \in report.left :
             \/ /\ SiteReady(i)
                /\ report' = [report EXCEPT !.left = @ \ {i}, !.ready = @ \cup {i}]
             \/ report' = [report EXCEPT !.left = @ \ {i}]
      BY <2>7, SiteChecked
    <3>2. /\ report'.at = "sites" /\ report'.sites = report.sites
          /\ report'.states = report.states /\ report'.passed = report.passed
          /\ \/ report'.ready = report.ready
             \/ SiteReady(i) /\ report'.ready = report.ready \cup {i}
      BY <2>t, <2>7, <3>1 DEF CheckSite, ReportType
    <3>3. i \in SiteIds /\ i \in report.sites /\ VersionOf[i] \in Versions
      BY <2>t, <3>1 DEF ReportType, Progress
    <3>4. SiteReady(i) => ReadyOnce(i)'
      <4> SUFFICES ASSUME SiteReady(i) PROVE ReadyOnce(i)'
        OBVIOUS
      <4> DEFINE s == runtimes[VersionOf[i]]
      <4>1. s \in Services /\ PhpService(VersionOf[i]) = s
        BY <3>3 DEF SiteReady, PhpService, WorldTyped
      <4>2. <<"project", i>> \in held' /\ <<"assigned", VersionOf[i], s>> \in held'
        BY <3>2, <3>3, <4>1, <2>r, WhatHolds DEF SiteReady
      <4>3. <<"service", Web>> \in held /\ <<"service", s>> \in held
            /\ <<"registered", i>> \in held
        BY <3>3, <4>1 DEF SiteReady, Grounded, Once
      <4> QED BY <3>2, <4>1, <4>2, <4>3, <2>g DEF ReadyOnce, Once
    <3> QED BY <3>2, <3>4, <2>g, GroundedStays
  <2>8. CASE Conclude
    <3>1. /\ report'.at = "done" /\ report'.sites = report.sites
          /\ report'.states = report.states /\ report'.passed = report.passed
          /\ report'.ready = report.ready
      BY <2>t, <2>8 DEF Conclude, ReportType
    <3> QED BY <3>1, <2>g, GroundedStays
  <2> QED BY <1>3, <2>1, <2>2, <2>3, <2>4, <2>5, <2>6, <2>7, <2>8 DEF Report
<1> QED BY <1>1, <1>2, <1>3, StepTypes

-----------------------------------------------------------------------------
(* What the report has not found in order.                                  *)

\* The report has met neither a failure nor the end of its request.
Clean == faults = 0 /\ Reporter \notin cancelled

Asked == report.at \notin {"idle", "list", "error"}

Lacking(i) ==
    \/ <<"project", i>> \in missed \/ <<"service", Web>> \in missed
    \/ \E s \in Services :
          /\ Once(<<"assigned", VersionOf[i], s>>)
          /\ <<"service", s>> \in missed \/ s \notin ServiceNames(report.sites)
    \/ \A s \in Services : <<"assigned", VersionOf[i], s>> \in missed

Judged == report.sites \ (report.ready \cup report.left)

Covering ==
    /\ Asked => \A i \in SiteIds : <<"registered", i>> \notin missed => i \in report.sites
    /\ Asked /\ Clean => \A s \in ServiceNames(report.sites) :
          s \in report.ask \/ report.states[s] = "active" \/ <<"service", s>> \in missed
    /\ Clean => \A i \in Judged : Lacking(i)

LEMMA CoveringStays ==
    ASSUME Covering, HostTyped, HostSteps,
           held \subseteq held', missed \subseteq missed', Asked,
           report'.sites = report.sites,
           \A s \in ServiceNames(report.sites) :
              \/ s \in report'.ask
              \/ s \notin report.ask /\ report'.states[s] = report.states[s]
              \/ report'.states[s] = "active"
              \/ Clean' => <<"service", s>> \in missed',
           Clean' => \A i \in Judged' : i \in Judged \/ Lacking(i)'
    PROVE  Covering'
<1>1. Clean' => Clean
  BY DEF Clean, HostTyped, HostSteps
<1>2. ServiceNames(report'.sites) = ServiceNames(report.sites)
  OBVIOUS
<1>3. ASSUME NEW i, Lacking(i) PROVE Lacking(i)'
  BY <1>2, <1>3 DEF Lacking, Once
<1> QED BY <1>1, <1>2, <1>3 DEF Covering, Asked

\* Reports that are not yet asked, or given up, cover nothing.
LEMMA NothingToCover ==
    ASSUME ReportTyped', ~Asked'
    PROVE  Covering'
BY DEF ReportTyped, Progress, Asked, Covering, Judged

LEMMA CoveringStep ==
    ASSUME TypeInv, Covering, [Next]_allVars
    PROVE  Covering'
<1>t. TypeInv' /\ HostSteps /\ HostTyped /\ report \in ReportType
  BY StepTypes DEF TypeInv, ReportTyped
<1>0. CASE ~Asked'
  BY <1>0, <1>t, NothingToCover DEF TypeInv
<1>1. CASE UNCHANGED report /\ Asked'
  <2>1. held \subseteq held' /\ missed \subseteq missed'
    BY <1>1, StepTypes, HistoryGrows DEF Asked, allVars, history
  <2>2. Asked /\ Judged' = Judged
    BY <1>1 DEF Asked, Judged
  <2> QED BY <1>1, <1>t, <2>1, <2>2, CoveringStays
<1>2. CASE Report /\ Remember /\ Asked'
  <2> USE HealthAssumption DEF TypeInv, ReportTyped
  <2>g. held \subseteq held' /\ missed \subseteq missed'
    BY <1>2, HistoryGrows DEF Asked
  <2>r. ASSUME NEW c \in Conditions, report'.at # "done"
        PROVE  (Holds(c) => c \in held') /\ (~Holds(c) => c \in missed')
    BY <1>2, <2>r, HistoryRemembers DEF Underway, Asked
  <2>1. CASE StartReport
    BY <1>2, <2>1 DEF StartReport, NoReport, Asked
  <2>2. CASE ListSites
    <3>1. report' = [report EXCEPT !.at = "runtimes", !.sites = sites,
                            !.left = sites, !.ask = ServiceNames(sites)]
      BY <1>2, <2>2 DEF ListSites, NoReport, Asked
    <3>2. /\ report'.at = "runtimes" /\ report'.sites = sites /\ report'.left = sites
          /\ report'.ask = ServiceNames(sites)
      BY <1>t, <3>1 DEF ReportType
    <3>3. \A i \in SiteIds : i \notin sites => <<"registered", i>> \in missed'
      BY <3>2, <2>r, WhatHolds
    <3> QED BY <3>2, <3>3 DEF Covering, Judged
  <2>3. CASE ListRuntimes \/ InspectRouting
    <3>1. /\ report'.sites = report.sites /\ report'.left = report.left
          /\ report'.ask = report.ask /\ report'.states = report.states
          /\ report'.ready = report.ready /\ Asked
      BY <1>t, <1>2, <2>3 DEF ListRuntimes, InspectRouting, NoReport, Asked, ReportType
    <3> QED BY <1>t, <2>g, <3>1, CoveringStays DEF Judged
  <2>5. CASE AskService
    <3>1. PICK s \in report.ask, state \in States \cup {"unknown"} :
          /\ Status(Reporter, s, state)
          /\ report' = [report EXCEPT !.ask = @ \ {s}, !.states[s] = state]
      BY <2>5 DEF AskService
    <3>2. s \in Services /\ (faults' = 0 /\ Reporter \notin cancelled' => state = services[s])
      BY <1>t, <3>1, StatusAnswers DEF ReportType
    <3>3. /\ report'.at = "status" /\ Asked /\ report'.sites = report.sites
          /\ report'.ready = report.ready /\ report'.left = report.left
          /\ report'.ask = report.ask \ {s}
          /\ report'.states = [report.states EXCEPT ![s] = state]
      BY <1>t, <2>5, <3>1 DEF AskService, ReportType, Asked
    <3>4. Clean' /\ state # "active" => <<"service", s>> \in missed'
      BY <3>2, <3>3, <2>r, WhatHolds DEF Clean
    <3>5. report.states \in [Services -> Answers]
      BY <1>t DEF ReportType
    <3>6. ASSUME NEW t \in ServiceNames(report.sites)
          PROVE  \/ t \in report'.ask
                 \/ t \notin report.ask /\ report'.states[t] = report.states[t]
                 \/ report'.states[t] = "active"
                 \/ Clean' => <<"service", t>> \in missed'
      <4>1. CASE t = s
        BY <3>2, <3>3, <3>4, <3>5, <4>1
      <4>2. CASE t # s
        BY <3>3, <3>5, <4>2
      <4> QED BY <4>1, <4>2
    <3> QED BY <1>t, <2>g, <3>3, <3>6, CoveringStays DEF Judged
  <2>6. CASE CheckPorts \/ Conclude
    <3>1. /\ report'.sites = report.sites /\ report'.left = report.left
          /\ report'.ask = report.ask /\ report'.states = report.states
          /\ report'.ready = report.ready /\ Asked
      BY <1>t, <1>2, <2>6 DEF CheckPorts, Conclude, Asked, ReportType
    <3> QED BY <1>t, <2>g, <3>1, CoveringStays DEF Judged
  <2>7. CASE CheckSite
    <3>1. PICK i \in report.left :
             \/ /\ SiteReady(i)
                /\ report' = [report EXCEPT !.left = @ \ {i}, !.ready = @ \cup {i}]
             \/ /\ ~SiteReady(i) \/ faults' = faults + 1
                /\ report' = [report EXCEPT !.left = @ \ {i}]
      BY <1>t, <2>7, SiteChecked
    <3>2. /\ report'.at = "sites" /\ Asked /\ report'.sites = report.sites
          /\ report'.states = report.states /\ report'.ask = report.ask
          /\ report'.left = report.left \ {i}
          /\ \/ report'.ready = report.ready \cup {i}
             \/ /\ ~SiteReady(i) \/ faults' = faults + 1
                /\ report'.ready = report.ready
      BY <1>t, <2>7, <3>1 DEF CheckSite, ReportType, Asked
    <3>3. i \in SiteIds /\ i \in report.sites /\ VersionOf[i] \in Versions
          /\ report.ask = {}
      BY <1>t, <2>7, <3>1 DEF CheckSite, ReportType, Progress
    <3>4. ASSUME Clean', ~SiteReady(i) PROVE Lacking(i)'
      <4> DEFINE s == runtimes[VersionOf[i]]
      <4>1. Clean
        BY <1>t, <3>4 DEF Clean, HostTyped, HostSteps
      <4>2. \A t \in ServiceNames(report.sites) :
               report.states[t] = "active" \/ <<"service", t>> \in missed
        BY <4>1, <3>2, <3>3 DEF Covering
      <4>3. CASE i \notin projects
        BY <4>3, <3>2, <3>3, <2>r, WhatHolds DEF Lacking
      <4>4. CASE s = Unset
        <5>1. \A t \in Services : <<"assigned", VersionOf[i], t>> \in missed'
          BY <4>4, <3>2, <3>3, <2>r, WhatHolds
        <5> QED BY <5>1 DEF Lacking
      <4>5. CASE report.states[Web] # "active"
        BY <4>5, <4>2, <2>g DEF Lacking, ServiceNames
      <4>6. CASE s # Unset /\ report.states[s] # "active"
        <5>1. s \in Services
          BY <4>6, <3>3 DEF WorldTyped
        <5>2. <<"assigned", VersionOf[i], s>> \in held'
          BY <5>1, <3>2, <3>3, <2>r, WhatHolds
        <5>3. <<"service", s>> \in missed' \/ s \notin ServiceNames(report'.sites)
          BY <4>2, <4>6, <3>2, <2>g
        <5> QED BY <5>1, <5>2, <5>3 DEF Lacking, Once
      <4> QED BY <4>1, <3>4, <4>3, <4>4, <4>5, <4>6 DEF SiteReady, PhpService, Clean
    <3>5. Clean' => faults' # faults + 1
      BY <1>t DEF Clean, HostTyped
    <3>6. Clean' => \A j \in Judged' : j \in Judged \/ Lacking(j)'
      BY <3>2, <3>4, <3>5 DEF Judged
    <3> QED BY <1>t, <2>g, <3>2, <3>6, CoveringStays
  <2> QED BY <1>2, <2>1, <2>2, <2>3, <2>5, <2>6, <2>7 DEF Report
<1> QED BY <1>0, <1>1, <1>2, StepTypes

-----------------------------------------------------------------------------
ReportInv == TypeInv /\ Grounded /\ Covering

LEMMA InitReport == Init => ReportInv
<1> SUFFICES ASSUME Init PROVE ReportInv
  OBVIOUS
<1>1. TypeInv
  BY InitTypes
<1>2. report = NoReport
  BY DEF Init
<1>3. Grounded
  BY <1>2, HealthAssumption DEF Grounded, NoReport
<1>4. Covering
  BY <1>2 DEF Covering, NoReport, Asked, Judged
<1> QED BY <1>1, <1>3, <1>4 DEF ReportInv

LEMMA ReportInvariance == Spec => []ReportInv
<1>1. ReportInv /\ [Next]_allVars => ReportInv'
  BY StepTypes, GroundedStep, CoveringStep DEF ReportInv
<1> QED BY <1>1, InitReport, PTL DEF Spec

\* A site that the report calls ready was registered, was a Laravel project and
\* had Caddy and the FPM service of its runtime running, each at some time while
\* the report was made (siteReadiness, health_service.go:189-248).
THEOREM ReadySitesAlwaysWere == Spec => []ReadySitesWereReady
<1>1. ReportInv => ReadySitesWereReady
  BY DEF ReportInv, Grounded, ReadyOnce, ReadySitesWereReady
<1> QED BY <1>1, ReportInvariance, PTL

\* A report that is ready as a whole found each check of the machine to hold at
\* some time while it was made, and leaves out no site that was registered
\* throughout (Report, health_service.go:84-187).
THEOREM ReadyReportsAlwaysCover == Spec => []ReadyReportsCoverTheMachine
<1>1. ReportInv => ReadyReportsCoverTheMachine
  BY DEF ReportInv, TypeInv, ReportTyped, Progress, Grounded, Covering, Asked,
         ReadyReportsCoverTheMachine
<1> QED BY <1>1, ReportInvariance, PTL

\* A report that no failure and no disconnection disturbed calls a site not ready
\* only when it lacked something at some time while the report was made, or when
\* its runtime has a service the report does not ask for
\* (health_service.go:114-131, 210-213).
THEOREM UnreadySitesNeverWere == Spec => []UnreadySitesWereNot
<1>1. ReportInv => UnreadySitesWereNot
  <2> SUFFICES ASSUME ReportInv, report.at = "done", Clean,
                      NEW i \in report.sites \ report.ready
               PROVE  Lacking(i)
    BY DEF UnreadySitesWereNot, Lacking, Clean
  <2>1. i \in Judged
    BY DEF ReportInv, TypeInv, ReportTyped, Progress, Judged
  <2> QED BY <2>1 DEF ReportInv, Covering
<1> QED BY <1>1, ReportInvariance, PTL

-----------------------------------------------------------------------------
(* Calls of the resolver's manager, one at a time.                          *)

\* One client calls the resolver's manager, and what undoes a change works.
OneCallAtATime == (\E q : Clients \subseteq {q}) /\ "undo" \notin FaultKinds

\* systemd-resolved has read the drop-in, if it had when the call began.
InSync(c) == was[c].inSync => loaded = stub

\* What a call has done so far, compared with the drop-in it found.
Standing(c) ==
    LET f == call[c]
        w == was[c]
        untouched == stub = w.stub /\ InSync(c)
    IN  /\ f.at \notin {"idle", "returned"} => f.op = w.op
        /\ f.at = "inspect" => f.op = "ensure" /\ ~f.undo /\ untouched
        /\ f.at = "read" => f.op = "remove" /\ ~f.undo /\ untouched
        /\ f.at \in {"writeTemp", "rename"} /\ ~f.undo =>
              /\ f.op = "ensure" /\ f.data = "managed"
              /\ f.previous = w.stub /\ untouched
        /\ f.at \in {"writeTemp", "rename"} /\ f.undo => f.data = w.stub /\ f.data # Absent
        /\ f.at = "rename" => temp = f.data
        /\ f.at = "remove" /\ ~f.undo =>
              f.op = "remove" /\ f.previous = w.stub /\ untouched
        /\ f.at = "remove" /\ f.undo => w.stub = Absent
        /\ f.at = "reload" =>
              /\ f.op \in {"ensure", "remove"} /\ ~f.undo /\ f.previous = w.stub
              /\ stub = (IF f.op = "ensure" THEN "managed" ELSE Absent)
        /\ f.at = "undoReload" => stub = w.stub
        /\ f.at = "confirm" => f.op = "ensure" /\ stub = "managed" /\ loaded = "managed"
        /\ f.at = "returned" =>
              IF f.result = "ok"
              THEN stub = (IF w.op = "ensure" THEN "managed" ELSE Absent) /\ InSync(c)
              ELSE \/ stub = w.stub /\ (c \in cancelled \/ InSync(c))
                   \/ w.op = "ensure" /\ stub = "managed" /\ loaded = "managed"

LEMMA WasFields ==
    ASSUME NEW w, NEW a, NEW l, NEW o, w = [stub |-> a, inSync |-> l = a, op |-> o]
    PROVE  w.stub = a /\ w.op = o /\ (w.inSync => l = a)
<1>1. ASSUME NEW b \in BOOLEAN, w = [stub |-> a, inSync |-> b, op |-> o]
      PROVE  w.stub = a /\ w.op = o /\ w.inSync = b
  BY <1>1
<1>2. (l = a) \in BOOLEAN
  OBVIOUS
<1> QED BY <1>1, <1>2, Zenon

\* A call that goes on remembers what it found.
LEMMA CallsRemember ==
    ASSUME Remember, NEW c \in Callers
    PROVE  /\ call[c].at # "idle" \/ call'[c].at = "idle" => was'[c] = was[c]
           /\ call[c].at = "idle" /\ call'[c].at # "idle" =>
                 was'[c] = [stub |-> stub, inSync |-> loaded = stub, op |-> call'[c].op]
BY DEF Remember

LEMMA StandingStays ==
    ASSUME NEW c \in Callers, Standing(c), UNCHANGED resolverVars,
           cancelled \subseteq cancelled', was'[c] = was[c]
    PROVE  Standing(c)'
BY DEF Standing, InSync, resolverVars

LEMMA ResolverStanding ==
    ASSUME TypeOK, HostTyped, OneCallAtATime, NEW c \in Callers, Standing(c), Step(c),
           was'[c] = was[c]
    PROVE  Standing(c)'
<1> DEFINE f == call[c]
           w == was[c]
<1>0. f \in FrameType /\ call \in [Callers -> FrameType]
  BY DEF TypeOK, FrameType
<1>u. ~Fails("undo")
  BY DEF OneCallAtATime, Fails
<1>t. \A g : To(c, g) => call'[c] = g
  BY <1>0 DEF To
<1>r. \A res : Returned(res).at = "returned" /\ Returned(res).result = res
  BY DEF Returned, Idle
<1>a. Absent # "managed" /\ Absent # "foreign"
  BY ResolvedAssumption
<1> USE DEF InSync
<1>1. CASE Inspect(c)
  <2>1. f.at = "inspect" /\ UNCHANGED <<stub, temp, loaded, cancelled>>
    BY <1>1 DEF Inspect
  <2>2. \/ call'[c] = [f EXCEPT !.at = "writeTemp", !.previous = stub, !.data = "managed"]
        \/ call'[c] = Returned("err")
    BY <1>1, <1>t DEF Inspect
  <2>3. CASE call'[c] = [f EXCEPT !.at = "writeTemp", !.previous = stub, !.data = "managed"]
    <3>1. /\ call'[c].at = "writeTemp" /\ call'[c].op = f.op /\ call'[c].undo = f.undo
          /\ call'[c].previous = stub /\ call'[c].data = "managed"
      BY <2>3, <1>0 DEF FrameType
    <3> QED BY <2>1, <3>1, <1>0 DEF Standing
  <2>4. CASE call'[c] = Returned("err")
    BY <2>1, <2>4, <1>r DEF Standing
  <2> QED BY <2>2, <2>3, <2>4
<1>2. CASE WriteTemp(c)
  <2>1. f.at = "writeTemp" /\ UNCHANGED <<stub, loaded, cancelled>>
    BY <1>2 DEF WriteTemp
  <2>2. \/ temp' = f.data /\ call'[c] = [f EXCEPT !.at = "rename"]
        \/ ~f.undo /\ call'[c] = Returned("err")
    BY <1>2, <1>t, <1>u, <1>0 DEF WriteTemp, Kind, WriteFailed, FrameType
  <2> QED BY <2>1, <2>2, <1>0, <1>r DEF Standing, FrameType
<1>3. CASE Rename(c)
  <2>1. f.at = "rename" /\ UNCHANGED <<loaded, cancelled>> /\ temp = f.data /\ temp # Absent
    BY <1>3, <1>a DEF Rename, Standing
  <2>2. \/ stub' = f.data /\ call'[c] = Written(f)
        \/ ~f.undo /\ call'[c] = Returned("err") /\ UNCHANGED stub
    BY <1>3, <2>1, <1>t, <1>u, <1>0 DEF Rename, Kind, WriteFailed, FrameType
  <2> QED BY <2>1, <2>2, <1>0, <1>r DEF Standing, FrameType, Written
<1>4. CASE Read(c)
  <2>1. f.at = "read" /\ UNCHANGED <<stub, temp, loaded, cancelled>>
    BY <1>4 DEF Read
  <2>2. \/ stub = Absent /\ call'[c] = Returned("ok")
        \/ call'[c] = Returned("err")
        \/ call'[c] = [f EXCEPT !.at = "remove", !.previous = stub]
    BY <1>4, <1>t, <1>a DEF Read
  <2>3. CASE call'[c] = [f EXCEPT !.at = "remove", !.previous = stub]
    <3>1. /\ call'[c].at = "remove" /\ call'[c].op = f.op /\ call'[c].undo = f.undo
          /\ call'[c].previous = stub
      BY <2>3, <1>0 DEF FrameType
    <3> QED BY <2>1, <3>1, <1>0 DEF Standing
  <2>4. CASE stub = Absent /\ call'[c] = Returned("ok")
    BY <2>1, <2>4, <1>r DEF Standing
  <2>5. CASE call'[c] = Returned("err")
    BY <2>1, <2>5, <1>r DEF Standing
  <2> QED BY <2>2, <2>3, <2>4, <2>5
<1>5. CASE Remove(c)
  <2>1. f.at = "remove" /\ UNCHANGED <<temp, loaded, cancelled>>
    BY <1>5 DEF Remove
  <2>2. \/ stub' = Absent /\ call'[c] = Written(f)
        \/ ~f.undo /\ call'[c] = Returned("err") /\ UNCHANGED stub
    BY <1>5, <1>t, <1>u, <1>0 DEF Remove, Kind, WriteFailed, FrameType
  <2> QED BY <2>1, <2>2, <1>0, <1>r DEF Standing, FrameType, Written
<1>6. CASE Reload(c)
  <2>1. f.at = "reload" /\ UNCHANGED <<stub, temp>>
    BY <1>6 DEF Reload
  <2>2. \/ loaded' = stub /\ f.op = "ensure" /\ call'[c] = [f EXCEPT !.at = "confirm"]
        \/ loaded' = stub /\ f.op # "ensure" /\ call'[c] = Returned("ok")
        \/ call'[c] = Undo(f)
    BY <1>6, <1>t DEF Reload
  <2>3. CASE loaded' = stub /\ f.op = "ensure" /\ call'[c] = [f EXCEPT !.at = "confirm"]
    BY <2>1, <2>3, <1>0 DEF Standing, FrameType
  <2>4. CASE loaded' = stub /\ f.op # "ensure" /\ call'[c] = Returned("ok")
    BY <2>1, <2>4, <1>r DEF Standing
  <2>5. CASE call'[c] = Undo(f)
    BY <2>1, <2>5, <1>0 DEF Standing, FrameType, Undo
  <2> QED BY <2>2, <2>3, <2>4, <2>5
<1>7. CASE UndoReload(c)
  <2>1. f.at = "undoReload" /\ UNCHANGED <<stub, temp>> /\ call'[c] = Returned("err")
    BY <1>7, <1>t DEF UndoReload
  <2>2. loaded' = stub \/ c \in cancelled'
    BY <1>7, <1>u DEF UndoReload, CommandSucceeds, CommandRefused, CommandBreaks, Cancel
  <2> QED BY <2>1, <2>2, <1>r DEF Standing
<1>8. CASE Confirm(c)
  <2>1. f.at = "confirm" /\ UNCHANGED <<stub, temp, loaded, cancelled>>
    BY <1>8 DEF Confirm
  <2>2. \E res \in {"ok", "err"} : call'[c] = Returned(res)
    BY <1>8, <1>t DEF Confirm
  <2> QED BY <2>1, <2>2, <1>r DEF Standing
<1> QED BY <1>1, <1>2, <1>3, <1>4, <1>5, <1>6, <1>7, <1>8 DEF Step

LEMMA StandingStep ==
    ASSUME OneCallAtATime, TypeInv, [Next]_allVars, NEW c \in Clients, Standing(c)
    PROVE  Standing(c)'
<1>c. c \in Callers /\ \A q \in Clients : q = c
  BY DEF OneCallAtATime, Clients
<1>h. cancelled \subseteq cancelled'
  BY StepTypes DEF HostSteps
<1>1. CASE UNCHANGED allVars
  BY <1>1, <1>c, <1>h, StandingStays DEF allVars, vars, resolverVars, history
<1>2. CASE UNCHANGED resolverVars /\ Remember
  <2>1. call' = call
    BY <1>2 DEF resolverVars
  <2>2. was'[c] = was[c]
    BY <1>2, <2>1, <1>c, CallsRemember
  <2> QED BY <1>2, <1>c, <1>h, <2>2, StandingStays
<1>3. CASE ResolverRequest(c) /\ Remember
  <2>0. call \in [Callers -> FrameType] /\ TypeOK /\ HostTyped
    BY DEF TypeInv, TypeOK, FrameType
  <2>1. CASE Step(c)
    <3>1. call[c].at # "idle"
      BY <2>1 DEF Step, Inspect, WriteTemp, Rename, Read, Remove, Reload, UndoReload, Confirm
    <3> QED BY <1>3, <1>c, <2>0, <2>1, <3>1, CallsRemember, ResolverStanding
  <2>2. CASE EnsureTestStub(c) \/ RemoveManagedStub(c)
    <3>1. /\ call[c].at = "idle"
          /\ \/ call'[c] = [Idle EXCEPT !.at = "inspect", !.op = "ensure"]
             \/ call'[c] = [Idle EXCEPT !.at = "read", !.op = "remove"]
      BY <1>c, <2>0, <2>2 DEF EnsureTestStub, RemoveManagedStub, To
    <3>2. UNCHANGED <<stub, temp, loaded>>
      BY <1>3, <2>0, <3>1 DEF ResolverRequest, Collect, Step, Inspect, WriteTemp, Rename, Read, Remove, Reload, UndoReload, Confirm
    <3>3. was'[c] = [stub |-> stub, inSync |-> loaded = stub, op |-> call'[c].op]
      BY <1>3, <1>c, <3>1, CallsRemember DEF Idle
    <3>4. /\ call'[c].undo = FALSE
          /\ \/ call'[c].at = "inspect" /\ call'[c].op = "ensure"
             \/ call'[c].at = "read" /\ call'[c].op = "remove"
      BY <3>1 DEF Idle
    <3>5. /\ was'[c].stub = stub /\ was'[c].op = call'[c].op
          /\ was'[c].inSync => loaded = stub
      BY <3>3, WasFields
    <3> QED BY <3>2, <3>4, <3>5 DEF Standing, InSync
  <2>3. CASE Collect(c)
    BY <1>c, <2>0, <2>3 DEF Collect, To, Standing, Idle
  <2> QED BY <1>3, <2>1, <2>2, <2>3 DEF ResolverRequest
<1>4. CASE Report /\ Remember
  BY <1>2, <1>4, ReportKeepsWorld
<1>5. CASE Change /\ Remember
  BY <1>2, <1>5 DEF Change, vars, resolverVars
<1>6. CASE (Disconnect(Reporter) \/ Disconnect(c)) /\ Remember
  BY <1>2, <1>6 DEF Disconnect
<1>7. CASE ServiceRequest(c) /\ Remember
  BY <1>2, <1>7, <1>c, ServiceStepTypes DEF TypeInv
<1> QED BY <1>1, <1>3, <1>4, <1>5, <1>6, <1>7, <1>c DEF Next

\* EnsureTestStub and RemoveManagedStub take effect as a whole or not at all
\* (resolved/manager.go:131-185), for a client at a time and any number of
\* failures and cancellations, as long as the undo itself does not fail.
THEOREM ResolverAlwaysAllOrNothing ==
    ASSUME OneCallAtATime
    PROVE  Spec => []ResolverCallsAllOrNothing
<1> DEFINE Inv == TypeInv /\ \A c \in Clients : Standing(c)
<1>1. Init => Inv
  BY InitTypes DEF Init, Standing, Idle, Clients
<1>2. Inv /\ [Next]_allVars => Inv'
  BY StepTypes, StandingStep
<1>3. Inv => ResolverCallsAllOrNothing
  BY DEF Standing, InSync, ResolverCallsAllOrNothing
<1> QED BY <1>1, <1>2, <1>3, PTL DEF Spec
==============================================================================
