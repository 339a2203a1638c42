------------------------ MODULE Orchestration_proofs -------------------------
(***************************************************************************)
(* What the services do to the registry of sites, for any requests, sites   *)
(* and runtimes, whichever calls fail and however the requests interleave.  *)
(*                                                                          *)
(* A registry is changed in three places only: a registration, the undo of  *)
(* one, and the last step of a request (Effect).  Placed says where in its  *)
(* service a request is and what it holds there; each step is shown to end  *)
(* in such a place.  RegistryInv then says whose the records are; SerialInv *)
(* adds, for requests one after the other, that the record a request is     *)
(* about to store still collides with none.                                 *)
(*                                                                          *)
(* The second half is about the managers.  Their frames and files have      *)
(* their types whatever happens.  For requests one after the other whose    *)
(* undos work it is shown that the files of Caddy, of the resolver and of   *)
(* PHP-FPM follow the registry: HoldInv is about the records a request      *)
(* holds, WebInv, DnsInv and PhpInv about one manager each.                 *)
(***************************************************************************)
EXTENDS Orchestration, TLAPS

AfterRegister == {"ensureStub", "materialize", "start", "web", "persist",
                  "undoWeb", "undoList", "undoStub", "undoRecord"}

Locals ==
    [job : Jobs \cup {NoJob}, current : SiteRecords \cup {NoSite},
     next : SiteRecords \cup {NoSite}, runtime : SupportedVersions \cup {Unset},
     committedWeb : BOOLEAN, committedResolver : BOOLEAN]

Results == {"none", "ok", "err"}

\* A request r may be at l with the local variables x and the answer res.
Placed(r, l, x, res) ==
    /\ l \in Labels /\ x \in Locals /\ res \in Results
    /\ res # "none" <=> l = "done"
    /\ x.job.op = "none" => l \in {"idle", "dead"}
    /\ l \in {"idle", "dead"} => x = NoLocals
    /\ x.job.op = "activate" =>
          /\ l \in {"resolve", "register", "done"} \cup AfterRegister
          /\ l \in AfterRegister => /\ x.next \in SiteRecords /\ x.next.id = r
                                    /\ x.current = x.next /\ x.runtime = x.next.php
                                    /\ x.runtime \in SupportedVersions
          /\ l = "register" => x.runtime \in SupportedVersions
          /\ l = "persist" => x.committedWeb
    /\ x.job.op \in {"update", "switch"} =>
          /\ l \in {"get", "prepare", "switchRuntime", "start", "web", "persist", "undoWeb",
                    "switchBack", "restartPrevious", "done"}
          /\ l \notin {"get", "done"} => x.current \in SiteRecords
          /\ l \notin {"get", "prepare", "done"} =>
                /\ x.next \in SiteRecords /\ x.next.id = x.current.id
                /\ x.runtime = x.next.php
    /\ x.job.op \in {"onboard", "package"} =>
          l \in {"inventory", "registerRuntime", "materialize", "status", "done"}
    /\ x.job.op = "default" => l \in {"setDefault", "done"}
    /\ l = "done" => x.next = NoSite
    /\ l \in {"resolve", "register", "get", "prepare"} => x.next = NoSite
    /\ x.job.op \in {"onboard", "package", "default", "none"} => x.next = NoSite

RegistriesTyped ==
    /\ sites \in SUBSET SiteRecords
    /\ runtimes \in [runtimes : SUBSET RuntimeRecords,
                     default : SupportedVersions \cup {Unset}]

LocalsTyped ==
    /\ pc \in [Callers -> Labels] /\ loc \in [Callers -> Locals]
    /\ result \in [Callers -> Results]

Places == \A r \in Callers : Placed(r, pc[r], loc[r], result[r])

\* What one step of request r makes of it.
Move(r, l, x, res) ==
    /\ pc' = [pc EXCEPT ![r] = l]
    /\ loc' = [loc EXCEPT ![r] = x]
    /\ result' = [result EXCEPT ![r] = res]
    /\ pc[r] = "idle" \/ x.job = Job(r)

\* The three steps that change the registry of sites, and the others.
Registers(r, l, x) ==
    /\ pc[r] = "register" /\ l = "ensureStub"
    /\ sites' = sites \cup {x.next}
    /\ ~Collides(sites, x.next.root, x.next.domain)

Deletes(r, l, res) ==
    /\ pc[r] = "undoRecord" /\ l = "done" /\ res = "err"
    /\ \/ sites' = Delete(sites, r).next
       \/ UNCHANGED sites /\ (r \in cancelled \/ "undo" \in FaultKinds)

Stores(r, l, res) ==
    /\ pc[r] = "persist" /\ l = "done" /\ res = "ok"
    /\ HasSite(sites, loc[r].next.id)
    /\ sites' = Update(sites, loc[r].next).next

Passes(r, l, x, res) ==
    /\ UNCHANGED sites
    /\ Is(r, "activate") => /\ pc[r] \in AfterRegister <=> l \in AfterRegister
                            /\ res # "ok"
    /\ \/ x.next = loc[r].next \/ x.next = NoSite
       \/ pc[r] = "prepare" /\ ~Refused(r) /\ x.next = updatedSite(r)
    /\ l = "prepare" => x.current \in sites
    /\ ~Running(r) => res = "none"

Effect(r, l, x, res) ==
    Registers(r, l, x) \/ Deletes(r, l, res) \/ Stores(r, l, res) \/ Passes(r, l, x, res)

Steps(r) ==
    \E l, x, res : Move(r, l, x, res) /\ Placed(r, l, x, res) /\ Effect(r, l, x, res)

-----------------------------------------------------------------------------
(* Steps of a request.                                                      *)

LEMMA JobFields ==
    ASSUME NEW j \in Jobs
    PROVE  /\ j.op \in {"activate", "update", "switch", "onboard", "package", "default"}
           /\ j.op = "activate" =>
                 /\ j.root \in Roots /\ j.domain \in Domains \cup {Unset}
                 /\ j.php \in SupportedVersions \cup {Unset}
           /\ j.op = "update" =>
                 /\ j.root \in Roots \cup {Unset} /\ j.domain \in Domains \cup {Unset}
                 /\ j.php \in SupportedVersions \cup {Unset}
           /\ j.op = "switch" => j.php \in SupportedVersions
           /\ j.op \in {"onboard", "package"} =>
                 /\ j.binary \in Binaries /\ j.service \in FPMServices \cup {Unset}
           /\ j.op = "default" => j.php \in SupportedVersions
<1>1. j \in Requests
  BY OrchestrationAssumption
<1> QED BY <1>1 DEF Requests

\* Goto and Set, Finish, as moves.
LEMMA GotoMoves ==
    ASSUME LocalsTyped, NEW r \in Callers, NEW l, Goto(r, l), NEW x,
           loc' = [loc EXCEPT ![r] = x], pc[r] = "idle" \/ x.job = Job(r)
    PROVE  Move(r, l, x, result[r])
BY DEF LocalsTyped, Goto, Move

LEMMA StayMoves ==
    ASSUME LocalsTyped, NEW r \in Callers, NEW l, Goto(r, l), UNCHANGED loc
    PROVE  Move(r, l, loc[r], result[r])
BY DEF LocalsTyped, Goto, Move, Job

LEMMA NoLocalsTyped ==
    NoLocals \in Locals /\ NoLocals.next = NoSite /\ NoLocals.job.op = "none"
BY DEF NoLocals, NoJob, Locals

LEMMA FinishMoves ==
    ASSUME LocalsTyped, NEW r \in Callers, NEW res \in {"ok", "err"}, Finish(r, res),
           Job(r) \in Jobs
    PROVE  LET x == [NoLocals EXCEPT !.job = Job(r)]
           IN  /\ Move(r, "done", x, res)
               /\ Placed(r, "done", x, res)
               /\ x.next = NoSite
<1> DEFINE x == [NoLocals EXCEPT !.job = Job(r)]
<1>1. x \in Locals /\ x.next = NoSite /\ x.job = Job(r)
  BY NoLocalsTyped DEF Locals
<1>2. Move(r, "done", x, res)
  BY <1>1 DEF Finish, Move
<1>3. Placed(r, "done", x, res)
  BY <1>1, JobFields DEF Placed, Labels, Results, AfterRegister
<1> QED BY <1>1, <1>2, <1>3

\* A request that runs has a job.
LEMMA RunningHasJob ==
    ASSUME LocalsTyped, NEW r \in Callers, Placed(r, pc[r], loc[r], result[r]), Running(r)
    PROVE  Job(r) \in Jobs /\ result[r] = "none"
<1>1. loc[r] \in Locals
  BY DEF LocalsTyped
<1>2. loc[r].job \in Jobs \cup {NoJob}
  BY <1>1 DEF Locals
<1>3. NoJob.op = "none"
  BY DEF NoJob
<1> QED BY <1>2, <1>3 DEF Placed, Running, Job, Results

\* An answer without a change of the registry, by a request that is not an
\* activation or has registered nothing yet.
LEMMA FinishEnds ==
    ASSUME LocalsTyped, NEW r \in Callers, Placed(r, pc[r], loc[r], result[r]), Running(r),
           NEW res \in {"ok", "err"}, Finish(r, res), UNCHANGED sites,
           Is(r, "activate") => pc[r] \notin AfterRegister /\ res = "err"
    PROVE  Steps(r)
<1> DEFINE x == [NoLocals EXCEPT !.job = Job(r)]
<1>1. Job(r) \in Jobs
  BY RunningHasJob
<1>2. Move(r, "done", x, res) /\ Placed(r, "done", x, res) /\ x.next = NoSite
  BY <1>1, FinishMoves
<1>3. Effect(r, "done", x, res)
  BY <1>2 DEF Effect, Passes, AfterRegister
<1> QED BY <1>2, <1>3 DEF Steps

\* A step to another place that changes no local variable.
LEMMA GotoSteps ==
    ASSUME LocalsTyped, NEW r \in Callers, Placed(r, pc[r], loc[r], result[r]), Running(r),
           NEW l, Goto(r, l), UNCHANGED <<loc, sites>>, l # "prepare",
           Placed(r, l, loc[r], "none"),
           Is(r, "activate") => (pc[r] \in AfterRegister <=> l \in AfterRegister)
    PROVE  Steps(r)
<1>1. result[r] = "none"
  BY RunningHasJob
<1>2. Move(r, l, loc[r], "none")
  BY <1>1, StayMoves
<1>3. Effect(r, l, loc[r], "none")
  BY DEF Effect, Passes
<1> QED BY <1>2, <1>3 DEF Steps

\* The rollback of an activation after its site file is gone.
LEMMA RollbackSteps ==
    ASSUME LocalsTyped, NEW r \in Callers, Placed(r, pc[r], loc[r], result[r]),
           pc[r] \in AfterRegister, Is(r, "activate"),
           RollbackAfterWeb(r, loc[r]), UNCHANGED <<loc, sites>>
    PROVE  Steps(r)
<1>1. PICK l \in {"undoList", "undoRecord"} : Goto(r, l)
  BY DEF RollbackAfterWeb
<1>2. Running(r)
  BY DEF Running, AfterRegister
<1>3. Placed(r, l, loc[r], "none")
  BY <1>1 DEF Placed, Is, Job, Labels, AfterRegister, Results
<1> QED BY <1>1, <1>2, <1>3, GotoSteps DEF AfterRegister

LEMMA ResolveSteps ==
    ASSUME RegistriesTyped, LocalsTyped, NEW r \in Callers,
           Placed(r, pc[r], loc[r], result[r]), Resolve(r)
    PROVE  Steps(r)
<1> DEFINE v == resolveRuntime(runtimes, Job(r).php)
           x == [loc[r] EXCEPT !.runtime = v]
<1>0. pc[r] = "resolve" /\ UNCHANGED sites /\ Running(r) /\ loc[r] \in Locals
  BY DEF Resolve, At, Running, LocalsTyped
<1>j. Job(r) \in Jobs /\ result[r] = "none" /\ Is(r, "activate")
  <2>1. Job(r) \in Jobs /\ result[r] = "none"
    BY <1>0, RunningHasJob
  <2> QED BY <1>0, <2>1, JobFields DEF Placed, Is, Job
<1>1. CASE Finish(r, "err")
  BY <1>0, <1>1, FinishEnds DEF AfterRegister
<1>2. CASE v # Unset /\ Set(r, x) /\ Goto(r, "register")
  <2>1. v \in SupportedVersions
    BY <1>2 DEF resolveRuntime, DefaultRuntime, GetRuntime, HasRuntime, RegistriesTyped,
                RuntimeRecords
  <2>2. x \in Locals /\ x.job = Job(r) /\ x.next = loc[r].next /\ x.runtime = v
    BY <1>0, <2>1 DEF Locals, Job
  <2> HIDE DEF x, v
  <2>3. Move(r, "register", x, "none")
    BY <1>2, <1>j, <2>2, GotoMoves DEF Set
  <2>4. Placed(r, "register", x, "none")
    BY <1>0, <1>j, <2>1, <2>2 DEF Placed, Is, Labels, Results, AfterRegister
  <2>5. Effect(r, "register", x, "none")
    BY <1>0, <2>2 DEF Effect, Passes, AfterRegister
  <2> QED BY <2>3, <2>4, <2>5 DEF Steps
<1> QED BY <1>1, <1>2 DEF Resolve

LEMMA RegisterGives ==
    ASSUME NEW S \in SUBSET SiteRecords, NEW i \in SiteIds, NEW root \in Roots,
           NEW raw \in Domains \cup {Unset}, NEW v \in SupportedVersions,
           Register(S, i, root, raw, v).save
    PROVE  \E n \in SiteRecords : /\ n.id = i /\ Register(S, i, root, raw, v).next = S \cup {n}
                                  /\ ~Collides(S, n.root, n.domain) /\ n.php = v
<1> DEFINE domain == normalizeDomain(raw, deriveSiteName(root))
           n == [id |-> i, root |-> root, domain |-> domain, php |-> v]
<1>1. ~Collides(S, root, domain) /\ Register(S, i, root, raw, v).next = S \cup {n}
  BY DEF Register, Outcome
<1>2. domain \in Domains
  BY RegistryAssumption DEF normalizeDomain, deriveSiteName
<1>3. n \in SiteRecords /\ n.id = i /\ n.root = root /\ n.domain = domain /\ n.php = v
  BY <1>2 DEF SiteRecords
<1> QED BY <1>1, <1>3

LEMMA RegisterSteps ==
    ASSUME RegistriesTyped, LocalsTyped, NEW r \in Callers,
           Placed(r, pc[r], loc[r], result[r]), RegisterSite(r), ~HasSite(sites, r)
    PROVE  Steps(r)
<1> DEFINE j == Job(r)
           o == Register(sites, r, j.root, j.domain, loc[r].runtime)
<1>0. pc[r] = "register" /\ Running(r) /\ loc[r] \in Locals
  BY DEF RegisterSite, At, Running, LocalsTyped
<1>j. /\ j \in Jobs /\ result[r] = "none" /\ Is(r, "activate") /\ r \in SiteIds
      /\ j.root \in Roots /\ j.domain \in Domains \cup {Unset}
      /\ loc[r].runtime \in SupportedVersions
  <2>1. Job(r) \in Jobs /\ result[r] = "none"
    BY <1>0, RunningHasJob
  <2> QED BY <1>0, <2>1, JobFields, OrchestrationAssumption DEF Placed, Is, Job
<1>1. CASE Finish(r, "err") /\ UNCHANGED sites
  BY <1>0, <1>1, FinishEnds DEF AfterRegister
<1>2. CASE /\ o.save /\ sites' = o.next /\ Goto(r, "ensureStub")
           /\ Set(r, [loc[r] EXCEPT !.current = SiteOf(o.next, r), !.next = SiteOf(o.next, r)])
  <2>1. PICK n \in SiteRecords : /\ n.id = r /\ o.next = sites \cup {n}
                                  /\ ~Collides(sites, n.root, n.domain)
                                  /\ n.php = loc[r].runtime
    BY <1>2, <1>j, RegisterGives DEF RegistriesTyped
  <2>2. SiteOf(sites \cup {n}, r) = n
    BY <2>1 DEF SiteOf, HasSite
  <2> DEFINE x == [loc[r] EXCEPT !.current = n, !.next = n]
  <2>3. /\ x \in Locals /\ x.job = Job(r) /\ x.next = n /\ x.runtime = loc[r].runtime
        /\ x.current = n
    BY <1>0 DEF Locals, Job
  <2>m. loc' = [loc EXCEPT ![r] = x]
    BY <1>2, <2>1, <2>2 DEF Set
  <2> HIDE DEF x
  <2>4. Move(r, "ensureStub", x, "none")
    BY <1>2, <1>j, <2>3, <2>m, GotoMoves
  <2>5. Placed(r, "ensureStub", x, "none")
    BY <1>j, <2>1, <2>3 DEF Placed, Is, Labels, Results, AfterRegister
  <2>6. Effect(r, "ensureStub", x, "none")
    BY <1>0, <1>2, <2>1, <2>3 DEF Effect, Registers
  <2> QED BY <2>4, <2>5, <2>6 DEF Steps
<1> QED BY <1>1, <1>2 DEF RegisterSite

LEMMA StubEnsuredSteps ==
    ASSUME LocalsTyped, NEW r \in Callers, Placed(r, pc[r], loc[r], result[r]), StubEnsured(r)
    PROVE  Steps(r)
<1>0. pc[r] = "ensureStub" /\ Running(r) /\ loc[r] \in Locals /\ UNCHANGED sites
  BY DEF StubEnsured, At, Running, LocalsTyped
<1>j. Job(r) \in Jobs /\ result[r] = "none" /\ Is(r, "activate")
  <2>1. Job(r) \in Jobs /\ result[r] = "none"
    BY <1>0, RunningHasJob
  <2> QED BY <1>0, <2>1, JobFields DEF Placed, Is, Job
<1>1. CASE RollbackAfterWeb(r, loc[r]) /\ UNCHANGED loc
  BY <1>0, <1>j, <1>1, RollbackSteps DEF AfterRegister
<1> DEFINE x == [loc[r] EXCEPT !.committedResolver = TRUE]
<1>2. CASE Set(r, x) /\ Goto(r, "materialize")
  <2>1. /\ x \in Locals /\ x.job = Job(r) /\ x.next = loc[r].next /\ x.runtime = loc[r].runtime
        /\ x.current = loc[r].current
    BY <1>0 DEF Locals, Job
  <2> HIDE DEF x
  <2>2. Move(r, "materialize", x, "none")
    BY <1>2, <1>j, <2>1, GotoMoves DEF Set
  <2>3. Placed(r, "materialize", x, "none")
    BY <1>0, <1>j, <2>1 DEF Placed, Is, Job, Labels, Results, AfterRegister
  <2>4. Effect(r, "materialize", x, "none")
    BY <1>0, <2>1 DEF Effect, Passes, AfterRegister
  <2> QED BY <2>2, <2>3, <2>4 DEF Steps
<1> QED BY <1>1, <1>2 DEF StubEnsured

LEMMA UndoSteps ==
    ASSUME LocalsTyped, NEW r \in Callers, Placed(r, pc[r], loc[r], result[r]),
           UndoList(r) \/ StubRemoved(r) \/ UndoRecord(r)
    PROVE  Steps(r)
<1>0. pc[r] \in {"undoList", "undoStub", "undoRecord"} /\ Running(r) /\ loc[r] \in Locals
  BY DEF UndoList, StubRemoved, UndoRecord, At, Running, LocalsTyped
<1>j. Job(r) \in Jobs /\ result[r] = "none" /\ Is(r, "activate")
  <2>1. Job(r) \in Jobs /\ result[r] = "none"
    BY <1>0, RunningHasJob
  <2> QED BY <1>0, <2>1, JobFields DEF Placed, Is, Job
<1>1. CASE UndoList(r) \/ StubRemoved(r)
  <2>1. PICK l \in {"undoStub", "undoRecord"} : Goto(r, l) /\ UNCHANGED <<loc, sites>>
    BY <1>1 DEF UndoList, StubRemoved
  <2>2. Placed(r, l, loc[r], "none")
    BY <1>0, <1>j, <2>1 DEF Placed, Is, Job, Labels, AfterRegister, Results
  <2> QED BY <1>0, <2>1, <2>2, GotoSteps DEF AfterRegister
<1>2. CASE UndoRecord(r)
  <2> DEFINE x == [NoLocals EXCEPT !.job = Job(r)]
  <2>1. pc[r] = "undoRecord" /\ Finish(r, "err")
    BY <1>2 DEF UndoRecord, At
  <2>2. Move(r, "done", x, "err") /\ Placed(r, "done", x, "err")
    BY <1>j, <2>1, FinishMoves
  <2>3. \/ sites' = Delete(sites, r).next
        \/ UNCHANGED sites /\ (r \in cancelled \/ "undo" \in FaultKinds)
    BY <1>2 DEF UndoRecord, StoreFails, Fails
  <2>4. Effect(r, "done", x, "err")
    BY <2>1, <2>3 DEF Effect, Deletes
  <2> QED BY <2>2, <2>4 DEF Steps
<1> QED BY <1>1, <1>2

LEMMA SiteOfIsIn ==
    ASSUME NEW S, NEW i, HasSite(S, i)
    PROVE  SiteOf(S, i) \in S /\ SiteOf(S, i).id = i
BY DEF HasSite, SiteOf

LEMMA GetSteps ==
    ASSUME RegistriesTyped, LocalsTyped, NEW r \in Callers,
           Placed(r, pc[r], loc[r], result[r]), GetSite(r)
    PROVE  Steps(r)
<1> DEFINE n == SiteOf(sites, Job(r).id)
           x == [loc[r] EXCEPT !.current = n]
<1>0. pc[r] = "get" /\ UNCHANGED sites /\ Running(r) /\ loc[r] \in Locals
  BY DEF GetSite, At, Running, LocalsTyped
<1>j. Job(r) \in Jobs /\ result[r] = "none" /\ Job(r).op \in {"update", "switch"}
  <2>1. Job(r) \in Jobs /\ result[r] = "none"
    BY <1>0, RunningHasJob
  <2> QED BY <1>0, <2>1, JobFields DEF Placed, Job, AfterRegister
<1>1. CASE Finish(r, "err")
  BY <1>0, <1>j, <1>1, FinishEnds DEF Is
<1>2. CASE HasSite(sites, Job(r).id) /\ Set(r, x) /\ Goto(r, "prepare")
  <2>1. n \in sites /\ n \in SiteRecords
    BY <1>2, SiteOfIsIn DEF RegistriesTyped
  <2>2. /\ x \in Locals /\ x.job = Job(r) /\ x.next = loc[r].next /\ x.current = n
    BY <1>0, <2>1 DEF Locals, Job
  <2> HIDE DEF x, n
  <2>3. Move(r, "prepare", x, "none")
    BY <1>2, <1>j, <2>2, GotoMoves DEF Set
  <2>4. Placed(r, "prepare", x, "none")
    BY <1>0, <1>j, <2>1, <2>2 DEF Placed, Job, Labels, Results, AfterRegister
  <2>5. Effect(r, "prepare", x, "none")
    BY <1>0, <1>j, <2>1, <2>2 DEF Effect, Passes, Is
  <2> QED BY <2>3, <2>4, <2>5 DEF Steps
<1> QED BY <1>1, <1>2 DEF GetSite

LEMMA UpdatedIsSite ==
    ASSUME NEW r \in Callers, Job(r) \in Jobs, Job(r).op \in {"update", "switch"},
           loc[r].current \in SiteRecords
    PROVE  /\ updatedSite(r) \in SiteRecords
           /\ updatedSite(r).id = loc[r].current.id
           /\ Is(r, "switch") => /\ updatedSite(r).root = loc[r].current.root
                                 /\ updatedSite(r).domain = loc[r].current.domain
<1> DEFINE s == loc[r].current
           j == Job(r)
<1>1. CASE j.op = "switch"
  <2>1. updatedSite(r) = [s EXCEPT !.php = j.php] /\ j.php \in SupportedVersions
    BY <1>1, JobFields DEF updatedSite
  <2> QED BY <2>1 DEF SiteRecords
<1>2. CASE j.op = "update"
  <2>1. updatedSite(r) = [id |-> s.id, root |-> Given(j.root, s.root),
                          domain |-> Given(j.domain, s.domain), php |-> Given(j.php, s.php)]
    BY <1>2 DEF updatedSite
  <2>2. Given(j.root, s.root) \in Roots /\ Given(j.domain, s.domain) \in Domains
        /\ Given(j.php, s.php) \in SupportedVersions /\ s.id \in SiteIds
    BY <1>2, JobFields DEF Given, SiteRecords
  <2> QED BY <1>2, <2>1, <2>2 DEF SiteRecords, Is
<1> QED BY <1>1, <1>2

LEMMA PrepareSteps ==
    ASSUME LocalsTyped, NEW r \in Callers, Placed(r, pc[r], loc[r], result[r]), Prepare(r)
    PROVE  Steps(r)
<1> DEFINE n == updatedSite(r)
           x == [loc[r] EXCEPT !.next = n, !.runtime = n.php]
<1>0. pc[r] = "prepare" /\ UNCHANGED sites /\ Running(r) /\ loc[r] \in Locals
  BY DEF Prepare, At, Running, LocalsTyped
<1>j. /\ Job(r) \in Jobs /\ result[r] = "none" /\ Job(r).op \in {"update", "switch"}
      /\ loc[r].current \in SiteRecords
  <2>1. Job(r) \in Jobs /\ result[r] = "none"
    BY <1>0, RunningHasJob
  <2> QED BY <1>0, <2>1, JobFields DEF Placed, Job, AfterRegister
<1>1. CASE Finish(r, "err") \/ Finish(r, "ok")
  BY <1>0, <1>j, <1>1, FinishEnds DEF Is
<1>2. CASE /\ ~Refused(r) /\ Set(r, x)
           /\ \E l \in {"switchRuntime", "persist", "start"} : Goto(r, l)
  <2>1. n \in SiteRecords /\ n.php \in SupportedVersions /\ n.id = loc[r].current.id
    BY <1>j, UpdatedIsSite DEF SiteRecords
  <2>2. /\ x \in Locals /\ x.job = Job(r) /\ x.next = n /\ x.current = loc[r].current
        /\ x.runtime = n.php
    BY <1>0, <2>1 DEF Locals, Job
  <2>3. PICK l \in {"switchRuntime", "persist", "start"} : Goto(r, l)
    BY <1>2
  <2> HIDE DEF x
  <2>4. Move(r, l, x, "none")
    BY <1>2, <1>j, <2>2, <2>3, GotoMoves DEF Set
  <2>5. Placed(r, l, x, "none")
    BY <1>j, <2>1, <2>2 DEF Placed, Labels, Results, AfterRegister
  <2>6. Effect(r, l, x, "none")
    BY <1>0, <1>2, <1>j, <2>2 DEF Effect, Passes, Is
  <2> QED BY <2>4, <2>5, <2>6 DEF Steps
<1>3. \/ Finish(r, "err") \/ Finish(r, "ok")
      \/ /\ ~Refused(r) /\ Set(r, x)
         /\ \E l \in {"switchRuntime", "persist", "start"} : Goto(r, l)
  BY DEF Prepare
<1> QED BY <1>1, <1>2, <1>3

\* The steps that activations, updates and switches share.
SharedOps == {"activate", "update", "switch"}

LEMMA SharedJob ==
    ASSUME LocalsTyped, NEW r \in Callers, Placed(r, pc[r], loc[r], result[r]),
           pc[r] \in {"start", "web", "persist", "undoWeb"}
    PROVE  /\ Running(r) /\ Job(r) \in Jobs /\ result[r] = "none" /\ loc[r] \in Locals
           /\ Job(r).op \in SharedOps /\ loc[r].next \in SiteRecords
           /\ pc[r] \in AfterRegister
<1>1. Running(r) /\ loc[r] \in Locals
  BY DEF Running, LocalsTyped
<1>2. Job(r) \in Jobs /\ result[r] = "none"
  BY <1>1, RunningHasJob
<1> QED BY <1>1, <1>2, JobFields DEF Placed, Job, SharedOps, AfterRegister

LEMMA AbortSteps ==
    ASSUME LocalsTyped, NEW r \in Callers, Placed(r, pc[r], loc[r], result[r]),
           pc[r] \in {"start", "web"}, Abort(r), UNCHANGED sites
    PROVE  Steps(r)
<1>0. /\ Running(r) /\ Job(r) \in Jobs /\ Job(r).op \in SharedOps
      /\ pc[r] \in AfterRegister
  BY SharedJob
<1>1. CASE Is(r, "activate")
  BY <1>0, <1>1, RollbackSteps DEF Abort
<1>2. CASE ~Is(r, "activate") /\ SwitchBack(r)
  <2>1. Goto(r, "switchBack") /\ UNCHANGED <<loc, sites>>
    BY <1>2 DEF SwitchBack
  <2>2. Placed(r, "switchBack", loc[r], "none")
    BY <1>0, <1>2 DEF Placed, Is, Job, SharedOps, Labels, Results, AfterRegister
  <2> QED BY <1>0, <1>2, <2>1, <2>2, GotoSteps
<1>3. CASE ~Is(r, "activate") /\ Finish(r, "err")
  BY <1>0, <1>3, FinishEnds
<1> QED BY <1>1, <1>2, <1>3 DEF Abort

LEMMA StartSteps ==
    ASSUME LocalsTyped, NEW r \in Callers, Placed(r, pc[r], loc[r], result[r]), StartServices(r)
    PROVE  Steps(r)
<1>0. pc[r] = "start" /\ UNCHANGED sites
  BY DEF StartServices, At
<1>j. /\ Running(r) /\ Job(r) \in Jobs /\ Job(r).op \in SharedOps
  BY <1>0, SharedJob
<1>1. CASE Abort(r)
  BY <1>0, <1>1, AbortSteps
<1>2. CASE Goto(r, "web") /\ UNCHANGED loc
  <2>1. Placed(r, "web", loc[r], "none")
    BY <1>0, <1>j DEF Placed, Job, SharedOps, Labels, Results, AfterRegister
  <2> QED BY <1>0, <1>j, <1>2, <2>1, GotoSteps DEF AfterRegister
<1> QED BY <1>1, <1>2 DEF StartServices

LEMMA WebSteps ==
    ASSUME LocalsTyped, NEW r \in Callers, Placed(r, pc[r], loc[r], result[r]), WebActivated(r)
    PROVE  Steps(r)
<1> DEFINE x == [loc[r] EXCEPT !.committedWeb = TRUE]
<1>0. pc[r] = "web" /\ UNCHANGED sites
  BY DEF WebActivated, At
<1>j. /\ Running(r) /\ Job(r) \in Jobs /\ Job(r).op \in SharedOps /\ result[r] = "none"
      /\ loc[r] \in Locals
  BY <1>0, SharedJob
<1>1. CASE Abort(r)
  BY <1>0, <1>1, AbortSteps
<1>2. CASE Set(r, x) /\ Goto(r, "persist")
  <2>1. /\ x \in Locals /\ x.job = Job(r) /\ x.next = loc[r].next /\ x.runtime = loc[r].runtime
        /\ x.current = loc[r].current /\ x.committedWeb
    BY <1>j DEF Locals, Job
  <2> HIDE DEF x
  <2>2. Move(r, "persist", x, "none")
    BY <1>2, <1>j, <2>1, GotoMoves DEF Set
  <2>3. Placed(r, "persist", x, "none")
    BY <1>0, <1>j, <2>1 DEF Placed, Job, SharedOps, Labels, Results, AfterRegister
  <2>4. Effect(r, "persist", x, "none")
    BY <1>0, <2>1 DEF Effect, Passes, AfterRegister
  <2> QED BY <2>2, <2>3, <2>4 DEF Steps
<1> QED BY <1>1, <1>2 DEF WebActivated

LEMMA PersistSteps ==
    ASSUME LocalsTyped, NEW r \in Callers, Placed(r, pc[r], loc[r], result[r]), Persist(r)
    PROVE  Steps(r)
<1> DEFINE o == Update(sites, loc[r].next)
           x == [NoLocals EXCEPT !.job = Job(r)]
<1>0. pc[r] = "persist"
  BY DEF Persist, At
<1>j. /\ Running(r) /\ Job(r) \in Jobs /\ Job(r).op \in SharedOps /\ result[r] = "none"
  BY <1>0, SharedJob
<1>1. CASE o.save /\ sites' = o.next /\ Finish(r, "ok")
  <2>1. HasSite(sites, loc[r].next.id)
    BY <1>1 DEF Update, Outcome
  <2>2. Move(r, "done", x, "ok") /\ Placed(r, "done", x, "ok")
    BY <1>1, <1>j, FinishMoves
  <2>3. Effect(r, "done", x, "ok")
    BY <1>0, <1>1, <2>1 DEF Effect, Stores
  <2> QED BY <2>2, <2>3 DEF Steps
<1>2. CASE UNCHANGED sites /\ ~loc[r].committedWeb /\ Finish(r, "err")
  <2>1. ~Is(r, "activate")
    BY <1>0, <1>2 DEF Placed, Is, Job
  <2> QED BY <1>j, <1>2, <2>1, FinishEnds
<1>3. CASE UNCHANGED sites /\ Goto(r, "undoWeb") /\ UNCHANGED loc
  <2>1. Placed(r, "undoWeb", loc[r], "none")
    BY <1>0, <1>j DEF Placed, Job, SharedOps, Labels, Results, AfterRegister
  <2> QED BY <1>0, <1>j, <1>3, <2>1, GotoSteps DEF AfterRegister
<1> QED BY <1>1, <1>2, <1>3 DEF Persist

LEMMA WebUndoneSteps ==
    ASSUME LocalsTyped, NEW r \in Callers, Placed(r, pc[r], loc[r], result[r]), WebUndone(r)
    PROVE  Steps(r)
<1>0. pc[r] = "undoWeb" /\ UNCHANGED sites
  BY DEF WebUndone, At
<1>j. /\ Running(r) /\ Job(r) \in Jobs /\ Job(r).op \in SharedOps
      /\ pc[r] \in AfterRegister
  BY <1>0, SharedJob
<1>1. CASE Is(r, "activate") /\ RollbackAfterWeb(r, loc[r]) /\ UNCHANGED loc
  BY <1>0, <1>j, <1>1, RollbackSteps
<1>2. CASE /\ ~Is(r, "activate") /\ UNCHANGED loc
           /\ \E l \in {"restartPrevious", "switchBack"} : Goto(r, l)
  <2>1. PICK l \in {"restartPrevious", "switchBack"} : Goto(r, l)
    BY <1>2
  <2>2. Placed(r, l, loc[r], "none")
    BY <1>0, <1>j, <1>2 DEF Placed, Is, Job, SharedOps, Labels, Results, AfterRegister
  <2> QED BY <1>0, <1>j, <1>2, <2>1, <2>2, GotoSteps
<1>3. CASE ~Is(r, "activate") /\ Finish(r, "err")
  BY <1>0, <1>j, <1>3, FinishEnds
<1> QED BY <1>1, <1>2, <1>3 DEF WebUndone, SwitchBack, Is

LEMMA RuntimeSteps ==
    ASSUME LocalsTyped, NEW r \in Callers, Placed(r, pc[r], loc[r], result[r]), RuntimeReady(r)
    PROVE  Steps(r)
<1>0. /\ pc[r] \in {"materialize", "switchRuntime"} /\ UNCHANGED sites /\ Running(r)
  BY DEF RuntimeReady, Running
<1>j. /\ Job(r) \in Jobs /\ result[r] = "none"
      /\ Is(r, "activate") => pc[r] \in AfterRegister
  <2>1. Job(r) \in Jobs /\ result[r] = "none"
    BY <1>0, RunningHasJob
  <2> QED BY <1>0, <2>1 DEF Placed, Is, Job, AfterRegister
<1>1. CASE Is(r, "switch") /\ Goto(r, "web") /\ UNCHANGED loc
  <2>1. Placed(r, "web", loc[r], "none")
    BY <1>0, <1>j, <1>1 DEF Placed, Is, Job, Labels, Results, AfterRegister
  <2> QED BY <1>0, <1>1, <2>1, GotoSteps DEF Is
<1>2. CASE /\ Job(r).op \in {"activate", "update"} /\ Goto(r, "start") /\ UNCHANGED loc
  <2>1. Placed(r, "start", loc[r], "none")
    BY <1>0, <1>j, <1>2 DEF Placed, Is, Job, Labels, Results, AfterRegister
  <2> QED BY <1>0, <1>j, <1>2, <2>1, GotoSteps DEF AfterRegister
<1>3. CASE Is(r, "onboard") /\ Goto(r, "status") /\ UNCHANGED loc
  <2>1. Placed(r, "status", loc[r], "none")
    BY <1>0, <1>j, <1>3 DEF Placed, Is, Job, Labels, Results, AfterRegister
  <2> QED BY <1>0, <1>3, <2>1, GotoSteps DEF Is
<1>4. CASE ~Is(r, "activate") /\ (Finish(r, "ok") \/ Finish(r, "err"))
  BY <1>0, <1>4, FinishEnds
<1>5. CASE Is(r, "activate") /\ RollbackAfterWeb(r, loc[r]) /\ UNCHANGED loc
  BY <1>0, <1>j, <1>5, RollbackSteps
<1> QED BY <1>1, <1>2, <1>3, <1>4, <1>5 DEF RuntimeReady, Is

\* The steps of requests that are no activation and change no site.
LEMMA OtherSteps ==
    ASSUME LocalsTyped, NEW r \in Callers, Placed(r, pc[r], loc[r], result[r]),
           \/ SwitchedBack(r) \/ RestartPreviousService(r) \/ RefreshInventory(r)
           \/ RegisterPHP(r) \/ ServiceStatus(r) \/ SetDefaultVersion(r)
    PROVE  Steps(r)
<1>0. /\ pc[r] \in {"switchBack", "restartPrevious", "inventory", "registerRuntime",
                     "status", "setDefault"}
      /\ UNCHANGED sites /\ Running(r)
  BY DEF SwitchedBack, RestartPreviousService, RefreshInventory, RegisterPHP, ServiceStatus,
         SetDefaultVersion, At, Running
<1>j. Job(r) \in Jobs /\ result[r] = "none" /\ ~Is(r, "activate")
  <2>1. Job(r) \in Jobs /\ result[r] = "none"
    BY <1>0, RunningHasJob
  <2> QED BY <1>0, <2>1 DEF Placed, Is, Job, AfterRegister
<1>1. CASE Finish(r, "ok") \/ Finish(r, "err")
  BY <1>0, <1>j, <1>1, FinishEnds
<1>2. CASE pc[r] = "inventory" /\ Goto(r, "registerRuntime") /\ UNCHANGED loc
  <2>1. Placed(r, "registerRuntime", loc[r], "none")
    BY <1>j, <1>2, JobFields DEF Placed, Is, Job, Labels, Results, AfterRegister
  <2> QED BY <1>0, <1>j, <1>2, <2>1, GotoSteps
<1>3. CASE pc[r] = "registerRuntime" /\ Goto(r, "materialize") /\ UNCHANGED loc
  <2>1. Placed(r, "materialize", loc[r], "none")
    BY <1>j, <1>3, JobFields DEF Placed, Is, Job, Labels, Results, AfterRegister
  <2> QED BY <1>0, <1>j, <1>3, <2>1, GotoSteps
<1>4. \/ Finish(r, "ok") \/ Finish(r, "err")
      \/ pc[r] = "inventory" /\ Goto(r, "registerRuntime") /\ UNCHANGED loc
      \/ pc[r] = "registerRuntime" /\ Goto(r, "materialize") /\ UNCHANGED loc
  BY DEF SwitchedBack, RestartPreviousService, RefreshInventory, RegisterPHP, ServiceStatus,
         SetDefaultVersion, At
<1> QED BY <1>1, <1>2, <1>3, <1>4

LEMMA ServiceSteps ==
    ASSUME RegistriesTyped, LocalsTyped, NEW r \in Callers,
           Placed(r, pc[r], loc[r], result[r]), ServiceStep(r),
           pc[r] = "register" => ~HasSite(sites, r)
    PROVE  Steps(r)
<1>1. RegisterSite(r) => pc[r] = "register"
  BY DEF RegisterSite, At
<1> QED BY <1>1, ResolveSteps, RegisterSteps, StubEnsuredSteps, UndoSteps, GetSteps, PrepareSteps,
           RuntimeSteps, StartSteps, WebSteps, PersistSteps, WebUndoneSteps, OtherSteps
           DEF ServiceStep
-----------------------------------------------------------------------------
(* Steps of the system: every one is a step of a request, a death of the    *)
(* daemon, or leaves registry and requests alone.                           *)

LEMMA BeginSteps ==
    ASSUME LocalsTyped, NEW r \in Callers, Placed(r, pc[r], loc[r], result[r]),
           NEW j \in Jobs, Begin(r, j)
    PROVE  Steps(r)
<1> DEFINE x == [NoLocals EXCEPT !.job = j]
<1>0. pc[r] = "idle" /\ UNCHANGED sites /\ result[r] = "none" /\ ~Is(r, "activate")
  BY NoLocalsTyped DEF Begin, At, Placed, Is, Job
<1>1. x \in Locals /\ x.job = j /\ x.next = NoSite
  BY NoLocalsTyped DEF Locals
<1>2. PICK l : /\ Goto(r, l)
               /\ \/ j.op = "activate" /\ l = "resolve"
                  \/ j.op \in {"update", "switch"} /\ l = "get"
                  \/ j.op = "onboard" /\ l = "registerRuntime"
                  \/ j.op = "package" /\ l = "inventory"
                  \/ j.op = "default" /\ l = "setDefault"
  BY JobFields DEF Begin
<1>3. Move(r, l, x, "none")
  BY <1>0, <1>2, GotoMoves DEF Begin, Set
<1> HIDE DEF x
<1>4. Placed(r, l, x, "none")
  BY <1>1, <1>2 DEF Placed, Labels, Results, AfterRegister
<1>5. Effect(r, l, x, "none")
  BY <1>0, <1>1, <1>2 DEF Effect, Passes
<1> QED BY <1>3, <1>4, <1>5 DEF Steps

LEMMA StepRuns ==
    ASSUME NEW r \in Callers, ServiceStep(r)
    PROVE  Running(r)
BY DEF ServiceStep, Resolve, RegisterSite, StubEnsured, UndoList, StubRemoved, UndoRecord,
       GetSite, Prepare, RuntimeReady, StartServices, WebActivated, Persist, WebUndone,
       SwitchedBack, RestartPreviousService, RefreshInventory, RegisterPHP, ServiceStatus,
       SetDefaultVersion, At, Running

\* What a registered runtime and a default are.
LEMMA RuntimesTyped ==
    ASSUME RegistriesTyped, LocalsTyped, NEW r \in Callers,
           Placed(r, pc[r], loc[r], result[r]), ServiceStep(r)
    PROVE  runtimes' \in [runtimes : SUBSET RuntimeRecords,
                          default : SupportedVersions \cup {Unset}]
<1> DEFINE Typed(st) == st \in [runtimes : SUBSET RuntimeRecords,
                                default : SupportedVersions \cup {Unset}]
           j == Job(r)
<1>0. Typed(runtimes)
  BY DEF RegistriesTyped
<1>j. j \in Jobs
  BY StepRuns, RunningHasJob
<1>1. CASE UNCHANGED runtimes
  BY <1>0, <1>1
<1>2. CASE /\ pc[r] = "registerRuntime"
           /\ runtimes' = RegisterRuntime(runtimes, j.version, j.binary, j.service).next
           /\ RegisterRuntime(runtimes, j.version, j.binary, j.service).save
  <2>1. j.op \in {"onboard", "package"} /\ j.binary \in Binaries
        /\ j.service \in FPMServices \cup {Unset}
    BY <1>2, <1>j, JobFields DEF Placed, Job, AfterRegister
  <2> DEFINE v == detectRuntimeVersion(j.binary)
             record == [version |-> v, binary |-> j.binary,
                        service |-> IF j.service = Unset THEN PHPFPMServiceName[v]
                                    ELSE j.service]
  <2>2. Verified(j.version, j.binary)
    BY <1>2 DEF RegisterRuntime
  <2>3. v \in SupportedVersions
    BY <2>2 DEF Verified
  <2>4. record \in RuntimeRecords
    BY <2>1, <2>3, RuntimeAssumption DEF RuntimeRecords
  <2>5. runtimes' = [runtimes |-> {q \in runtimes.runtimes : q.version # v} \cup {record},
                     default |-> IF runtimes.default = Unset THEN v ELSE runtimes.default]
    BY <1>2, <2>2 DEF RegisterRuntime
  <2> QED BY <1>0, <2>3, <2>4, <2>5
<1>3. CASE /\ pc[r] = "setDefault"
           /\ runtimes' = SetDefault(runtimes, j.php).next
  <2>1. j.op = "default" /\ j.php \in SupportedVersions
    BY <1>3, <1>j, JobFields DEF Placed, Job, AfterRegister
  <2> QED BY <1>0, <1>3, <2>1 DEF SetDefault
<1>4. \/ UNCHANGED runtimes
      \/ /\ pc[r] = "registerRuntime"
         /\ runtimes' = RegisterRuntime(runtimes, j.version, j.binary, j.service).next
         /\ RegisterRuntime(runtimes, j.version, j.binary, j.service).save
      \/ /\ pc[r] = "setDefault"
         /\ runtimes' = SetDefault(runtimes, j.php).next
  BY DEF ServiceStep, Resolve, RegisterSite, StubEnsured, UndoList, StubRemoved, UndoRecord,
         GetSite, Prepare, RuntimeReady, StartServices, WebActivated, Persist, WebUndone,
         SwitchedBack, RestartPreviousService, RefreshInventory, RegisterPHP, ServiceStatus,
         SetDefaultVersion, At
<1> QED BY <1>1, <1>2, <1>3, <1>4

\* The daemon dies: running requests are dead, the registry stays.
Dies ==
    /\ pc' = [r \in Callers |-> IF Running(r) THEN "dead" ELSE pc[r]]
    /\ loc' = [r \in Callers |-> IF Running(r) THEN NoLocals ELSE loc[r]]
    /\ UNCHANGED <<sites, result>>

RequestStep(r) ==
    /\ Steps(r)
    /\ pc[r] \notin {"done", "dead"}
    /\ Serial /\ ~Running(r) => \A q \in Callers : ~Running(q)

\* A disconnected client stays disconnected, and only some clients disconnect.
CancelledGrows == cancelled \subseteq cancelled' /\ cancelled' \subseteq cancelled \cup Cancellable

Distinct(S) == \A s, t \in S : s.id = t.id => s = t

\* A record that has the name of a request is there because the request has
\* registered it: it is still being activated, has been answered, or died.
Owned(r) ==
    HasSite(sites, r) => \/ pc[r] = "dead"
                         \/ Is(r, "activate") /\ pc[r] \in AfterRegister \cup {"done"}

Kept(r) == result[r] = "ok" /\ Is(r, "activate") => HasSite(sites, r)

RegistryInv ==
    /\ RegistriesTyped /\ LocalsTyped /\ Places
    /\ Distinct(sites)
    /\ \A r \in Callers : Owned(r) /\ Kept(r)
    /\ cancelled \subseteq Cancellable

\* One request at a time holds no record that a site registered meanwhile
\* could collide with.
Fresh(r) ==
    /\ loc[r].next # NoSite =>
          ~Collides({t \in sites : t.id # loc[r].next.id}, loc[r].next.root, loc[r].next.domain)
    /\ pc[r] = "prepare" => loc[r].current \in sites

SerialInv ==
    /\ \A q, r \in Callers : Running(q) /\ Running(r) => q = r
    /\ \A r \in Callers : Fresh(r)
    /\ NamesAreUnique

\* A request whose client stayed and that was answered with an error.
Clean(r) == result[r] = "err" /\ r \notin cancelled => ~HasSite(sites, r)

-----------------------------------------------------------------------------
LEMMA CommandsGrow ==
    ASSUME NEW c,
           \/ UNCHANGED cancelled \/ CommandSucceeds(c) \/ CommandRefused(c)
           \/ \E kind : CommandBreaks(c, kind)
    PROVE  CancelledGrows
BY DEF CancelledGrows, CommandSucceeds, CommandRefused, CommandBreaks, Cancel

LEMMA ManagersGrow ==
    ASSUME NEW r \in Callers, ManagerStep(r)
    PROVE  CancelledGrows
<1>1. CASE Web!Step(r)
  BY <1>1, CommandsGrow DEF Web!Step, Web!ReadRoot, Web!ReadConfig, Web!WriteTemp, Web!Rename,
     Web!Remove, Web!Glob, Web!Validate, Web!Reload, Web!UndoReload,
     Web!CommandSucceeds, Web!CommandRefused, Web!CommandBreaks, Web!Cancel, Web!Works, Web!Fails,
     CommandSucceeds, CommandRefused, CommandBreaks, Cancel, Works, Fails
<1>2. CASE Dns!Step(r)
  BY <1>2, CommandsGrow DEF Dns!Step, Dns!Inspect, Dns!WriteTemp, Dns!Rename, Dns!Read,
     Dns!Remove, Dns!Reload, Dns!UndoReload, Dns!Confirm,
     Dns!CommandSucceeds, Dns!CommandRefused, Dns!CommandBreaks, Dns!Cancel, Dns!Works, Dns!Fails,
     CommandSucceeds, CommandRefused, CommandBreaks, Cancel, Works, Fails
<1>3. CASE Php!Step(r)
  BY <1>3, CommandsGrow DEF Php!Step, Php!ReadPool, Php!ReadOverride, Php!WriteTemp, Php!Rename,
     Php!Remove, Php!Check, Php!Restart, Php!UndoRestart, Php!RestartPrevious,
     Php!RestartSucceeds, Php!RestartFails, Php!TryRestart,
     Php!CommandSucceeds, Php!CommandRefused, Php!CommandBreaks, Php!Cancel, Php!Works, Php!Fails,
     CommandSucceeds, CommandRefused, CommandBreaks, Cancel, Works, Fails
<1> QED BY <1>1, <1>2, <1>3 DEF ManagerStep

LEMMA ServicesGrow ==
    ASSUME NEW r \in Callers, ServiceStep(r)
    PROVE  CancelledGrows
<1>1. \/ UNCHANGED cancelled \/ CommandSucceeds(r) \/ CommandRefused(r)
      \/ \E kind : CommandBreaks(r, kind)
  BY DEF ServiceStep, Resolve, RegisterSite, StubEnsured, UndoList, StubRemoved, UndoRecord,
         GetSite, Prepare, RuntimeReady, StartServices, WebActivated, Persist, WebUndone,
         SwitchedBack, RestartPreviousService, RefreshInventory, RegisterPHP, ServiceStatus,
         SetDefaultVersion, StoreWorks, StoreFails, Php!TryRestart, Php!RestartSucceeds,
         Php!RestartFails, Php!CommandSucceeds, Php!CommandRefused, Php!CommandBreaks,
         Php!Cancel, Php!Works, Php!Fails, CommandSucceeds, CommandRefused, CommandBreaks,
         Cancel, Works, Fails
<1> QED BY <1>1, CommandsGrow

LEMMA NextIs ==
    ASSUME RegistryInv, [Next]_vars
    PROVE  /\ \/ \E r \in Callers : RequestStep(r)
              \/ Dies
              \/ UNCHANGED <<sites, pc, loc, result>>
           /\ runtimes' \in [runtimes : SUBSET RuntimeRecords,
                             default : SupportedVersions \cup {Unset}]
           /\ CancelledGrows
<1> USE DEF RegistryInv
<1>1. CASE \E r \in Callers : \E j \in Jobs : Begin(r, j)
  <2>1. PICK r \in Callers, j \in Jobs : Begin(r, j)
    BY <1>1
  <2>2. Steps(r)
    BY <2>1, BeginSteps DEF Places
  <2>3. pc[r] = "idle" /\ (Serial => \A q \in Callers : ~Running(q))
    BY <2>1 DEF Begin, At
  <2> QED BY <2>1, <2>2, <2>3 DEF RequestStep, Begin, RegistriesTyped, CancelledGrows
<1>2. CASE \E r \in Callers : ServiceStep(r)
  <2>1. PICK r \in Callers : ServiceStep(r)
    BY <1>2
  <2>2. pc[r] = "register" => ~HasSite(sites, r)
    BY DEF Owned, AfterRegister
  <2>3. Steps(r)
    BY <2>1, <2>2, ServiceSteps DEF Places
  <2>4. Running(r)
    BY <2>1, StepRuns
  <2> QED BY <2>1, <2>3, <2>4, RuntimesTyped, ServicesGrow DEF RequestStep, Running, Places
<1>3. CASE \E r \in Callers : ManagerStep(r)
  BY <1>3, ManagersGrow DEF ManagerStep, app, RegistriesTyped
<1>4. CASE \E r \in Callers : Disconnect(r)
  BY <1>4 DEF Disconnect, Cancel, app, RegistriesTyped, CancelledGrows
<1>5. CASE Crash
  BY <1>5 DEF Crash, Dies, RegistriesTyped, CancelledGrows
<1>6. CASE UNCHANGED vars
  BY <1>6 DEF vars, app, RegistriesTyped, CancelledGrows
<1> QED BY <1>1, <1>2, <1>3, <1>4, <1>5, <1>6 DEF Next, Step

-----------------------------------------------------------------------------
(* The registry after a step.                                               *)

LEMMA DeleteLeaves ==
    ASSUME NEW S, Distinct(S), NEW i
    PROVE  Delete(S, i).next = {s \in S : s.id # i}
<1>1. CASE HasSite(S, i)
  <2>1. SiteOf(S, i) \in S /\ SiteOf(S, i).id = i
    BY <1>1, SiteOfIsIn
  <2>2. Delete(S, i).next = S \ {SiteOf(S, i)}
    BY <1>1 DEF Delete, Outcome
  <2> QED BY <2>1, <2>2 DEF Distinct
<1>2. CASE ~HasSite(S, i)
  BY <1>2 DEF Delete, Outcome, HasSite
<1> QED BY <1>1, <1>2

LEMMA UpdateLeaves ==
    ASSUME NEW S, Distinct(S), NEW n, HasSite(S, n.id)
    PROVE  Update(S, n).next = {s \in S : s.id # n.id} \cup {n}
<1>1. SiteOf(S, n.id) \in S /\ SiteOf(S, n.id).id = n.id
  BY SiteOfIsIn
<1>2. Update(S, n).next = (S \ {SiteOf(S, n.id)}) \cup {n}
  BY DEF Update, Outcome
<1> QED BY <1>1, <1>2 DEF Distinct

\* What a step of request r does to the records, by their identifiers.
LEMMA StepIds ==
    ASSUME RegistryInv, NEW r \in Callers, NEW l, NEW x, NEW res,
           Placed(r, l, x, res), Effect(r, l, x, res)
    PROVE  /\ sites' \in SUBSET SiteRecords /\ Distinct(sites')
           /\ \A i : i # r => (HasSite(sites', i) <=> HasSite(sites, i))
           /\ HasSite(sites', r) /\ ~HasSite(sites, r) => pc[r] = "register" /\ l = "ensureStub"
<1> USE DEF RegistryInv
<1>t. sites \in SUBSET SiteRecords /\ Placed(r, pc[r], loc[r], result[r]) /\ Distinct(sites)
  BY DEF RegistriesTyped, Places
<1>1. CASE Registers(r, l, x)
  <2>1. x.next \in SiteRecords /\ x.next.id = r /\ ~HasSite(sites, r)
    <3>1. x.job.op = "activate"
      BY <1>1, JobFields DEF Registers, Placed, AfterRegister, Locals, NoJob
    <3>2. ~HasSite(sites, r)
      BY <1>1 DEF Registers, Owned, AfterRegister
    <3> QED BY <1>1, <3>1, <3>2 DEF Registers, Placed, AfterRegister
  <2>2. sites' = sites \cup {x.next}
    BY <1>1 DEF Registers
  <2> QED BY <1>1, <1>t, <2>1, <2>2 DEF Registers, Distinct, HasSite
<1>2. CASE Deletes(r, l, res)
  <2>1. sites' = {s \in sites : s.id # r} \/ UNCHANGED sites
    BY <1>2, <1>t, DeleteLeaves DEF Deletes
  <2> QED BY <1>t, <2>1 DEF Distinct, HasSite
<1>3. CASE Stores(r, l, res)
  <2>1. loc[r].next \in SiteRecords
    BY <1>3, SharedJob DEF Stores, Places
  <2>2. sites' = {s \in sites : s.id # loc[r].next.id} \cup {loc[r].next}
    BY <1>3, <1>t, UpdateLeaves DEF Stores
  <2>3. HasSite(sites, loc[r].next.id)
    BY <1>3 DEF Stores
  <2> QED BY <1>t, <2>1, <2>2, <2>3 DEF Distinct, HasSite
<1>4. CASE Passes(r, l, x, res)
  BY <1>t, <1>4 DEF Passes
<1> QED BY <1>1, <1>2, <1>3, <1>4 DEF Effect

LEMMA MoveTyped ==
    ASSUME LocalsTyped, Places, NEW r \in Callers, NEW l, NEW x, NEW res,
           Move(r, l, x, res), Placed(r, l, x, res)
    PROVE  /\ LocalsTyped' /\ Places'
           /\ pc'[r] = l /\ loc'[r] = x /\ result'[r] = res
           /\ \A q \in Callers \ {r} : pc'[q] = pc[q] /\ loc'[q] = loc[q] /\ result'[q] = result[q]
<1>1. l \in Labels /\ x \in Locals /\ res \in Results
  BY DEF Placed
<1>2. LocalsTyped'
  BY <1>1 DEF Move, LocalsTyped
<1>3. /\ pc'[r] = l /\ loc'[r] = x /\ result'[r] = res
      /\ \A q \in Callers \ {r} : pc'[q] = pc[q] /\ loc'[q] = loc[q] /\ result'[q] = result[q]
  BY DEF Move, LocalsTyped
<1>4. \A q \in Callers : Placed(q, pc'[q], loc'[q], result'[q])
  <2> TAKE q \in Callers
  <2>1. CASE q = r
    BY <1>3, <2>1
  <2>2. CASE q # r
    <3>1. Placed(q, pc[q], loc[q], result[q])
      BY DEF Places
    <3> QED BY <1>3, <2>2, <3>1
  <2> QED BY <2>1, <2>2
<1> QED BY <1>2, <1>3, <1>4 DEF Places, Placed

LEMMA DiesTyped ==
    ASSUME LocalsTyped, Places, Dies
    PROVE  LocalsTyped' /\ Places'
<1>1. \A r \in Callers : Placed(r, pc'[r], loc'[r], result'[r])
  <2> TAKE r \in Callers
  <2>0. Placed(r, pc[r], loc[r], result[r])
    BY DEF Places
  <2>1. CASE Running(r)
    <3>1. pc'[r] = "dead" /\ loc'[r] = NoLocals /\ result'[r] = "none"
      BY <2>0, <2>1, RunningHasJob DEF Dies
    <3> QED BY <3>1, NoLocalsTyped DEF Placed, Labels, Results, AfterRegister
  <2>2. CASE ~Running(r)
    BY <2>0, <2>2 DEF Dies
  <2> QED BY <2>1, <2>2
<1>2. LocalsTyped'
  BY NoLocalsTyped DEF Dies, LocalsTyped, Labels
<1> QED BY <1>1, <1>2 DEF Places, Placed

\* Each record of a request comes from the request's own registration.
LEMMA OwnedKept ==
    ASSUME RegistryInv, NEW r \in Callers, RequestStep(r), NEW q \in Callers
    PROVE  Owned(q)' /\ Kept(q)'
<1> USE DEF RegistryInv
<1>1. PICK l, x, res : Move(r, l, x, res) /\ Placed(r, l, x, res) /\ Effect(r, l, x, res)
  BY DEF RequestStep, Steps
<1>2. /\ pc'[r] = l /\ loc'[r] = x /\ result'[r] = res
      /\ \A p \in Callers \ {r} : pc'[p] = pc[p] /\ loc'[p] = loc[p] /\ result'[p] = result[p]
  BY <1>1, MoveTyped
<1>3. /\ \A i : i # r => (HasSite(sites', i) <=> HasSite(sites, i))
      /\ HasSite(sites', r) /\ ~HasSite(sites, r) => pc[r] = "register" /\ l = "ensureStub"
  BY <1>1, StepIds
<1>4. CASE q # r
  BY <1>2, <1>3, <1>4 DEF Owned, Kept, Is, Job
<1>5. CASE q = r
  <2>0. Placed(r, pc[r], loc[r], result[r]) /\ pc[r] \notin {"done", "dead"}
    BY DEF Places, RequestStep
  <2>1. CASE Registers(r, l, x)
    <3>1. x.job.op = "activate" /\ l = "ensureStub" /\ res = "none"
      BY <1>1, <2>1, JobFields DEF Registers, Placed, AfterRegister, Locals, NoJob, Results
    <3> QED BY <1>2, <1>5, <3>1 DEF Owned, Kept, Is, Job, AfterRegister
  <2>2. CASE ~Registers(r, l, x)
    <3>0. pc[r] = "register" => Is(r, "activate")
      BY <2>0, RunningHasJob, JobFields DEF Running, Placed, AfterRegister, Is, Job
    <3>1. pc[r] # "register" \/ l # "ensureStub"
      BY <1>1, <2>2, <3>0 DEF Effect, Deletes, Stores, Passes, Placed, AfterRegister
    <3>2. Owned(q)'
      <4>1. HasSite(sites', r) => HasSite(sites, r)
        BY <1>3, <3>1
      <4>2. HasSite(sites, r) => Is(r, "activate") /\ pc[r] \in AfterRegister
        BY <2>0 DEF Owned
      <4>3. pc[r] \in AfterRegister /\ Is(r, "activate") => l \in AfterRegister \cup {"done"}
        BY <1>1, <2>2 DEF Effect, Deletes, Stores, Passes
      <4>4. pc[r] \in AfterRegister => x.job = Job(r)
        BY <1>1 DEF Move, AfterRegister
      <4> QED BY <1>2, <1>5, <4>1, <4>2, <4>3, <4>4 DEF Owned, Is, Job
    <3>3. Kept(q)'
      <4>1. CASE pc[r] = "idle"
        <5>1. Passes(r, l, x, res) /\ ~Running(r)
          BY <1>1, <2>2, <4>1 DEF Effect, Deletes, Stores, Running
        <5>2. res # "ok"
          BY <5>1 DEF Passes
        <5> QED BY <1>2, <1>5, <5>2 DEF Kept
      <4>2. CASE pc[r] # "idle" /\ Is(r, "activate") /\ res = "ok"
        <5>1. Stores(r, l, res)
          BY <1>1, <2>2, <4>2 DEF Effect, Deletes, Passes
        <5>2. loc[r].next \in SiteRecords /\ loc[r].next.id = r
          BY <2>0, <4>2, <5>1 DEF Stores, Placed, AfterRegister, Is, Job
        <5>3. sites' = {s \in sites : s.id # r} \cup {loc[r].next}
          BY <5>1, <5>2, UpdateLeaves DEF Stores
        <5>4. HasSite(sites', r)
          BY <5>2, <5>3 DEF HasSite
        <5> QED BY <1>5, <5>4 DEF Kept
      <4>3. CASE pc[r] # "idle" /\ ~(Is(r, "activate") /\ res = "ok")
        BY <1>1, <1>2, <1>5, <4>3 DEF Kept, Is, Job, Move
      <4> QED BY <4>1, <4>2, <4>3
    <3> QED BY <3>2, <3>3
  <2> QED BY <2>1, <2>2
<1> QED BY <1>4, <1>5

LEMMA RegistryInvKept ==
    ASSUME RegistryInv, [Next]_vars
    PROVE  RegistryInv'
<1> USE DEF RegistryInv
<1>r. runtimes' \in [runtimes : SUBSET RuntimeRecords, default : SupportedVersions \cup {Unset}]
  BY NextIs
<1>c. cancelled' \subseteq Cancellable
  BY NextIs DEF CancelledGrows
<1>1. CASE \E r \in Callers : RequestStep(r)
  <2>1. PICK r \in Callers : RequestStep(r)
    BY <1>1
  <2>2. PICK l, x, res : Move(r, l, x, res) /\ Placed(r, l, x, res) /\ Effect(r, l, x, res)
    BY <2>1 DEF RequestStep, Steps
  <2>3. LocalsTyped' /\ Places'
    BY <2>2, MoveTyped
  <2>4. sites' \in SUBSET SiteRecords /\ Distinct(sites')
    BY <2>2, StepIds
  <2>5. \A q \in Callers : Owned(q)' /\ Kept(q)'
    BY <2>1, OwnedKept
  <2> QED BY <1>r, <1>c, <2>3, <2>4, <2>5 DEF RegistriesTyped, Distinct
<1>2. CASE Dies
  <2>1. LocalsTyped' /\ Places'
    BY <1>2, DiesTyped
  <2>2. UNCHANGED sites
    BY <1>2 DEF Dies
  <2>3. \A q \in Callers : Owned(q)' /\ Kept(q)'
    <3> TAKE q \in Callers
    <3>1. Placed(q, pc[q], loc[q], result[q]) /\ Owned(q) /\ Kept(q)
      BY DEF Places
    <3>2. CASE Running(q)
      <4>1. pc'[q] = "dead" /\ result'[q] = "none"
        BY <1>2, <3>1, <3>2, RunningHasJob DEF Dies
      <4> QED BY <4>1 DEF Owned, Kept
    <3>3. CASE ~Running(q)
      <4>1. pc'[q] = pc[q] /\ loc'[q] = loc[q] /\ result'[q] = result[q]
        BY <1>2, <3>3 DEF Dies
      <4> QED BY <2>2, <3>1, <4>1 DEF Owned, Kept, Is, Job
    <3> QED BY <3>2, <3>3
  <2> QED BY <1>r, <1>c, <2>1, <2>2, <2>3 DEF RegistriesTyped, Distinct
<1>3. CASE UNCHANGED <<sites, pc, loc, result>>
  <2>1. RegistriesTyped' /\ LocalsTyped' /\ Distinct(sites')
    BY <1>r, <1>3 DEF RegistriesTyped, LocalsTyped
  <2>2. \A q \in Callers : Placed(q, pc'[q], loc'[q], result'[q])
    BY <1>3 DEF Places
  <2>3. \A q \in Callers : Owned(q)' /\ Kept(q)'
    BY <1>3 DEF Owned, Kept, Is, Job
  <2> QED BY <1>c, <2>1, <2>2, <2>3 DEF Places, Placed, Distinct
<1> QED BY <1>1, <1>2, <1>3, NextIs

LEMMA RegistryInvInit ==
    ASSUME Init
    PROVE  RegistryInv
<1>1. sites \in InitialSiteSets /\ runtimes = InitialRuntimes /\ cancelled = {}
  BY DEF Init, HostInit
<1>2. RegistriesTyped /\ Distinct(sites)
  BY <1>1, OrchestrationAssumption DEF RegistriesTyped, Distinct
<1>3. LocalsTyped
  BY NoLocalsTyped DEF Init, LocalsTyped, Labels, Results
<1>4. \A r \in Callers : pc[r] = "idle" /\ loc[r] = NoLocals /\ result[r] = "none"
  BY DEF Init
<1>5. \A r \in Callers : Placed(r, "idle", NoLocals, "none")
  BY NoLocalsTyped DEF Placed, Labels, Results, AfterRegister
<1>6. Places
  BY <1>4, <1>5 DEF Places
<1>7. \A r \in Callers : Owned(r) /\ Kept(r)
  <2>1. \A s \in sites : s.id \notin Callers
    BY <1>1, OrchestrationAssumption
  <2>2. \A r \in Callers : ~HasSite(sites, r)
    BY <2>1 DEF HasSite
  <2> QED BY <1>4, <2>2 DEF Owned, Kept
<1> QED BY <1>1, <1>2, <1>3, <1>6, <1>7 DEF RegistryInv

LEMMA RegistryAlways == Spec => []RegistryInv
<1>1. Init => RegistryInv
  BY RegistryInvInit
<1>2. RegistryInv /\ [Next]_vars => RegistryInv'
  BY RegistryInvKept
<1> QED BY <1>1, <1>2, PTL DEF Spec

-----------------------------------------------------------------------------
\* A site whose activation was answered with success stays registered,
\* whatever the other requests do and undo at the same time and also when the
\* daemon dies: the deferred Delete (orchestration.go:120) removes the record
\* of its own request only, and nobody else deletes.
THEOREM ActivatedSitesAlwaysStay == Spec => []ActivatedSitesStay
<1>1. RegistryInv => ActivatedSitesStay
  BY DEF RegistryInv, Kept, ActivatedSitesStay
<1> QED BY <1>1, RegistryAlways, PTL

\* A record enters the registry by the registration of its own request only:
\* no update, switch or rollback brings back a record that was deleted between
\* its Get and its sites.Update (site_registry.go:189-221), however many
\* requests overlap.
THEOREM DeletedSitesNeverReturn == Spec => DeletedSitesStayDeleted
<1> DEFINE New(i) == HasSite(sites', i) /\ ~HasSite(sites, i) => i \in Callers /\ pc[i] = "register"
<1>1. RegistryInv /\ [Next]_vars => [\A i \in SiteIds : New(i)]_sites
  <2> SUFFICES ASSUME RegistryInv, [Next]_vars
               PROVE  \A i \in SiteIds : New(i)
    OBVIOUS
  <2>1. CASE \E r \in Callers : RequestStep(r)
    <3>1. PICK r \in Callers : RequestStep(r)
      BY <2>1
    <3>2. PICK l, x, res : Placed(r, l, x, res) /\ Effect(r, l, x, res)
      BY <3>1 DEF RequestStep, Steps
    <3>3. /\ \A i : i # r => (HasSite(sites', i) <=> HasSite(sites, i))
          /\ HasSite(sites', r) /\ ~HasSite(sites, r) => pc[r] = "register"
      BY <3>2, StepIds
    <3> QED BY <3>3
  <2>2. CASE UNCHANGED sites
    BY <2>2
  <2> QED BY <2>1, <2>2, NextIs DEF Dies
<1> QED BY <1>1, RegistryAlways, PTL DEF Spec, DeletedSitesStayDeleted

-----------------------------------------------------------------------------
(* Activations that fail.                                                   *)

LEMMA CleanKept ==
    ASSUME "undo" \notin FaultKinds, RegistryInv, [Next]_vars, \A r \in Callers : Clean(r)
    PROVE  \A r \in Callers : Clean(r)'
<1> USE DEF RegistryInv
<1>c. cancelled \subseteq cancelled'
  BY NextIs DEF CancelledGrows
<1> SUFFICES ASSUME NEW q \in Callers, result'[q] = "err", q \notin cancelled'
             PROVE  ~HasSite(sites', q)
  BY DEF Clean
<1>0. q \notin cancelled /\ Clean(q)
  BY <1>c
<1>1. CASE \E r \in Callers : RequestStep(r)
  <2>1. PICK r \in Callers : RequestStep(r)
    BY <1>1
  <2>2. PICK l, x, res : Move(r, l, x, res) /\ Placed(r, l, x, res) /\ Effect(r, l, x, res)
    BY <2>1 DEF RequestStep, Steps
  <2>3. /\ result'[r] = res
        /\ \A p \in Callers \ {r} : result'[p] = result[p]
    BY <2>2, MoveTyped
  <2>4. /\ \A i : i # r => (HasSite(sites', i) <=> HasSite(sites, i))
        /\ HasSite(sites', r) /\ ~HasSite(sites, r) => l = "ensureStub"
    BY <2>2, StepIds
  <2>5. CASE q # r
    BY <1>0, <2>3, <2>4, <2>5 DEF Clean
  <2>6. CASE q = r
    <3>0. res = "err" /\ l = "done"
      BY <2>2, <2>3, <2>6 DEF Placed, Results
    <3>1. CASE Deletes(r, l, res)
      <4>1. sites' = Delete(sites, r).next
        BY <1>0, <2>6, <3>1 DEF Deletes
      <4>2. sites' = {s \in sites : s.id # r}
        BY <4>1, DeleteLeaves
      <4> QED BY <2>6, <4>2 DEF HasSite
    <3>2. CASE Passes(r, l, x, res)
      <4>1. Owned(r) /\ pc[r] \notin {"done", "dead"}
        BY <2>1 DEF RequestStep
      <4>2. ~HasSite(sites, r)
        BY <3>0, <3>2, <4>1 DEF Owned, Passes, AfterRegister
      <4> QED BY <2>4, <2>6, <3>0, <4>2
    <3> QED BY <2>2, <3>0, <3>1, <3>2 DEF Effect, Registers, Stores
  <2> QED BY <2>5, <2>6
<1>2. CASE UNCHANGED <<sites, result>>
  BY <1>0, <1>2 DEF Clean
<1> QED BY <1>1, <1>2, NextIs DEF Dies

\* When the registry can be written in a rollback, an activation that is
\* answered with an error leaves no record behind, unless its client had gone
\* away (the deferred Delete, orchestration.go:120, which runs under the
\* request's context): for any number of concurrent requests, any failures of
\* the other calls, and deaths of the daemon.
THEOREM FailedActivationsClean ==
    ASSUME "undo" \notin FaultKinds
    PROVE  Spec => [](\A r \in Callers : Clean(r))
<1>1. Init => \A r \in Callers : Clean(r)
  BY DEF Init, Clean
<1>2. RegistryInv /\ [Next]_vars /\ (\A r \in Callers : Clean(r)) => (\A r \in Callers : Clean(r))'
  BY CleanKept
<1> QED BY <1>1, <1>2, RegistryAlways, PTL DEF Spec

\* With no client that disconnects, no failed activation leaves a record.
THEOREM FailedActivationsAlwaysClean ==
    ASSUME "undo" \notin FaultKinds, Cancellable = {}
    PROVE  Spec => []FailedActivationsLeaveNoRecord
<1>1. RegistryInv /\ (\A r \in Callers : Clean(r)) => FailedActivationsLeaveNoRecord
  BY DEF RegistryInv, Clean, FailedActivationsLeaveNoRecord
<1> QED BY <1>1, RegistryAlways, FailedActivationsClean, PTL

-----------------------------------------------------------------------------
(* One request at a time.                                                   *)

LEMMA FewerCollide ==
    ASSUME NEW S, NEW T, S \subseteq T, NEW root, NEW domain, ~Collides(T, root, domain)
    PROVE  ~Collides(S, root, domain)
BY DEF Collides

\* A record that collides with nothing may join sites with unique names.
LEMMA NamesJoin ==
    ASSUME NEW S, NEW n, ~Collides(S, n.root, n.domain),
           \A s \in S : ~Collides(S \ {s}, s.root, s.domain)
    PROVE  \A s \in S \cup {n} : ~Collides((S \cup {n}) \ {s}, s.root, s.domain)
BY DEF Collides

LEMMA IdleHoldsNothing ==
    ASSUME NEW r \in Callers, Placed(r, pc[r], loc[r], result[r]), ~Running(r)
    PROVE  loc[r].next = NoSite /\ pc[r] # "prepare"
BY NoLocalsTyped DEF Placed, Running

\* The record an update has just computed has no name or domain of another.
LEMMA PreparedIsFresh ==
    ASSUME RegistryInv, SerialInv, NEW r \in Callers, pc[r] = "prepare", ~Refused(r)
    PROVE  LET n == updatedSite(r)
           IN  ~Collides({t \in sites : t.id # n.id}, n.root, n.domain)
<1> DEFINE n == updatedSite(r)
           s == loc[r].current
<1> USE DEF RegistryInv, SerialInv
<1>1. Placed(r, pc[r], loc[r], result[r]) /\ s \in sites /\ s \in SiteRecords
  BY DEF Places, Fresh, RegistriesTyped
<1>2. Job(r) \in Jobs /\ Job(r).op \in {"update", "switch"}
  <2>1. Job(r) \in Jobs
    BY <1>1, RunningHasJob DEF Running
  <2> QED BY <1>1, <2>1, JobFields DEF Placed, Job, AfterRegister
<1>3. CASE Is(r, "update")
  BY <1>3 DEF Refused
<1>4. CASE Is(r, "switch")
  <2>1. n.id = s.id /\ n.root = s.root /\ n.domain = s.domain
    BY <1>1, <1>2, <1>4, UpdatedIsSite
  <2>2. ~Collides(sites \ {s}, s.root, s.domain)
    BY <1>1 DEF NamesAreUnique
  <2>3. {t \in sites : t.id # n.id} \subseteq sites \ {s}
    BY <2>1
  <2> QED BY <2>1, <2>2, <2>3, FewerCollide
<1> QED BY <1>2, <1>3, <1>4 DEF Is

LEMMA SerialKept ==
    ASSUME Serial, RegistryInv, SerialInv, [Next]_vars
    PROVE  SerialInv'
<1> USE DEF RegistryInv, SerialInv
<1>d. Distinct(sites)
  OBVIOUS
<1>1. CASE \E r \in Callers : RequestStep(r)
  <2>1. PICK r \in Callers : RequestStep(r)
    BY <1>1
  <2>2. PICK l, x, res : Move(r, l, x, res) /\ Placed(r, l, x, res) /\ Effect(r, l, x, res)
    BY <2>1 DEF RequestStep, Steps
  <2>3. /\ pc'[r] = l /\ loc'[r] = x /\ result'[r] = res
        /\ \A p \in Callers \ {r} : pc'[p] = pc[p] /\ loc'[p] = loc[p]
    BY <2>2, MoveTyped
  <2>4. \A q \in Callers \ {r} : ~Running(q)
    BY <2>1 DEF RequestStep
  <2>5. \A p, q \in Callers : Running(p)' /\ Running(q)' => p = q
    BY <2>3, <2>4 DEF Running
  <2>6. \A q \in Callers \ {r} : Fresh(q)'
    <3> TAKE q \in Callers \ {r}
    <3>1. loc[q].next = NoSite /\ pc[q] # "prepare"
      BY <2>4, IdleHoldsNothing DEF Places
    <3> QED BY <2>3, <3>1 DEF Fresh
  <2>7. Fresh(r)' /\ NamesAreUnique'
    <3>1. CASE Registers(r, l, x)
      <4>1. sites' = sites \cup {x.next} /\ ~Collides(sites, x.next.root, x.next.domain)
            /\ l # "prepare"
        BY <3>1 DEF Registers
      <4>2. NamesAreUnique'
        BY <4>1, NamesJoin DEF NamesAreUnique
      <4>3. {t \in sites' : t.id # x.next.id} \subseteq sites
        BY <4>1
      <4>4. ~Collides({t \in sites' : t.id # x.next.id}, x.next.root, x.next.domain)
        BY <4>1, <4>3, FewerCollide
      <4> QED BY <2>3, <4>1, <4>2, <4>4 DEF Fresh
    <3>2. CASE Deletes(r, l, res) \/ Stores(r, l, res)
      <4>1. l = "done" /\ x.next = NoSite
        BY <2>2, <3>2 DEF Deletes, Stores, Placed
      <4>2. Fresh(r)'
        BY <2>3, <4>1 DEF Fresh
      <4>3. CASE Deletes(r, l, res)
        <5>1. sites' = {s \in sites : s.id # r} \/ sites' = sites
          BY <1>d, <4>3, DeleteLeaves DEF Deletes
        <5>2. sites' \subseteq sites
          BY <5>1
        <5>3. \A s \in sites' : sites' \ {s} \subseteq sites \ {s} /\ s \in sites
          BY <5>2
        <5>4. \A s \in sites' : ~Collides(sites' \ {s}, s.root, s.domain)
          BY <5>3, FewerCollide DEF NamesAreUnique
        <5> QED BY <4>2, <5>4 DEF NamesAreUnique
      <4>4. CASE Stores(r, l, res)
        <5> DEFINE n == loc[r].next
                   T == {s \in sites : s.id # n.id}
        <5>1. sites' = T \cup {n}
          BY <1>d, <4>4, UpdateLeaves DEF Stores
        <5>2. n \in SiteRecords
          BY <4>4, SharedJob DEF Stores, Places
        <5>3. ~Collides(T, n.root, n.domain)
          BY <5>2, OrchestrationAssumption DEF Fresh
        <5>4. \A s \in T : T \ {s} \subseteq sites \ {s} /\ s \in sites
          OBVIOUS
        <5>5. \A s \in T : ~Collides(T \ {s}, s.root, s.domain)
          BY <5>4, FewerCollide DEF NamesAreUnique
        <5>6. \A s \in T \cup {n} : ~Collides((T \cup {n}) \ {s}, s.root, s.domain)
          <6> HIDE DEF T, n
          <6> QED BY <5>3, <5>5, NamesJoin
        <5> QED BY <4>2, <5>1, <5>6 DEF NamesAreUnique
      <4> QED BY <3>2, <4>3, <4>4
    <3>3. CASE Passes(r, l, x, res)
      <4>1. sites' = sites /\ NamesAreUnique'
        BY <3>3 DEF Passes, NamesAreUnique
      <4>2. x.next # NoSite =>
               ~Collides({t \in sites : t.id # x.next.id}, x.next.root, x.next.domain)
        <5>1. CASE x.next = loc[r].next \/ x.next = NoSite
          BY <5>1 DEF Fresh
        <5>2. CASE pc[r] = "prepare" /\ ~Refused(r) /\ x.next = updatedSite(r)
          BY <5>2, PreparedIsFresh
        <5> QED BY <3>3, <5>1, <5>2 DEF Passes
      <4>3. l = "prepare" => x.current \in sites
        BY <3>3 DEF Passes
      <4> QED BY <2>3, <4>1, <4>2, <4>3 DEF Fresh
    <3> QED BY <2>2, <3>1, <3>2, <3>3 DEF Effect
  <2> QED BY <2>5, <2>6, <2>7
<1>2. CASE Dies
  <2>1. \A r \in Callers : ~Running(r)'
    BY <1>2 DEF Dies, Running
  <2>2. Places'
    BY <1>2, DiesTyped
  <2>3. \A r \in Callers : loc'[r].next = NoSite /\ pc'[r] # "prepare"
    <3> TAKE r \in Callers
    <3>1. CASE Running(r)
      BY <1>2, <3>1, NoLocalsTyped DEF Dies
    <3>2. CASE ~Running(r)
      <4>1. Placed(r, pc[r], loc[r], result[r])
        BY DEF Places
      <4> QED BY <1>2, <3>2, <4>1, IdleHoldsNothing DEF Dies
    <3> QED BY <3>1, <3>2
  <2> QED BY <1>2, <2>1, <2>3 DEF Dies, Fresh, NamesAreUnique
<1>3. CASE UNCHANGED <<sites, pc, loc, result>>
  BY <1>3 DEF Running, Fresh, NamesAreUnique
<1> QED BY <1>1, <1>2, <1>3, NextIs

LEMMA SerialAlways ==
    ASSUME Serial
    PROVE  Spec => []SerialInv
<1>1. Init => SerialInv
  <2> SUFFICES ASSUME Init PROVE SerialInv
    OBVIOUS
  <2>1. \A r \in Callers : pc[r] = "idle" /\ loc[r] = NoLocals
    BY DEF Init
  <2>2. sites \in InitialSiteSets
    BY DEF Init
  <2>3. NamesAreUnique
    BY <2>2, OrchestrationAssumption DEF NamesAreUnique
  <2> QED BY <2>1, <2>3, NoLocalsTyped DEF SerialInv, Running, Fresh
<1>2. RegistryInv /\ SerialInv /\ [Next]_vars => SerialInv'
  BY SerialKept
<1> QED BY <1>1, <1>2, RegistryAlways, PTL DEF Spec

\* When requests are served one after the other, no two sites ever have one
\* name or one domain, whichever steps of a request fail, whoever disconnects
\* and whenever the daemon dies: the check of Register and the one of
\* prepareUpdatedSite (site_management.go) still hold when the record is
\* stored.  Overlapping updates break this, which is why Serial is assumed.
THEOREM NamesAlwaysUnique ==
    ASSUME Serial
    PROVE  Spec => []NamesAreUnique
<1>1. SerialInv => NamesAreUnique
  BY DEF SerialInv
<1> QED BY <1>1, SerialAlways, PTL

-----------------------------------------------------------------------------
(* The lemmas of Caddy_proofs are about the manager's steps in any order    *)
(* and are used here for its instance.  What a call found at its start, its *)
(* history variable there, is known here from where the request is.         *)

\* The records that no request is registering, and those with the one that
\* request r is about to store.
Activating(i) == i \in Callers /\ Running(i) /\ Is(i, "activate")
Settled == {s \in sites : ~Activating(s.id)}
Done(r) == {s \in Settled : s.id # loc[r].next.id} \cup {loc[r].next}

\* A call of the Caddy manager turns the files of one set of sites into those
\* of another: it adds the record r is about to store, or takes it back.
AtWeb(r) == pc[r] \in {"web", "undoWeb"}
WebFrom(r) == IF pc[r] = "web" THEN Settled ELSE Done(r)
WebTo(r) == IF pc[r] = "web" THEN Done(r) ELSE Settled

WebCaller == CHOOSE r \in Callers : AtWeb(r)
WebBefore == [files |-> FilesOf(WebFrom(WebCaller)), inSync |-> TRUE, by |-> WebCaller]

WebP == INSTANCE Caddy_proofs WITH Configs <- WebConfigs, InitialFiles <- {FilesOf({})},
    files <- caddyFiles, temp <- caddyTemp, call <- webCall, before <- WebBefore

-----------------------------------------------------------------------------
(* Types.                                                                   *)

LEMMA WebAssumptions == WebP!CaddyAssumption /\ WebP!HostAssumption
<1>1. WebP!CaddyAssumption
  BY ManagersAssumption
     DEF ManagersAssumption, Web!CaddyAssumption, WebP!CaddyAssumption, Web!RootFiles,
         WebP!RootFiles, Web!Paths, WebP!Paths, Web!Import, WebP!Import
<1>2. WebP!HostAssumption
  BY HostAssumption DEF HostAssumption, WebP!HostAssumption
<1> QED BY <1>1, <1>2

LEMMA WebStepIs ==
    ASSUME NEW r, Web!Step(r)
    PROVE  WebP!Step(r)
BY DEF Web!Step, WebP!Step, Web!ReadRoot, WebP!ReadRoot, Web!ReadConfig, WebP!ReadConfig,
       Web!WriteTemp, WebP!WriteTemp, Web!Rename, WebP!Rename, Web!Remove, WebP!Remove,
       Web!Glob, WebP!Glob, Web!Validate, WebP!Validate, Web!Reload, WebP!Reload,
       Web!UndoReload, WebP!UndoReload, Web!To, WebP!To, Web!Returned, WebP!Returned,
       Web!Idle, WebP!Idle, Web!writeAtomically, WebP!writeAtomically,
       Web!restoreFile, WebP!restoreFile, Web!Undone, WebP!Undone, Web!UndoRoot, WebP!UndoRoot,
       Web!UndoConfig, WebP!UndoConfig, Web!Continue, WebP!Continue, Web!Truncated,
       WebP!Truncated, Web!Kind, WebP!Kind, Web!HasImport, WebP!HasImport,
       Web!ensureManagedRootImport, WebP!ensureManagedRootImport,
       Web!removeManagedRootImport, WebP!removeManagedRootImport, Web!SiteFiles,
       WebP!SiteFiles, Web!ManagedFiles, WebP!ManagedFiles, Web!Served, WebP!Served,
       Web!Adapts, WebP!Adapts, Web!Import, WebP!Import, Web!Works, WebP!Works, Web!Fails,
       WebP!Fails, Web!CommandSucceeds, WebP!CommandSucceeds, Web!CommandRefused,
       WebP!CommandRefused, Web!CommandBreaks, WebP!CommandBreaks, Web!Cancel, WebP!Cancel

\* The calls a service step makes of the managers: it begins one where it will
\* wait for it, or collects the answer it waited for.
WebUse(r) ==
    \/ /\ UNCHANGED webCall
       /\ pc[r] \notin {"web", "undoWeb"}
    \/ /\ pc'[r] \in {"web", "undoWeb"}
       /\ \E i \in SiteIds :
             (\E w \in WebConfigs : Web!ActivateSite(r, i, w)) \/ Web!RemoveSite(r, i)
    \/ Web!Collect(r)

DnsUse(r) ==
    \/ /\ UNCHANGED dnsCall
       /\ pc[r] \notin {"ensureStub", "undoStub"}
    \/ /\ pc'[r] \in {"ensureStub", "undoStub"}
       /\ (Dns!EnsureTestStub(r) \/ Dns!RemoveManagedStub(r))
    \/ Dns!Collect(r)

PhpWaits == {"materialize", "switchRuntime", "switchBack"}
PhpUse(r) ==
    \/ /\ UNCHANGED phpCall
       /\ pc[r] \notin PhpWaits
    \/ /\ pc'[r] \in PhpWaits
       /\ \E v \in SupportedVersions : \/ Php!MaterializeRuntime(r, v)
                                       \/ \E p \in SupportedVersions : Php!SwitchRuntime(r, p, v)
    \/ Php!Collect(r)

\* What a service step does to a PHP service: at most a start or a restart.
FpmUse ==
    \/ UNCHANGED fpm
    \/ \E v \in SupportedVersions : \E s \in {fpm[v], "down", "stock", "managed"} :
          fpm' = [fpm EXCEPT ![v] = s]

FilesStay == UNCHANGED <<caddyFiles, caddyTemp, live, stub, stubTemp, loaded, fpmFiles, fpmTemp>>

\* At most one failure is counted in a step.
Counted == faults' = faults \/ (faults < MaxFaults /\ faults' = faults + 1)

Uses(r) == WebUse(r) /\ DnsUse(r) /\ PhpUse(r) /\ FpmUse /\ FilesStay /\ Counted

LEMMA WebSite ==
    ASSUME NEW s \in SiteRecords
    PROVE  siteToWebSite(s) \in WebConfigs /\ s.id \in SiteIds /\ s.php \in SupportedVersions
BY DEF siteToWebSite, WebConfigs, SiteRecords

LEMMA FirstUses ==
    ASSUME RegistriesTyped, LocalsTyped, NEW r \in Callers, Placed(r, pc[r], loc[r], result[r]),
           \/ Resolve(r) \/ RegisterSite(r) \/ StubEnsured(r) \/ UndoList(r) \/ StubRemoved(r)
           \/ UndoRecord(r) \/ GetSite(r)
    PROVE  Uses(r)
<1>0. loc[r] \in Locals /\ pc \in [Callers -> Labels]
  BY DEF LocalsTyped
<1>1. CASE Resolve(r) \/ UndoRecord(r) \/ GetSite(r)
  <2>1. /\ UNCHANGED <<web, dns, php>> /\ Counted
        /\ pc[r] \in {"resolve", "undoRecord", "get"}
    BY <1>1 DEF Resolve, UndoRecord, GetSite, At, StoreWorks, StoreFails, Works, Fails, Counted
  <2> QED BY <2>1 DEF Uses, WebUse, DnsUse, PhpUse, FpmUse, FilesStay, web, dns, php, PhpWaits
<1>2. CASE RegisterSite(r)
  <2>1. /\ UNCHANGED <<web, php, stub, stubTemp, loaded>> /\ Counted /\ pc[r] = "register"
        /\ UNCHANGED dnsCall \/ (pc'[r] = "ensureStub" /\ Dns!EnsureTestStub(r))
    BY <1>0, <1>2 DEF RegisterSite, At, StoreWorks, StoreFails, Works, Fails, Counted, Goto
  <2> QED BY <2>1 DEF Uses, WebUse, DnsUse, PhpUse, FpmUse, FilesStay, web, php, PhpWaits
<1>3. CASE StubEnsured(r)
  <2>0. pc[r] = "ensureStub"
    BY <1>3 DEF StubEnsured, At
  <2>1. Is(r, "activate") /\ loc[r].runtime \in SupportedVersions
    BY <1>0, <2>0, RunningHasJob, JobFields DEF Placed, Is, Job, Running, AfterRegister
  <2>2. /\ UNCHANGED <<web, stub, stubTemp, loaded, fpmFiles, fpmTemp, fpm, faults>>
        /\ Dns!Collect(r)
        /\ \/ UNCHANGED phpCall
           \/ /\ pc'[r] = "materialize"
              /\ Php!MaterializeRuntime(r, loc[r].runtime)
    BY <1>0, <1>3 DEF StubEnsured, At, Goto
  <2> QED BY <2>0, <2>1, <2>2 DEF Uses, WebUse, DnsUse, PhpUse, FpmUse, FilesStay, web, PhpWaits,
                                  Counted
<1>4. CASE UndoList(r)
  <2>1. /\ UNCHANGED <<web, php, stub, stubTemp, loaded>> /\ Counted /\ pc[r] = "undoList"
        /\ UNCHANGED dnsCall \/ (pc'[r] = "undoStub" /\ Dns!RemoveManagedStub(r))
    BY <1>0, <1>4 DEF UndoList, At, StoreWorks, StoreFails, Works, Fails, Counted, Goto
  <2> QED BY <2>1 DEF Uses, WebUse, DnsUse, PhpUse, FpmUse, FilesStay, web, php, PhpWaits
<1>5. CASE StubRemoved(r)
  <2>1. /\ UNCHANGED <<web, php, stub, stubTemp, loaded, faults>> /\ pc[r] = "undoStub"
        /\ Dns!Collect(r)
    BY <1>5 DEF StubRemoved, At
  <2> QED BY <2>1 DEF Uses, WebUse, DnsUse, PhpUse, FpmUse, FilesStay, web, php, PhpWaits, Counted
<1> QED BY <1>1, <1>2, <1>3, <1>4, <1>5

\* An update or a switch holds two records from its preparation on.
LEMMA TwoRecords ==
    ASSUME LocalsTyped, NEW r \in Callers, Placed(r, pc[r], loc[r], result[r]),
           pc[r] \in {"switchRuntime", "start", "web", "persist", "undoWeb"}
    PROVE  /\ loc[r].next \in SiteRecords
           /\ ~Is(r, "activate") => loc[r].current \in SiteRecords
<1>1. Job(r) \in Jobs
  BY RunningHasJob DEF Running
<1> QED BY <1>1, JobFields DEF Placed, Is, Job, AfterRegister

LEMMA SwitchBackUse ==
    ASSUME LocalsTyped, NEW r \in Callers, Placed(r, pc[r], loc[r], result[r]),
           pc[r] \in {"start", "web", "undoWeb"}, ~Is(r, "activate"), SwitchBack(r)
    PROVE  PhpUse(r)
<1>1. loc[r].next.php \in SupportedVersions /\ loc[r].current.php \in SupportedVersions
  BY TwoRecords, WebSite
<1>2. pc'[r] = "switchBack" /\ Php!SwitchRuntime(r, loc[r].next.php, loc[r].current.php)
  BY DEF SwitchBack, Goto, LocalsTyped
<1> QED BY <1>1, <1>2 DEF PhpUse, PhpWaits

LEMMA AbortUse ==
    ASSUME LocalsTyped, NEW r \in Callers, Placed(r, pc[r], loc[r], result[r]),
           pc[r] \in {"start", "web"}, Abort(r)
    PROVE  PhpUse(r)
<1>1. CASE UNCHANGED phpCall
  BY <1>1 DEF PhpUse, PhpWaits
<1> QED BY <1>1, SwitchBackUse DEF Abort

LEMMA LaterUses ==
    ASSUME RegistriesTyped, LocalsTyped, NEW r \in Callers, Placed(r, pc[r], loc[r], result[r]),
           \/ Prepare(r) \/ RuntimeReady(r) \/ StartServices(r) \/ WebActivated(r)
           \/ Persist(r) \/ WebUndone(r)
    PROVE  Uses(r)
<1>0. loc[r] \in Locals /\ pc \in [Callers -> Labels]
  BY DEF LocalsTyped
<1>1. CASE Prepare(r)
  <2>0. pc[r] = "prepare"
    BY <1>1 DEF Prepare, At
  <2>1. /\ loc[r].current.php \in SupportedVersions /\ updatedSite(r).php \in SupportedVersions
    <3>1. Job(r) \in Jobs
      BY <2>0, RunningHasJob DEF Running
    <3>2. loc[r].current \in SiteRecords /\ Job(r).op \in {"update", "switch"}
      BY <2>0, <3>1, JobFields DEF Placed, Job, AfterRegister
    <3> QED BY <3>1, <3>2, UpdatedIsSite, WebSite
  <2>2. /\ UNCHANGED <<web, dns, fpmFiles, fpmTemp, fpm>> /\ Counted
        /\ \/ UNCHANGED phpCall
           \/ /\ pc'[r] = "switchRuntime"
              /\ Php!SwitchRuntime(r, loc[r].current.php, updatedSite(r).php)
    BY <1>0, <1>1 DEF Prepare, At, StoreWorks, StoreFails, Works, Fails, Counted, Goto
  <2> QED BY <2>0, <2>1, <2>2 DEF Uses, WebUse, DnsUse, PhpUse, FpmUse, FilesStay, web, dns, PhpWaits
<1>2. CASE RuntimeReady(r)
  <2>0. pc[r] \in {"materialize", "switchRuntime"}
    BY <1>2 DEF RuntimeReady
  <2>1. Is(r, "switch") => loc[r].next \in SiteRecords
    BY <2>0 DEF Placed, Is, Job
  <2>2. /\ UNCHANGED <<caddyFiles, caddyTemp, live, dns, fpmFiles, fpmTemp, fpm, faults>>
        /\ Php!Collect(r)
        /\ \/ UNCHANGED webCall
           \/ /\ pc'[r] = "web" /\ Is(r, "switch")
              /\ Web!ActivateSite(r, loc[r].next.id, siteToWebSite(loc[r].next))
    BY <1>0, <1>2 DEF RuntimeReady, Goto
  <2>3. WebUse(r)
    BY <2>0, <2>1, <2>2, WebSite DEF WebUse
  <2> QED BY <2>0, <2>2, <2>3 DEF Uses, DnsUse, PhpUse, FpmUse, FilesStay, dns, Counted
<1>3. CASE StartServices(r)
  <2>0. pc[r] = "start"
    BY <1>3 DEF StartServices, At
  <2>1. loc[r].next \in SiteRecords
    BY <2>0, TwoRecords
  <2>2. /\ UNCHANGED <<caddyFiles, caddyTemp, live, dns, fpmFiles, fpmTemp>> /\ Counted
        /\ \/ UNCHANGED fpm \/ Php!StartService(loc[r].runtime)
        /\ \/ UNCHANGED phpCall \/ PhpUse(r)
        /\ \/ UNCHANGED webCall
           \/ /\ pc'[r] = "web"
              /\ Web!ActivateSite(r, loc[r].next.id, siteToWebSite(loc[r].next))
    BY <1>0, <1>3, AbortUse DEF StartServices, At, Goto, CommandSucceeds, CommandRefused,
                                CommandBreaks, Works, Fails, Counted
  <2>3. WebUse(r)
    BY <2>0, <2>1, <2>2, WebSite DEF WebUse
  <2>4. loc[r].runtime \in SupportedVersions
    BY <2>0, <2>1, WebSite, SharedJob DEF Placed, Job, SharedOps, AfterRegister
  <2>5. FpmUse
    BY <2>2, <2>4 DEF FpmUse, Php!StartService, Php!Started
  <2> QED BY <2>0, <2>2, <2>3, <2>5 DEF Uses, DnsUse, PhpUse, FilesStay, dns, PhpWaits
<1>4. CASE WebActivated(r)
  <2>1. pc[r] = "web" /\ Web!Collect(r) /\ (UNCHANGED phpCall \/ Abort(r))
        /\ UNCHANGED <<caddyFiles, caddyTemp, live, dns, fpmFiles, fpmTemp, fpm, faults>>
    BY <1>4 DEF WebActivated, At
  <2>2. PhpUse(r)
    BY <2>1, AbortUse DEF PhpUse, PhpWaits
  <2> QED BY <2>1, <2>2 DEF Uses, WebUse, DnsUse, FpmUse, FilesStay, dns, Counted
<1>5. CASE Persist(r)
  <2>0. pc[r] = "persist"
    BY <1>5 DEF Persist, At
  <2>1. ~Is(r, "activate") => loc[r].current \in SiteRecords
    BY <2>0, TwoRecords
  <2>2. /\ UNCHANGED <<caddyFiles, caddyTemp, live, dns, php>> /\ Counted
        /\ \/ UNCHANGED webCall
           \/ /\ pc'[r] = "undoWeb"
              /\ \/ Web!RemoveSite(r, r)
                 \/ /\ ~Is(r, "activate")
                    /\ Web!ActivateSite(r, loc[r].current.id, siteToWebSite(loc[r].current))
    BY <1>0, <1>5 DEF Persist, At, Goto, StoreWorks, StoreFails, Works, Fails, Counted
  <2>3. WebUse(r)
    BY <2>0, <2>1, <2>2, WebSite, OrchestrationAssumption DEF WebUse
  <2> QED BY <2>0, <2>2, <2>3 DEF Uses, DnsUse, PhpUse, FpmUse, FilesStay, dns, php, PhpWaits
<1>6. CASE WebUndone(r)
  <2>1. pc[r] = "undoWeb" /\ Web!Collect(r)
        /\ (UNCHANGED phpCall \/ (~Is(r, "activate") /\ SwitchBack(r)))
        /\ UNCHANGED <<caddyFiles, caddyTemp, live, dns, fpmFiles, fpmTemp, fpm, faults>>
    BY <1>6 DEF WebUndone, At, Is
  <2>2. PhpUse(r)
    BY <2>1, SwitchBackUse DEF PhpUse, PhpWaits
  <2> QED BY <2>1, <2>2 DEF Uses, WebUse, DnsUse, FpmUse, FilesStay, dns, Counted
<1> QED BY <1>1, <1>2, <1>3, <1>4, <1>5, <1>6

LEMMA RestartUse ==
    ASSUME NEW r, NEW v \in SupportedVersions, Php!TryRestart(r, v)
    PROVE  FpmUse /\ Counted
<1>1. FpmUse
  BY DEF FpmUse, Php!TryRestart, Php!RestartSucceeds, Php!RestartFails, Php!Started
<1>2. Counted
  BY DEF Counted, Php!TryRestart, Php!RestartSucceeds, Php!RestartFails, Php!CommandSucceeds,
         Php!CommandRefused, Php!CommandBreaks, Php!Works, Php!Fails
<1> QED BY <1>1, <1>2

LEMMA OtherUses ==
    ASSUME RegistriesTyped, LocalsTyped, NEW r \in Callers, Placed(r, pc[r], loc[r], result[r]),
           \/ SwitchedBack(r) \/ RestartPreviousService(r) \/ RefreshInventory(r)
           \/ RegisterPHP(r) \/ ServiceStatus(r) \/ SetDefaultVersion(r)
    PROVE  Uses(r)
<1>0. loc[r] \in Locals /\ pc \in [Callers -> Labels]
  BY DEF LocalsTyped
<1>1. CASE RefreshInventory(r) \/ ServiceStatus(r) \/ SetDefaultVersion(r)
  <2>1. /\ UNCHANGED <<web, dns, php>> /\ Counted
        /\ pc[r] \in {"inventory", "status", "setDefault"}
    BY <1>1 DEF RefreshInventory, ServiceStatus, SetDefaultVersion, At, StoreWorks, StoreFails,
                CommandSucceeds, CommandRefused, CommandBreaks, Works, Fails, Counted
  <2> QED BY <2>1 DEF Uses, WebUse, DnsUse, PhpUse, FpmUse, FilesStay, web, dns, php, PhpWaits
<1>2. CASE SwitchedBack(r)
  <2>1. /\ UNCHANGED <<web, dns, fpmFiles, fpmTemp, fpm, faults>> /\ pc[r] = "switchBack"
        /\ Php!Collect(r)
    BY <1>2 DEF SwitchedBack, At
  <2> QED BY <2>1 DEF Uses, WebUse, DnsUse, PhpUse, FpmUse, FilesStay, web, dns, Counted
<1>3. CASE RestartPreviousService(r)
  <2>1. /\ UNCHANGED <<web, dns, fpmFiles, fpmTemp, phpCall>> /\ pc[r] = "restartPrevious"
        /\ Php!TryRestart(r, loc[r].current.php)
    BY <1>3 DEF RestartPreviousService, At
  <2>2. loc[r].current.php \in SupportedVersions
    <3>1. Job(r) \in Jobs
      BY <2>1, RunningHasJob DEF Running
    <3>2. loc[r].current \in SiteRecords
      BY <2>1, <3>1, JobFields DEF Placed, Job, AfterRegister
    <3> QED BY <3>2, WebSite
  <2>3. FpmUse /\ Counted
    BY <2>1, <2>2, RestartUse
  <2> QED BY <2>1, <2>3 DEF Uses, WebUse, DnsUse, PhpUse, FilesStay, web, dns, PhpWaits
<1>4. CASE RegisterPHP(r)
  <2>1. /\ UNCHANGED <<web, dns, fpmFiles, fpmTemp, fpm>> /\ Counted /\ pc[r] = "registerRuntime"
        /\ \/ UNCHANGED phpCall
           \/ /\ pc'[r] = "materialize" /\ Verified(Job(r).version, Job(r).binary)
              /\ Php!MaterializeRuntime(r, detectRuntimeVersion(Job(r).binary))
    BY <1>0, <1>4 DEF RegisterPHP, At, Goto, StoreWorks, StoreFails, Works, Fails, Counted,
                      RegisterRuntime
  <2>2. PhpUse(r)
    BY <2>1 DEF PhpUse, PhpWaits, Verified
  <2> QED BY <2>1, <2>2 DEF Uses, WebUse, DnsUse, FpmUse, FilesStay, web, dns
<1> QED BY <1>1, <1>2, <1>3, <1>4

LEMMA ServiceUses ==
    ASSUME RegistriesTyped, LocalsTyped, NEW r \in Callers, Placed(r, pc[r], loc[r], result[r]),
           ServiceStep(r)
    PROVE  Uses(r)
BY FirstUses, LaterUses, OtherUses DEF ServiceStep

-----------------------------------------------------------------------------
(* The resolver and PHP-FPM managers.                                       *)

DnsFrames == [at : Dns!Labels, op : {"none", "ensure", "remove"}, previous : Dns!Stubs,
              data : Dns!Stubs, undo : BOOLEAN, result : Results]

LEMMA DnsFrameTyped ==
    /\ Dns!Idle \in DnsFrames /\ \A res \in Results : Dns!Returned(res) \in DnsFrames
    /\ \A f \in DnsFrames : /\ Dns!Undo(f) \in DnsFrames /\ Dns!Written(f) \in DnsFrames
                            /\ Dns!WriteFailed(f) \in DnsFrames
<1>1. Dns!Idle \in DnsFrames /\ \A res \in Results : Dns!Returned(res) \in DnsFrames
  BY DEF DnsFrames, Dns!Idle, Dns!Returned, Dns!Labels, Dns!Stubs, Results
<1>2. ASSUME NEW f \in DnsFrames
      PROVE  Dns!Undo(f) \in DnsFrames /\ Dns!Written(f) \in DnsFrames
  BY DEF DnsFrames, Dns!Undo, Dns!Written, Dns!Labels
<1>3. "err" \in Results
  BY DEF Results
<1> QED BY <1>1, <1>2, <1>3 DEF Dns!WriteFailed

DnsTyped ==
    /\ stub \in Dns!Stubs /\ stubTemp \in Dns!Stubs /\ loaded \in Dns!Stubs
    /\ dnsCall \in [Callers -> DnsFrames]

LEMMA DnsToTyped ==
    ASSUME DnsTyped, NEW r \in Callers, NEW f \in DnsFrames, Dns!To(r, f)
    PROVE  dnsCall' \in [Callers -> DnsFrames]
BY DEF DnsTyped, Dns!To

LEMMA DnsUseTyped ==
    ASSUME DnsTyped, NEW r \in Callers, DnsUse(r), UNCHANGED <<stub, stubTemp, loaded>>
    PROVE  DnsTyped'
<1>1. \A l \in {"inspect", "read"}, o \in {"ensure", "remove"} :
         [Dns!Idle EXCEPT !.at = l, !.op = o] \in DnsFrames
  BY DnsFrameTyped DEF DnsFrames, Dns!Labels
<1>2. \/ UNCHANGED dnsCall \/ \E f \in DnsFrames : Dns!To(r, f)
  BY <1>1, DnsFrameTyped DEF DnsUse, Dns!EnsureTestStub, Dns!RemoveManagedStub, Dns!Collect
<1>3. dnsCall' \in [Callers -> DnsFrames]
  BY <1>2, DnsToTyped DEF DnsTyped
<1> QED BY <1>3 DEF DnsTyped

LEMMA DnsStepTyped ==
    ASSUME DnsTyped, NEW r \in Callers, Dns!Step(r)
    PROVE  DnsTyped' /\ Counted
<1> DEFINE f == dnsCall[r]
<1>0. f \in DnsFrames /\ stub \in Dns!Stubs /\ {"managed", Absent} \subseteq Dns!Stubs
  BY DEF DnsTyped, Dns!Stubs
<1>1. Counted
  BY DEF Counted, Dns!Step, Dns!Inspect, Dns!WriteTemp, Dns!Rename, Dns!Read, Dns!Remove,
         Dns!Reload, Dns!UndoReload, Dns!Confirm, Dns!Works, Dns!Fails, Dns!CommandSucceeds,
         Dns!CommandRefused, Dns!CommandBreaks
<1>2. f.data \in Dns!Stubs /\ f.previous \in Dns!Stubs
  BY <1>0 DEF DnsFrames
<1>3. stub' \in Dns!Stubs /\ stubTemp' \in Dns!Stubs /\ loaded' \in Dns!Stubs
  BY <1>0, <1>2 DEF DnsTyped, Dns!Step, Dns!Inspect, Dns!WriteTemp, Dns!Rename, Dns!Read,
     Dns!Remove, Dns!Reload, Dns!UndoReload, Dns!Confirm
<1>4. \A l \in Dns!Labels : [f EXCEPT !.at = l] \in DnsFrames
  BY <1>0 DEF DnsFrames
<1>5. /\ [f EXCEPT !.at = "writeTemp", !.previous = stub, !.data = "managed"] \in DnsFrames
      /\ [f EXCEPT !.at = "remove", !.previous = stub] \in DnsFrames
  BY <1>0 DEF DnsFrames, Dns!Labels
<1>6. {"rename", "confirm"} \subseteq Dns!Labels /\ {"ok", "err"} \subseteq Results
  BY DEF Dns!Labels, Results
<1>7. \E g \in DnsFrames : Dns!To(r, g)
  <2> HIDE DEF f
  <2> DEFINE F == DnsFrames
  <2>1. /\ Dns!Undo(f) \in F /\ Dns!Written(f) \in F /\ Dns!WriteFailed(f) \in F
        /\ \A res \in Results : Dns!Returned(res) \in F
    BY <1>0, DnsFrameTyped
  <2> HIDE DEF F
  <2>2. CASE Dns!Inspect(r) \/ Dns!Read(r)
    BY <1>5, <1>6, <2>1, <2>2 DEF Dns!Inspect, Dns!Read, f, F
  <2>3. CASE Dns!WriteTemp(r) \/ Dns!Rename(r) \/ Dns!Remove(r)
    BY <1>4, <1>6, <2>1, <2>3 DEF Dns!WriteTemp, Dns!Rename, Dns!Remove, f, F
  <2>4. CASE Dns!Reload(r) \/ Dns!UndoReload(r) \/ Dns!Confirm(r)
    BY <1>4, <1>6, <2>1, <2>4 DEF Dns!Reload, Dns!UndoReload, Dns!Confirm, f, F
  <2> QED BY <2>2, <2>3, <2>4 DEF Dns!Step, F
<1> QED BY <1>1, <1>3, <1>7, DnsToTyped DEF DnsTyped

PhpContents == {"managed", Absent}
PhpFrames == [at : Php!Labels, version : SupportedVersions \cup {Unset},
              previous : SupportedVersions \cup {Unset}, poolBackup : PhpContents,
              overrideBackup : PhpContents, file : {"none", "pool", "override"},
              data : PhpContents, undo : {"no", "pool", "all"}, result : Results]

PhpWrites == {"writeTemp", "rename", "remove"}

\* A call in progress is about a version; one that writes knows which file.
PhpFrame(f) ==
    /\ f \in PhpFrames
    /\ f.at \notin {"idle", "returned"} => f.version \in SupportedVersions
    /\ f.at \in PhpWrites => f.file \in {"pool", "override"}
    /\ f.at = "restartPrevious" => f.previous \in SupportedVersions

PhpTyped ==
    /\ fpmFiles \in [Php!Paths -> PhpContents] /\ fpmTemp \in [Php!Paths -> PhpContents]
    /\ fpm \in [SupportedVersions -> {"down", "stock", "managed"}]
    /\ phpCall \in [Callers -> PhpFrames]
    /\ \A r \in Callers : PhpFrame(phpCall[r])

LEMMA PhpIdleTyped ==
    /\ PhpFrame(Php!Idle) /\ \A res \in Results : PhpFrame(Php!Returned(res))
    /\ \A v, p \in SupportedVersions :
          /\ PhpFrame([Php!Idle EXCEPT !.at = "readPool", !.version = v])
          /\ PhpFrame([Php!Idle EXCEPT !.at = "readPool", !.version = v, !.previous = p])
BY DEF PhpFrame, PhpFrames, Php!Idle, Php!Returned, Php!Labels, PhpContents, Results, PhpWrites

\* Moving on to a step that writes nothing.
LEMMA PhpMoveTyped ==
    ASSUME NEW f, PhpFrame(f), f.version \in SupportedVersions,
           NEW l \in Php!Labels \ (PhpWrites \cup {"restartPrevious"})
    PROVE  PhpFrame([f EXCEPT !.at = l])
BY DEF PhpFrame, PhpFrames

LEMMA PhpWriteTyped ==
    ASSUME NEW f, PhpFrame(f), f.version \in SupportedVersions,
           NEW l \in {"writeTemp", "rename", "remove"}, NEW n \in {"pool", "override"},
           NEW d \in PhpContents, NEW u \in {"no", "pool", "all"}
    PROVE  /\ PhpFrame([f EXCEPT !.at = l, !.file = n, !.data = d])
           /\ PhpFrame([f EXCEPT !.at = l, !.file = n, !.data = d, !.undo = u])
BY DEF PhpFrame, PhpFrames, Php!Labels, PhpWrites

LEMMA PhpFailedTyped ==
    ASSUME NEW f, PhpFrame(f), f.version \in SupportedVersions
    PROVE  PhpFrame(Php!Failed(f)) /\ PhpFrame(Php!Rollback(f))
<1>1. f.previous = Unset => PhpFrame(Php!Failed(f))
  BY PhpIdleTyped DEF Php!Failed, Results
<1>2. f.previous # Unset => PhpFrame(Php!Failed(f))
  <2> HAVE f.previous # Unset
  <2>1. f.previous \in SupportedVersions
    BY DEF PhpFrame, PhpFrames
  <2>2. PhpFrame([f EXCEPT !.at = "restartPrevious"])
    BY <2>1 DEF PhpFrame, PhpFrames, PhpWrites, Php!Labels
  <2> QED BY <2>2 DEF Php!Failed
<1>3. f.poolBackup \in PhpContents
  BY DEF PhpFrame, PhpFrames
<1>4. PhpFrame(Php!Rollback(f))
  BY <1>3, PhpWriteTyped DEF Php!Rollback, Php!Restore
<1> QED BY <1>1, <1>2, <1>4

LEMMA PhpWrittenTyped ==
    ASSUME NEW f, PhpFrame(f), f.at \in PhpWrites
    PROVE  PhpFrame(Php!Written(f)) /\ PhpFrame(Php!WriteFailed(f))
<1>1. /\ f.version \in SupportedVersions /\ f.file \in {"pool", "override"}
      /\ f.poolBackup \in PhpContents /\ f.overrideBackup \in PhpContents
      /\ f.undo \in {"no", "pool", "all"}
  BY DEF PhpFrame, PhpFrames, PhpWrites
<1>2. PhpFrame(Php!Write(f, "override")) /\ PhpFrame(Php!Failed(f))
  BY <1>1, PhpWriteTyped, PhpFailedTyped DEF Php!Write, PhpContents
<1>3. PhpFrame([f EXCEPT !.at = "check"]) /\ PhpFrame([f EXCEPT !.at = "undoRestart"])
  BY <1>1, PhpMoveTyped DEF Php!Labels, PhpWrites
<1>4. /\ PhpFrame(Php!Restore(f, "override", f.overrideBackup, "all"))
      /\ PhpFrame(Php!Restore(f, "pool", f.poolBackup, "pool"))
  BY <1>1, PhpWriteTyped DEF Php!Restore
<1>5. PhpFrame(Php!Written(f))
  <2>1. Php!Written(f) \in {Php!Write(f, "override"), [f EXCEPT !.at = "check"], Php!Failed(f),
                            Php!Restore(f, "override", f.overrideBackup, "all"),
                            [f EXCEPT !.at = "undoRestart"]}
    BY <1>1 DEF Php!Written
  <2> QED BY <1>2, <1>3, <1>4, <2>1
<1>6. PhpFrame(Php!WriteFailed(f))
  <2>1. Php!WriteFailed(f) \in {Php!Written(f), Php!Failed(f),
                                Php!Restore(f, "pool", f.poolBackup, "pool")}
    BY <1>1 DEF Php!WriteFailed
  <2> QED BY <1>2, <1>4, <1>5, <2>1
<1> QED BY <1>5, <1>6

LEMMA PhpToTyped ==
    ASSUME PhpTyped, NEW r \in Callers, NEW f, PhpFrame(f), Php!To(r, f)
    PROVE  /\ phpCall' \in [Callers -> PhpFrames]
           /\ \A q \in Callers : PhpFrame(phpCall'[q])
<1>1. f \in PhpFrames
  BY DEF PhpFrame
<1>2. phpCall' \in [Callers -> PhpFrames]
  BY <1>1 DEF PhpTyped, Php!To
<1>3. \A q \in Callers : phpCall'[q] = IF q = r THEN f ELSE phpCall[q]
  BY DEF PhpTyped, Php!To
<1> QED BY <1>2, <1>3 DEF PhpTyped

\* The calls in progress stay as they are or one of them gets a new frame.
LEMMA PhpCallsTyped ==
    ASSUME PhpTyped, NEW r \in Callers,
           UNCHANGED phpCall \/ \E f : PhpFrame(f) /\ Php!To(r, f),
           fpmFiles' \in [Php!Paths -> PhpContents], fpmTemp' \in [Php!Paths -> PhpContents],
           fpm' \in [SupportedVersions -> {"down", "stock", "managed"}]
    PROVE  PhpTyped'
<1>1. /\ phpCall' \in [Callers -> PhpFrames]
      /\ \A q \in Callers : PhpFrame(phpCall'[q])
  BY PhpToTyped DEF PhpTyped
<1> QED BY <1>1 DEF PhpTyped, PhpFrame

LEMMA FpmUseTyped ==
    ASSUME PhpTyped, FpmUse
    PROVE  fpm' \in [SupportedVersions -> {"down", "stock", "managed"}]
BY DEF PhpTyped, FpmUse

LEMMA PhpUseTyped ==
    ASSUME PhpTyped, NEW r \in Callers, PhpUse(r), FpmUse, UNCHANGED <<fpmFiles, fpmTemp>>
    PROVE  PhpTyped'
<1>1. UNCHANGED phpCall \/ \E f : PhpFrame(f) /\ Php!To(r, f)
  BY PhpIdleTyped DEF PhpUse, Php!MaterializeRuntime, Php!SwitchRuntime, Php!Collect
<1> QED BY <1>1, FpmUseTyped, PhpCallsTyped DEF PhpTyped

LEMMA PhpStepTyped ==
    ASSUME PhpTyped, NEW r \in Callers, Php!Step(r)
    PROVE  PhpTyped' /\ Counted
<1> DEFINE f == phpCall[r]
<1>0. PhpFrame(f)
  BY DEF PhpTyped
<1>1. Counted
  BY DEF Counted, Php!Step, Php!ReadPool, Php!ReadOverride, Php!WriteTemp, Php!Rename, Php!Remove,
         Php!Check, Php!Restart, Php!UndoRestart, Php!RestartPrevious, Php!TryRestart,
         Php!RestartSucceeds, Php!RestartFails, Php!Works, Php!Fails, Php!CommandSucceeds,
         Php!CommandRefused, Php!CommandBreaks
<1>2. CASE Php!ReadPool(r) \/ Php!ReadOverride(r)
  <2>1. f.at \in {"readPool", "readOverride"} /\ f.version \in SupportedVersions
    BY <1>0, <1>2 DEF Php!ReadPool, Php!ReadOverride, PhpFrame
  <2> DEFINE pool == fpmFiles[Php!Pool(f.version)]
             override == fpmFiles[Php!Override(f.version)]
             g == [f EXCEPT !.at = "readOverride", !.poolBackup = pool]
             h == [f EXCEPT !.overrideBackup = override]
  <2>2. pool \in PhpContents /\ override \in PhpContents
    BY <2>1 DEF PhpTyped, Php!Paths, Php!Pool, Php!Override
  <2>3. PhpFrame(g)
    BY <1>0, <2>1, <2>2 DEF PhpFrame, PhpFrames, Php!Labels, PhpWrites
  <2>4. PhpFrame(h) /\ h.version \in SupportedVersions
    BY <1>0, <2>1, <2>2 DEF PhpFrame, PhpFrames, PhpWrites
  <2>5. \/ Php!To(r, g) \/ Php!To(r, Php!Write(h, "pool")) \/ Php!To(r, Php!Failed(f))
    BY <1>2 DEF Php!ReadPool, Php!ReadOverride
  <2> HIDE DEF f, g, h
  <2>6. PhpFrame(Php!Write(h, "pool")) /\ PhpFrame(Php!Failed(f))
    BY <1>0, <2>1, <2>4, PhpWriteTyped, PhpFailedTyped DEF Php!Write, PhpContents
  <2>7. UNCHANGED <<fpmFiles, fpmTemp, fpm>>
    BY <1>2 DEF Php!ReadPool, Php!ReadOverride
  <2> QED BY <1>1, <2>3, <2>5, <2>6, <2>7, PhpCallsTyped DEF PhpTyped
<1>3. CASE Php!WriteTemp(r) \/ Php!Rename(r) \/ Php!Remove(r)
  <2>1. f.at \in PhpWrites
    BY <1>3 DEF Php!WriteTemp, Php!Rename, Php!Remove, PhpWrites
  <2>2. f.version \in SupportedVersions /\ f.file \in {"pool", "override"} /\ f.data \in PhpContents
    BY <1>0, <2>1 DEF PhpFrame, PhpFrames, PhpWrites
  <2>3. Php!Path(r) \in Php!Paths /\ Absent \in PhpContents
    BY <2>2 DEF Php!Path, Php!Paths, PhpContents
  <2>4. /\ fpmFiles' \in [Php!Paths -> PhpContents] /\ fpmTemp' \in [Php!Paths -> PhpContents]
        /\ UNCHANGED fpm
    BY <1>3, <2>2, <2>3 DEF Php!WriteTemp, Php!Rename, Php!Remove, PhpTyped
  <2>5. PhpFrame([f EXCEPT !.at = "rename"])
    BY <1>0, <2>2 DEF PhpFrame, PhpFrames, Php!Labels
  <2>6. PhpFrame(Php!Written(f)) /\ PhpFrame(Php!WriteFailed(f))
    BY <1>0, <2>1, PhpWrittenTyped
  <2>7. \/ Php!To(r, [f EXCEPT !.at = "rename"]) \/ Php!To(r, Php!Written(f))
        \/ Php!To(r, Php!WriteFailed(f))
    BY <1>3 DEF Php!WriteTemp, Php!Rename, Php!Remove
  <2> HIDE DEF f
  <2> QED BY <1>1, <2>4, <2>5, <2>6, <2>7, PhpCallsTyped DEF PhpTyped
<1>4. CASE Php!Check(r) \/ Php!Restart(r) \/ Php!UndoRestart(r) \/ Php!RestartPrevious(r)
  <2>1. /\ f.version \in SupportedVersions
        /\ f.at = "restartPrevious" => f.previous \in SupportedVersions
    BY <1>0, <1>4 DEF Php!Check, Php!Restart, Php!UndoRestart, Php!RestartPrevious, PhpFrame
  <2>2. /\ PhpFrame([f EXCEPT !.at = "restart"]) /\ PhpFrame(Php!Rollback(f))
        /\ PhpFrame(Php!Failed(f)) /\ PhpFrame(Php!Returned("ok")) /\ PhpFrame(Php!Returned("err"))
    BY <1>0, <2>1, PhpMoveTyped, PhpFailedTyped, PhpIdleTyped DEF Php!Labels, PhpWrites, Results
  <2>3. \/ Php!To(r, [f EXCEPT !.at = "restart"]) \/ Php!To(r, Php!Rollback(f))
        \/ Php!To(r, Php!Failed(f)) \/ Php!To(r, Php!Returned("ok"))
        \/ Php!To(r, Php!Returned("err"))
    BY <1>4 DEF Php!Check, Php!Restart, Php!UndoRestart, Php!RestartPrevious
  <2>4. FpmUse
    BY <1>4, <2>1 DEF FpmUse, Php!Check, Php!Restart, Php!UndoRestart, Php!RestartPrevious,
                      Php!TryRestart, Php!RestartSucceeds, Php!RestartFails, Php!Started
  <2>5. UNCHANGED <<fpmFiles, fpmTemp>>
    BY <1>4 DEF Php!Check, Php!Restart, Php!UndoRestart, Php!RestartPrevious
  <2> HIDE DEF f
  <2> QED BY <1>1, <2>2, <2>3, <2>4, <2>5, PhpCallsTyped, FpmUseTyped DEF PhpTyped
<1> QED BY <1>2, <1>3, <1>4 DEF Php!Step

-----------------------------------------------------------------------------
(* The types of the whole system.                                           *)

ManagersTyped == WebP!CaddyTyped /\ DnsTyped /\ PhpTyped /\ CallsInOrder

LEMMA HostCounted ==
    ASSUME WebP!HostTyped, Counted, cancelled' \subseteq Cancellable
    PROVE  WebP!HostTyped'
BY HostAssumption DEF WebP!HostTyped, Counted

LEMMA WebUseTyped ==
    ASSUME WebP!CaddyTyped, NEW r \in Callers, WebUse(r), UNCHANGED <<caddyFiles, caddyTemp, live>>,
           WebP!HostTyped'
    PROVE  WebP!CaddyTyped'
<1>1. CASE UNCHANGED webCall
  BY <1>1, WebAssumptions, WebP!HostOnlyTyped
<1>2. CASE \/ \E i \in SiteIds :
                 (\E w \in WebConfigs : WebP!ActivateSite(r, i, w)) \/ WebP!RemoveSite(r, i)
           \/ WebP!Collect(r)
  BY <1>2, WebAssumptions, WebP!UseTyped
<1>3. \/ UNCHANGED webCall
      \/ \E i \in SiteIds :
            (\E w \in WebConfigs : WebP!ActivateSite(r, i, w)) \/ WebP!RemoveSite(r, i)
      \/ WebP!Collect(r)
  BY DEF WebUse, Web!ActivateSite, WebP!ActivateSite, Web!RemoveSite, WebP!RemoveSite,
         Web!Collect, WebP!Collect, Web!Idle, WebP!Idle, Web!To, WebP!To
<1> QED BY <1>1, <1>2, <1>3

LEMMA FramesAre ==
    ASSUME ManagersTyped
    PROVE  /\ webCall \in [Callers -> WebP!Frames] /\ dnsCall \in [Callers -> DnsFrames]
           /\ phpCall \in [Callers -> PhpFrames]
BY DEF ManagersTyped, WebP!CaddyTyped, WebP!FramesTyped, DnsTyped, PhpTyped

LEMMA UsesInOrder ==
    ASSUME ManagersTyped, NEW r \in Callers, WebUse(r), DnsUse(r), PhpUse(r),
           \A q \in Callers \ {r} : pc'[q] = pc[q]
    PROVE  CallsInOrder'
<1> SUFFICES ASSUME NEW q \in Callers
             PROVE  /\ webCall'[q].at # "idle" => pc'[q] \in {"web", "undoWeb"}
                    /\ dnsCall'[q].at # "idle" => pc'[q] \in {"ensureStub", "undoStub"}
                    /\ phpCall'[q].at # "idle" => pc'[q] \in PhpWaits
  BY DEF CallsInOrder, PhpWaits
<1>0. /\ webCall[q].at # "idle" => pc[q] \in {"web", "undoWeb"}
      /\ dnsCall[q].at # "idle" => pc[q] \in {"ensureStub", "undoStub"}
      /\ phpCall[q].at # "idle" => pc[q] \in PhpWaits
  BY DEF ManagersTyped, CallsInOrder, PhpWaits
<1>1. CASE q # r
  <2>1. webCall'[q] = webCall[q] /\ dnsCall'[q] = dnsCall[q] /\ phpCall'[q] = phpCall[q]
    BY <1>1, FramesAre DEF WebUse, Web!ActivateSite, Web!RemoveSite, Web!Collect, Web!To,
       DnsUse, Dns!EnsureTestStub, Dns!RemoveManagedStub, Dns!Collect, Dns!To,
       PhpUse, Php!MaterializeRuntime, Php!SwitchRuntime, Php!Collect, Php!To
  <2> QED BY <1>0, <1>1, <2>1
<1>2. CASE q = r
  <2>1. \/ webCall'[r] = webCall[r] /\ pc[r] \notin {"web", "undoWeb"}
        \/ pc'[r] \in {"web", "undoWeb"} \/ webCall'[r] = Web!Idle
    BY FramesAre DEF WebUse, Web!Collect, Web!To
  <2>2. \/ dnsCall'[r] = dnsCall[r] /\ pc[r] \notin {"ensureStub", "undoStub"}
        \/ pc'[r] \in {"ensureStub", "undoStub"} \/ dnsCall'[r] = Dns!Idle
    BY FramesAre DEF DnsUse, Dns!Collect, Dns!To
  <2>3. \/ phpCall'[r] = phpCall[r] /\ pc[r] \notin PhpWaits
        \/ pc'[r] \in PhpWaits \/ phpCall'[r] = Php!Idle
    BY FramesAre DEF PhpUse, Php!Collect, Php!To
  <2> QED BY <1>0, <1>2, <2>1, <2>2, <2>3 DEF Web!Idle, Dns!Idle, Php!Idle
<1> QED BY <1>1, <1>2

\* Only a request that waits for a manager makes it move.
LEMMA ManagersInOrder ==
    ASSUME ManagersTyped, NEW r \in Callers, ManagerStep(r)
    PROVE  CallsInOrder'
<1>1. UNCHANGED pc
  BY DEF ManagerStep, app
<1>2. \/ /\ \A q \in Callers : webCall'[q] = webCall[q] \/ webCall[q].at # "idle"
         /\ UNCHANGED <<dnsCall, phpCall>>
      \/ /\ \A q \in Callers : dnsCall'[q] = dnsCall[q] \/ dnsCall[q].at # "idle"
         /\ UNCHANGED <<webCall, phpCall>>
      \/ /\ \A q \in Callers : phpCall'[q] = phpCall[q] \/ phpCall[q].at # "idle"
         /\ UNCHANGED <<webCall, dnsCall>>
  <2>1. CASE Web!Step(r) /\ UNCHANGED <<dns, php>>
    BY <2>1, FramesAre DEF dns, php, Web!Step, Web!ReadRoot, Web!ReadConfig, Web!WriteTemp,
       Web!Rename, Web!Remove, Web!Glob, Web!Validate, Web!Reload, Web!UndoReload, Web!To
  <2>2. CASE Dns!Step(r) /\ UNCHANGED <<web, php>>
    BY <2>2, FramesAre DEF web, php, Dns!Step, Dns!Inspect, Dns!WriteTemp, Dns!Rename, Dns!Read,
       Dns!Remove, Dns!Reload, Dns!UndoReload, Dns!Confirm, Dns!To
  <2>3. CASE Php!Step(r) /\ UNCHANGED <<web, dns>>
    BY <2>3, FramesAre DEF web, dns, Php!Step, Php!ReadPool, Php!ReadOverride, Php!WriteTemp,
       Php!Rename, Php!Remove, Php!Check, Php!Restart, Php!UndoRestart, Php!RestartPrevious, Php!To
  <2> QED BY <2>1, <2>2, <2>3 DEF ManagerStep
<1> QED BY <1>1, <1>2 DEF ManagersTyped, CallsInOrder

LEMMA ManagerStepTyped ==
    ASSUME RegistryInv, ManagersTyped, NEW r \in Callers, ManagerStep(r)
    PROVE  ManagersTyped'
<1>0. WebP!CaddyTyped /\ WebP!HostTyped /\ DnsTyped /\ PhpTyped /\ CallsInOrder'
  BY ManagersInOrder DEF ManagersTyped, WebP!CaddyTyped
<1>c. cancelled' \subseteq Cancellable
  BY ManagersGrow DEF RegistryInv, CancelledGrows
<1>1. CASE Web!Step(r) /\ UNCHANGED <<dns, php>>
  <2>1. WebP!CaddyTyped'
    BY <1>0, <1>1, WebStepIs, WebAssumptions, WebP!StepTyped
  <2>2. DnsTyped' /\ PhpTyped'
    BY <1>0, <1>1 DEF dns, php, DnsTyped, PhpTyped, PhpFrame
  <2> QED BY <1>0, <2>1, <2>2 DEF ManagersTyped
<1>2. CASE Dns!Step(r) /\ UNCHANGED <<web, php>>
  <2>1. DnsTyped' /\ Counted
    BY <1>0, <1>2, DnsStepTyped
  <2>2. WebP!HostTyped'
    BY <1>0, <1>c, <2>1, HostCounted
  <2>3. WebP!CaddyTyped' /\ PhpTyped'
    BY <1>0, <1>2, <2>2, WebAssumptions, WebP!HostOnlyTyped DEF web, php, PhpTyped, PhpFrame
  <2> QED BY <1>0, <2>1, <2>3 DEF ManagersTyped
<1>3. CASE Php!Step(r) /\ UNCHANGED <<web, dns>>
  <2>1. PhpTyped' /\ Counted
    BY <1>0, <1>3, PhpStepTyped
  <2>2. WebP!HostTyped'
    BY <1>0, <1>c, <2>1, HostCounted
  <2>3. WebP!CaddyTyped' /\ DnsTyped'
    BY <1>0, <1>3, <2>2, WebAssumptions, WebP!HostOnlyTyped DEF web, dns, DnsTyped
  <2> QED BY <1>0, <2>1, <2>3 DEF ManagersTyped
<1> QED BY <1>1, <1>2, <1>3 DEF ManagerStep

LEMMA ServiceStepTyped ==
    ASSUME RegistryInv, ManagersTyped, NEW r \in Callers, ServiceStep(r)
    PROVE  ManagersTyped'
<1>0. WebP!CaddyTyped /\ WebP!HostTyped /\ DnsTyped /\ PhpTyped
  BY DEF ManagersTyped, WebP!CaddyTyped
<1>c. cancelled' \subseteq Cancellable
  BY ServicesGrow DEF RegistryInv, CancelledGrows
<1>1. Uses(r)
  BY ServiceUses DEF RegistryInv, Places
<1>2. \A q \in Callers \ {r} : pc'[q] = pc[q]
  <2>1. PICK l, x, res : Move(r, l, x, res)
    BY ServiceSteps DEF RegistryInv, Places, Owned, AfterRegister, Steps
  <2> QED BY <2>1 DEF Move, RegistryInv, LocalsTyped
<1>3. WebP!HostTyped'
  BY <1>0, <1>1, <1>c, HostCounted DEF Uses
<1>4. WebP!CaddyTyped'
  BY <1>0, <1>1, <1>3, WebUseTyped DEF Uses, FilesStay
<1>5. DnsTyped' /\ PhpTyped'
  BY <1>0, <1>1, DnsUseTyped, PhpUseTyped DEF Uses, FilesStay
<1>6. CallsInOrder'
  BY <1>1, <1>2, UsesInOrder DEF Uses
<1> QED BY <1>4, <1>5, <1>6 DEF ManagersTyped

\* Steps that touch no manager; the daemon's death, which empties the frames.
LEMMA QuietTyped ==
    ASSUME RegistryInv, RegistryInv', ManagersTyped, UNCHANGED <<web, dns, php, faults>>,
           \A q \in Callers : pc'[q] = pc[q] \/ pc[q] = "idle"
    PROVE  ManagersTyped'
<1>1. WebP!HostTyped'
  BY DEF ManagersTyped, WebP!CaddyTyped, WebP!HostTyped, RegistryInv
<1>2. WebP!CaddyTyped'
  BY <1>1, WebAssumptions, WebP!HostOnlyTyped DEF ManagersTyped, web
<1>3. DnsTyped' /\ PhpTyped' /\ CallsInOrder'
  BY DEF ManagersTyped, dns, php, web, DnsTyped, PhpTyped, PhpFrame, CallsInOrder
<1> QED BY <1>2, <1>3 DEF ManagersTyped

LEMMA CrashManagersTyped ==
    ASSUME ManagersTyped, Crash
    PROVE  ManagersTyped'
<1>0. /\ UNCHANGED <<caddyFiles, caddyTemp, live, stub, stubTemp, loaded, fpmFiles, fpmTemp, fpm,
                     cancelled, faults>>
      /\ webCall' = [r \in Callers |-> Web!Idle] /\ dnsCall' = [r \in Callers |-> Dns!Idle]
      /\ phpCall' = [r \in Callers |-> Php!Idle]
  BY DEF Crash
<1>1. WebP!CaddyTyped'
  <2>1. WebP!Crash
    BY <1>0 DEF WebP!Crash, Web!Idle, WebP!Idle
  <2> QED BY <2>1, WebAssumptions, WebP!CrashTyped DEF ManagersTyped
<1>2. DnsTyped' /\ PhpTyped'
  BY <1>0, DnsFrameTyped, PhpIdleTyped DEF ManagersTyped, DnsTyped, PhpTyped, PhpFrame
<1>3. CallsInOrder'
  BY <1>0 DEF CallsInOrder, Web!Idle, Dns!Idle, Php!Idle
<1> QED BY <1>1, <1>2, <1>3 DEF ManagersTyped

LEMMA ManagersTypedKept ==
    ASSUME RegistryInv, RegistryInv', ManagersTyped, [Next]_vars
    PROVE  ManagersTyped'
<1>1. CASE \E r \in Callers : \E j \in Jobs : Begin(r, j)
  BY <1>1, QuietTyped DEF Begin, At, Goto, RegistryInv, LocalsTyped
<1>2. CASE \E r \in Callers : Step(r)
  BY <1>2, ServiceStepTyped, ManagerStepTyped DEF Step
<1>3. CASE \E r \in Callers : Disconnect(r)
  BY <1>3, QuietTyped DEF Disconnect, app
<1>4. CASE Crash
  BY <1>4, CrashManagersTyped
<1>5. CASE UNCHANGED vars
  BY <1>5, QuietTyped DEF vars, app
<1> QED BY <1>1, <1>2, <1>3, <1>4, <1>5 DEF Next

LEMMA ManagersTypedInit ==
    ASSUME Init
    PROVE  ManagersTyped
<1>0. RegistryInv /\ HostInit
  BY RegistryInvInit DEF Init
<1>1. WebP!CaddyTyped
  <2>1. WebP!Idle = Web!Idle
    BY DEF Web!Idle, WebP!Idle
  <2>2. /\ caddyFiles = FilesOf(sites) /\ caddyTemp = [p \in WebP!Paths |-> Absent]
        /\ webCall = [r \in Callers |-> WebP!Idle] /\ live = {siteToWebSite(s) : s \in sites}
    BY <2>1 DEF Init, CaddyPaths, WebP!Paths
  <2>3. \A p \in WebP!Paths : caddyFiles[p] \in WebP!Contents(p)
    <3> SUFFICES ASSUME NEW p \in WebP!Paths PROVE caddyFiles[p] \in WebP!Contents(p)
      OBVIOUS
    <3>1. CASE p = Root
      <4>1. caddyFiles[p] = OperatorBlocks \cup (IF sites = {} THEN {} ELSE {"import"})
        BY <2>2, <3>1 DEF FilesOf, CaddyPaths
      <4> QED BY <3>1, <4>1 DEF WebP!Contents, WebP!RootFiles, WebP!Import
    <3>2. CASE p # Root
      <4>1. caddyFiles[p] = IF HasSite(sites, p) THEN siteToWebSite(SiteOf(sites, p)) ELSE Absent
        BY <2>2, <3>2 DEF FilesOf, CaddyPaths, WebP!Paths
      <4>2. HasSite(sites, p) => siteToWebSite(SiteOf(sites, p)) \in WebConfigs
        BY <1>0, SiteOfIsIn, WebSite DEF RegistryInv, RegistriesTyped
      <4> QED BY <3>2, <4>1, <4>2 DEF WebP!Contents
    <3> QED BY <3>1, <3>2
  <2>4. WebP!FilesTyped
    <3>1. \A p \in WebP!Paths : WebP!Contents(p) \subseteq WebP!Anything
                                /\ Absent \in WebP!Contents(p)
      BY WebAssumptions, WebP!ContentsAre
    <3>2. caddyFiles = [p \in WebP!Paths |-> caddyFiles[p]]
      BY <2>2 DEF FilesOf, CaddyPaths, WebP!Paths
    <3>3. caddyFiles \in [WebP!Paths -> WebP!Anything]
      BY <2>3, <3>1, <3>2
    <3> QED BY <2>2, <2>3, <3>1, <3>3 DEF WebP!FilesTyped
  <2>5. WebP!TypedFrame(WebP!Idle)
    BY WebAssumptions, WebP!IdleFrameTyped
  <2>6. WebP!FramesTyped
    BY <2>2, <2>5 DEF WebP!FramesTyped, WebP!TypedFrame
  <2>7. WebP!HostTyped
    BY <1>0, HostAssumption DEF HostInit, WebP!HostTyped
  <2>8. live \subseteq WebConfigs
    BY <1>0, <2>2, WebSite DEF RegistryInv, RegistriesTyped
  <2> QED BY <2>4, <2>6, <2>7, <2>8 DEF WebP!CaddyTyped
<1>2. DnsTyped /\ PhpTyped
  BY DnsFrameTyped, PhpIdleTyped DEF Init, DnsTyped, PhpTyped, PhpFrame, PhpContents, Dns!Stubs,
                                     Php!Started
<1>3. CallsInOrder
  BY DEF Init, CallsInOrder, Web!Idle, Dns!Idle, Php!Idle
<1> QED BY <1>1, <1>2, <1>3 DEF ManagersTyped

LEMMA ManagersAlwaysTyped == Spec => []ManagersTyped
<1>1. Init => ManagersTyped
  BY ManagersTypedInit
<1>2. RegistryInv /\ RegistryInv' /\ ManagersTyped /\ [Next]_vars => ManagersTyped'
  BY ManagersTypedKept
<1> QED BY <1>1, <1>2, RegistryAlways, PTL DEF Spec

\* However the requests of any number of clients interleave, fail, are
\* cancelled or die with the daemon: a request waits in at most one host
\* manager and only where its service has called one, a manager's files hold
\* only what that manager writes (no site file's content in the Caddyfile, no
\* backup of one file restored into another), and the registries hold records.
THEOREM OrchestrationAlwaysTyped == Spec => []TypeOK
<1>1. RegistryInv /\ ManagersTyped => TypeOK
  <2> SUFFICES ASSUME RegistryInv, ManagersTyped PROVE TypeOK
    OBVIOUS
  <2>1. /\ sites \subseteq SiteRecords /\ runtimes.runtimes \subseteq RuntimeRecords
        /\ pc \in [Callers -> Labels] /\ result \in [Callers -> {"none", "ok", "err"}]
    BY DEF RegistryInv, RegistriesTyped, LocalsTyped, Results
  <2>2. Web!TypeOK
    <3>1. /\ \A p \in WebP!Paths : /\ caddyFiles[p] \in WebP!Contents(p)
                                   /\ caddyTemp[p] \in WebP!Contents(p)
          /\ \A c \in Callers : WebP!TypedFrame(webCall[c])
          /\ live \subseteq WebConfigs /\ cancelled \subseteq Cancellable
          /\ faults \in 0..MaxFaults
      BY HostAssumption DEF ManagersTyped, WebP!CaddyTyped, WebP!FilesTyped, WebP!FramesTyped,
                            WebP!HostTyped
    <3>2. WebP!TypeOK
      BY <3>1 DEF WebP!TypeOK, WebP!TypedFrame, WebP!Frames
    <3> QED BY <3>2 DEF Web!TypeOK, WebP!TypeOK, Web!Paths, WebP!Paths, Web!Contents,
               WebP!Contents, Web!RootFiles, WebP!RootFiles, Web!Labels, WebP!Labels,
               Web!Continuations, WebP!Continuations, Web!Import, WebP!Import
  <2>3. Dns!TypeOK /\ Php!TypeOK
    BY DEF ManagersTyped, DnsTyped, DnsFrames, PhpTyped, PhpFrames, PhpContents, Results,
           Dns!TypeOK, Php!TypeOK
  <2> QED BY <2>1, <2>2, <2>3 DEF TypeOK, ManagersTyped
<1> QED BY <1>1, RegistryAlways, ManagersAlwaysTyped, PTL

-----------------------------------------------------------------------------
(* Sites that are served.                                                   *)

\* The conditions: one request after the other, none of which is cancelled or
\* dies; nothing fails in an undo and no chmod fails with its file in place;
\* after a failure of the registry's file nothing else fails.
Undisturbed == Serial /\ ~MayCrash /\ Cancellable = {}
FaultsAreUndone ==
    /\ "undo" \notin FaultKinds /\ "chmod" \notin FaultKinds
    /\ "store" \notin FaultKinds \/ MaxFaults <= 1

-----------------------------------------------------------------------------
(* The files of a set of sites.                                             *)

\* Sites with identifiers and domains of their own.
Apart(S) ==
    /\ S \subseteq SiteRecords /\ Distinct(S)
    /\ \A s, t \in S : s.domain = t.domain => s = t

LEMMA FilesOfIs ==
    ASSUME NEW S, Apart(S)
    PROVE  /\ FilesOf(S) = [p \in WebP!Paths |-> FilesOf(S)[p]]
           /\ FilesOf(S)[Root] = OperatorBlocks \cup (IF S = {} THEN {} ELSE {"import"})
           /\ \A s \in S : s.id \in SiteIds /\ FilesOf(S)[s.id] = siteToWebSite(s)
           /\ \A i \in SiteIds : ~HasSite(S, i) => FilesOf(S)[i] = Absent
           /\ Root \notin SiteIds
<1>1. WebP!Paths = CaddyPaths /\ Root \notin SiteIds
  BY WebAssumptions DEF WebP!Paths, CaddyPaths, WebP!CaddyAssumption
<1>2. \A s \in S : HasSite(S, s.id) /\ SiteOf(S, s.id) = s /\ s.id \in SiteIds
  <2> TAKE s \in S
  <2>1. HasSite(S, s.id)
    BY DEF HasSite
  <2>2. SiteOf(S, s.id) \in S /\ SiteOf(S, s.id).id = s.id
    BY <2>1, SiteOfIsIn
  <2>3. SiteOf(S, s.id) = s
    BY <2>2 DEF Apart, Distinct
  <2> QED BY <2>1, <2>3, WebSite DEF Apart
<1>3. /\ FilesOf(S) = [p \in CaddyPaths |-> FilesOf(S)[p]]
      /\ FilesOf(S)[Root] = OperatorBlocks \cup (IF S = {} THEN {} ELSE {"import"})
  BY DEF FilesOf, CaddyPaths
<1>4. \A i \in SiteIds : FilesOf(S)[i] =
         IF HasSite(S, i) THEN siteToWebSite(SiteOf(S, i)) ELSE Absent
  BY <1>1 DEF FilesOf, CaddyPaths
<1> QED BY <1>1, <1>2, <1>3, <1>4

LEMMA UnchangedBefore ==
    ASSUME UNCHANGED <<sites, pc, loc>>
    PROVE  UNCHANGED WebBefore /\ UNCHANGED Settled
BY DEF WebBefore, WebCaller, WebFrom, AtWeb, Settled, Done, Activating, Running, Is, Job

\* The Caddyfile of these files is the operator's, with the import for sites.
LEMMA RootOf ==
    ASSUME NEW S, Apart(S)
    PROVE  /\ WebP!Good(FilesOf(S)[Root]) /\ FilesOf(S)[Root] # Absent
           /\ WebP!HasImport(FilesOf(S)[Root]) <=> S # {}
<1> DEFINE R == FilesOf(S)[Root]
<1>1. R = OperatorBlocks \cup (IF S = {} THEN {} ELSE {"import"})
  BY FilesOfIs
<1>2. R \in WebP!RootFiles
  BY <1>1 DEF WebP!RootFiles, WebP!Import
<1>3. R # Absent /\ "import" \notin OperatorBlocks
  BY <1>2, WebAssumptions DEF WebP!CaddyAssumption, WebP!Import
<1>4. R \ {"import"} = OperatorBlocks
  BY <1>1, <1>3
<1> HIDE DEF R
<1>5. WebP!Good(R) /\ (WebP!HasImport(R) <=> S # {})
  BY <1>1, <1>3, <1>4 DEF WebP!Good, WebP!OperatorPart, WebP!HasImport, WebP!Import
<1> QED BY <1>3, <1>5 DEF R

\* Caddy accepts them and serves the sites.
LEMMA ServedOf ==
    ASSUME NEW S, Apart(S)
    PROVE  /\ WebP!Served(FilesOf(S)) = {siteToWebSite(s) : s \in S}
           /\ WebP!Adapts(FilesOf(S))
<1> DEFINE fs == FilesOf(S)
<1>1. \A s \in S : siteToWebSite(s) \notin {Absent, Foreign} /\ s.id \in SiteIds
  BY WebSite, WebAssumptions DEF Apart, WebP!CaddyAssumption
<1>2. \A i \in SiteIds : fs[i] # Absent => \E s \in S : s.id = i
  BY FilesOfIs DEF HasSite
<1>3. \A s \in S : fs[s.id] = siteToWebSite(s)
  BY FilesOfIs
<1>4. WebP!ManagedFiles(fs) = {s.id : s \in S}
  <2> HIDE DEF fs
  <2> QED BY <1>1, <1>2, <1>3 DEF WebP!ManagedFiles, WebP!SiteFiles
<1>5. {fs[i] : i \in WebP!ManagedFiles(fs)} = {siteToWebSite(s) : s \in S}
  <2> HIDE DEF fs
  <2> QED BY <1>3, <1>4
<1>6. WebP!Served(fs) = {siteToWebSite(s) : s \in S}
  BY <1>5, RootOf DEF WebP!Served
<1>7. \A i, j \in WebP!ManagedFiles(fs) : fs[i].domain = fs[j].domain => i = j
  <2> SUFFICES ASSUME NEW s \in S, NEW t \in S, fs[s.id].domain = fs[t.id].domain
               PROVE  s.id = t.id
    BY <1>4
  <2>0. \A u : siteToWebSite(u).domain = u.domain
    BY DEF siteToWebSite
  <2> HIDE DEF fs
  <2>1. \A u \in S : fs[u.id].domain = u.domain
    BY <1>3, <2>0
  <2>2. s.domain = t.domain
    BY <2>1
  <2> QED BY <2>2 DEF Apart
<1> QED BY <1>6, <1>7, RootOf DEF WebP!Adapts

\* Adding a site, or replacing it.
LEMMA AddedFiles ==
    ASSUME NEW S, Apart(S), NEW n \in SiteRecords, NEW T,
           T = {s \in S : s.id # n.id} \cup {n}, Apart(T)
    PROVE  WebP!Target("activate", n.id, siteToWebSite(n), FilesOf(S)) = FilesOf(T)
<1> DEFINE b == FilesOf(S)
           c == FilesOf(T)
           root == WebP!ensureManagedRootImport(b[Root])
<1>1. /\ b = [p \in WebP!Paths |-> b[p]] /\ c = [p \in WebP!Paths |-> c[p]]
      /\ Root \in WebP!Paths /\ n.id \in WebP!Paths /\ n.id # Root
      /\ WebP!Paths = {Root} \cup SiteIds
  BY FilesOfIs, WebSite DEF WebP!Paths
<1>2. root = c[Root]
  <2>1. b[Root] # Absent
    BY RootOf
  <2> QED BY <2>1, FilesOfIs DEF WebP!ensureManagedRootImport, WebP!Import
<1>3. c[n.id] = siteToWebSite(n)
  BY FilesOfIs
<1>4. ASSUME NEW i \in SiteIds \ {n.id}
      PROVE  b[i] = c[i]
  <2>1. CASE HasSite(S, i)
    <3>1. PICK s \in S : s.id = i
      BY <2>1 DEF HasSite
    <3>2. s \in T
      BY <3>1
    <3> QED BY <3>1, <3>2, FilesOfIs
  <2>2. CASE ~HasSite(S, i)
    <3>1. ~HasSite(T, i)
      BY <2>2 DEF HasSite
    <3> QED BY <2>2, <3>1, FilesOfIs
  <2> QED BY <2>1, <2>2
<1> HIDE DEF b, c, root
<1>5. [b EXCEPT ![Root] = root, ![n.id] = siteToWebSite(n)] = c
  BY <1>1, <1>2, <1>3, <1>4
<1> QED BY <1>5 DEF WebP!Target, b, c, root

\* Removing a site.
LEMMA RemovedFiles ==
    ASSUME OperatorBlocks # {}, NEW S, Apart(S), NEW n \in S, NEW T,
           T = {s \in S : s.id # n.id}, Apart(T), NEW w
    PROVE  WebP!Target("remove", n.id, w, FilesOf(S)) = FilesOf(T)
<1> DEFINE b == FilesOf(S)
           c == FilesOf(T)
           root == IF WebP!OthersAbsent(b, n.id) /\ WebP!HasImport(b[Root])
                     THEN WebP!removeManagedRootImport(b[Root]) ELSE b[Root]
<1>1. /\ b = [p \in WebP!Paths |-> b[p]] /\ c = [p \in WebP!Paths |-> c[p]]
      /\ Root \in WebP!Paths /\ n.id \in WebP!Paths /\ n.id # Root
      /\ WebP!Paths = {Root} \cup SiteIds
  BY FilesOfIs, WebSite DEF WebP!Paths
<1>2. c[n.id] = Absent
  <2>1. ~HasSite(T, n.id) /\ n.id \in SiteIds
    BY FilesOfIs DEF HasSite
  <2> QED BY <2>1, FilesOfIs
<1>3. ASSUME NEW i \in SiteIds \ {n.id}
      PROVE  b[i] = c[i] /\ (b[i] # Absent <=> HasSite(T, i))
  <2>1. CASE HasSite(S, i)
    <3>1. PICK s \in S : s.id = i
      BY <2>1 DEF HasSite
    <3>2. s \in T /\ siteToWebSite(s) # Absent
      BY <3>1, WebSite, WebAssumptions DEF Apart, WebP!CaddyAssumption
    <3> QED BY <3>1, <3>2, FilesOfIs DEF HasSite
  <2>2. CASE ~HasSite(S, i)
    <3>1. ~HasSite(T, i)
      BY <2>2 DEF HasSite
    <3> QED BY <2>2, <3>1, FilesOfIs
  <2> QED BY <2>1, <2>2
<1>4. WebP!OthersAbsent(b, n.id) <=> T = {}
  <2>1. \A s \in T : s.id \in SiteIds \ {n.id} /\ HasSite(T, s.id)
    BY FilesOfIs DEF HasSite
  <2> HIDE DEF b
  <2> QED BY <1>3, <2>1 DEF WebP!OthersAbsent, HasSite
<1>5. root = c[Root]
  <2>1. WebP!HasImport(b[Root]) /\ b[Root] = OperatorBlocks \cup {"import"}
    BY RootOf, FilesOfIs
  <2>2. "import" \notin OperatorBlocks
    BY WebAssumptions DEF WebP!CaddyAssumption, WebP!Import
  <2>3. WebP!removeManagedRootImport(b[Root]) = OperatorBlocks
    BY <2>1, <2>2 DEF WebP!removeManagedRootImport, WebP!Import
  <2>4. c[Root] = IF T = {} THEN OperatorBlocks ELSE OperatorBlocks \cup {"import"}
    BY FilesOfIs
  <2> QED BY <1>4, <2>1, <2>3, <2>4
<1> HIDE DEF b, c, root
<1>6. [b EXCEPT ![Root] = root, ![n.id] = Absent] = c
  BY <1>1, <1>2, <1>3, <1>5
<1> QED BY <1>6 DEF WebP!Target, b, c, root

-----------------------------------------------------------------------------
(* What the one request that runs holds.                                    *)

Edits(r) == Job(r).op \in {"update", "switch"}

\* The record an update or a switch has read is still the registered one, an
\* activation's own is registered, and what is stored without a change of the
\* web configuration is what was registered.
Holds(r) ==
    /\ Edits(r) /\ pc[r] \notin {"get", "done"} => loc[r].current \in sites
    /\ Is(r, "activate") /\ pc[r] \in AfterRegister => loc[r].next \in sites
    /\ pc[r] = "persist" /\ ~loc[r].committedWeb => loc[r].next = loc[r].current

HoldInv == \A r \in Callers : Holds(r)

\* A request that is past its registration, or past its preparation.
LEMMA Holding ==
    ASSUME RegistryInv, NEW r \in Callers
    PROVE  /\ Placed(r, pc[r], loc[r], result[r]) /\ loc[r] \in Locals
           /\ Running(r) => Job(r) \in Jobs
           /\ Is(r, "activate") => r \in SiteIds
<1>1. Placed(r, pc[r], loc[r], result[r]) /\ LocalsTyped
  BY DEF RegistryInv, Places
<1>2. Running(r) => Job(r) \in Jobs
  BY <1>1, RunningHasJob
<1> QED BY <1>1, <1>2, OrchestrationAssumption DEF LocalsTyped

\* Where a service step takes its request, and with what.
Edge(r) ==
    \/ pc'[r] = "done"
    \/ /\ loc'[r] = loc[r] /\ pc[r] # "get"
       /\ pc'[r] \notin {"prepare", "ensureStub", "persist"}
    \/ pc[r] = "resolve" /\ pc'[r] = "register"
    \/ pc[r] = "register" /\ pc'[r] = "ensureStub" /\ loc'[r].next \in sites'
    \/ /\ pc[r] = "ensureStub" /\ pc'[r] = "materialize"
       /\ loc'[r] = [loc[r] EXCEPT !.committedResolver = TRUE]
    \/ pc[r] = "get" /\ pc'[r] = "prepare" /\ loc'[r].current \in sites
    \/ /\ pc[r] = "prepare" /\ pc'[r] \in {"switchRuntime", "persist", "start"}
       /\ loc'[r] = [loc[r] EXCEPT !.next = updatedSite(r), !.runtime = updatedSite(r).php]
       /\ pc'[r] = "persist" =>
             siteToWebSite(loc[r].current) = siteToWebSite(updatedSite(r))
    \/ /\ pc[r] = "web" /\ pc'[r] = "persist"
       /\ loc'[r] = [loc[r] EXCEPT !.committedWeb = TRUE]

LEMMA FinishIsDone ==
    ASSUME LocalsTyped, NEW r \in Callers
    PROVE  /\ \A res : Finish(r, res) => pc'[r] = "done"
           /\ \A l : Goto(r, l) => pc'[r] = l
           /\ \A x : Set(r, x) => loc'[r] = x
BY DEF LocalsTyped, Finish, Goto, Set

LEMMA AbortEdge ==
    ASSUME LocalsTyped, NEW r \in Callers, Abort(r)
    PROVE  \/ pc'[r] = "done"
           \/ UNCHANGED loc /\ pc'[r] \in {"undoList", "undoRecord", "switchBack"}
BY FinishIsDone DEF Abort, RollbackAfterWeb, SwitchBack

LEMMA EdgesFirst ==
    ASSUME RegistryInv, NEW r \in Callers,
           \/ Resolve(r) \/ RegisterSite(r) \/ StubEnsured(r) \/ UndoList(r)
           \/ StubRemoved(r) \/ UndoRecord(r) \/ GetSite(r) \/ Prepare(r)
    PROVE  Edge(r)
<1> USE FinishIsDone
<1>0. LocalsTyped
  BY DEF RegistryInv
<1>1. CASE Resolve(r)
  BY <1>0, <1>1 DEF Resolve, At, Edge
<1>2. CASE RegisterSite(r)
  <2>1. CASE pc'[r] = "done"
    BY <2>1 DEF Edge
  <2> DEFINE o == Register(sites, r, Job(r).root, Job(r).domain, loc[r].runtime)
             x == [loc[r] EXCEPT !.current = SiteOf(o.next, r), !.next = SiteOf(o.next, r)]
  <2>2. CASE /\ o.save /\ sites' = o.next /\ pc[r] = "register" /\ pc'[r] = "ensureStub"
             /\ loc'[r] = x
    <3>1. ~HasSite(sites, r)
      BY <2>2 DEF RegistryInv, Owned, AfterRegister
    <3>2. SiteOf(o.next, r) \in o.next
      BY <2>2, SiteOfIsIn DEF Register, Outcome, HasSite
    <3>3. x.next = SiteOf(o.next, r)
      BY <1>0 DEF LocalsTyped, Locals
    <3> QED BY <2>2, <3>2, <3>3 DEF Edge
  <2> QED BY <1>0, <1>2, <2>1, <2>2 DEF RegisterSite, At
<1>3. CASE StubEnsured(r) \/ UndoList(r) \/ StubRemoved(r) \/ UndoRecord(r)
  BY <1>0, <1>3 DEF StubEnsured, UndoList, StubRemoved, UndoRecord, At, Edge, RollbackAfterWeb
<1>4. CASE GetSite(r)
  <2>1. CASE pc'[r] = "done"
    BY <2>1 DEF Edge
  <2> DEFINE x == [loc[r] EXCEPT !.current = SiteOf(sites, Job(r).id)]
  <2>2. CASE /\ HasSite(sites, Job(r).id) /\ pc[r] = "get" /\ pc'[r] = "prepare"
             /\ loc'[r] = x
    <3>1. SiteOf(sites, Job(r).id) \in sites /\ x.current = SiteOf(sites, Job(r).id)
      BY <1>0, <2>2, SiteOfIsIn DEF LocalsTyped, Locals
    <3> QED BY <2>2, <3>1 DEF Edge
  <2> QED BY <1>0, <1>4, <2>1, <2>2 DEF GetSite, At
<1>5. CASE Prepare(r)
  BY <1>0, <1>5 DEF Prepare, At, Edge
<1> QED BY <1>1, <1>2, <1>3, <1>4, <1>5

LEMMA EdgesLater ==
    ASSUME RegistryInv, NEW r \in Callers,
           \/ RuntimeReady(r) \/ StartServices(r) \/ WebActivated(r) \/ Persist(r)
           \/ WebUndone(r) \/ SwitchedBack(r) \/ RestartPreviousService(r)
           \/ RefreshInventory(r) \/ RegisterPHP(r) \/ ServiceStatus(r) \/ SetDefaultVersion(r)
    PROVE  Edge(r)
<1> USE FinishIsDone
<1>0. LocalsTyped
  BY DEF RegistryInv
<1>1. CASE RuntimeReady(r)
  BY <1>0, <1>1 DEF RuntimeReady, Edge, RollbackAfterWeb
<1>2. CASE StartServices(r) \/ WebActivated(r)
  BY <1>0, <1>2, AbortEdge DEF StartServices, WebActivated, At, Edge
<1>3. CASE Persist(r)
  BY <1>0, <1>3 DEF Persist, At, Edge
<1>4. CASE WebUndone(r)
  BY <1>0, <1>4 DEF WebUndone, At, Edge, RollbackAfterWeb, SwitchBack
<1>5. CASE \/ SwitchedBack(r) \/ RestartPreviousService(r)
           \/ RefreshInventory(r) \/ RegisterPHP(r) \/ ServiceStatus(r) \/ SetDefaultVersion(r)
  BY <1>0, <1>5 DEF SwitchedBack, RestartPreviousService, RefreshInventory, RegisterPHP,
                    ServiceStatus, SetDefaultVersion, Edge, At
<1> QED BY <1>1, <1>2, <1>3, <1>4, <1>5

LEMMA ServiceEdge ==
    ASSUME RegistryInv, NEW r \in Callers, ServiceStep(r)
    PROVE  Edge(r)
BY EdgesFirst, EdgesLater DEF ServiceStep

\* A service step of r is the step of the one request that runs.
LEMMA Alone ==
    ASSUME RegistryInv, SerialInv, NEW r \in Callers, Running(r)
    PROVE  \A q \in Callers \ {r} : ~Running(q)
BY DEF SerialInv

LEMMA ServiceMove ==
    ASSUME RegistryInv, SerialInv, NEW r \in Callers, ServiceStep(r)
    PROVE  \E l, x, res :
              /\ Placed(r, l, x, res) /\ Effect(r, l, x, res)
              /\ pc'[r] = l /\ loc'[r] = x /\ x.job = Job(r)
              /\ \A q \in Callers \ {r} : pc'[q] = pc[q] /\ loc'[q] = loc[q] /\ ~Running(q)
              /\ Running(r) /\ Job(r) \in Jobs
<1>1. Running(r)
  BY StepRuns
<1>2. PICK l, x, res : Move(r, l, x, res) /\ Placed(r, l, x, res) /\ Effect(r, l, x, res)
  BY ServiceSteps DEF RegistryInv, Places, Owned, AfterRegister, Steps
<1>3. /\ pc'[r] = l /\ loc'[r] = x
      /\ \A q \in Callers \ {r} : pc'[q] = pc[q] /\ loc'[q] = loc[q]
  BY <1>2, MoveTyped DEF RegistryInv
<1>4. x.job = Job(r)
  BY <1>1, <1>2 DEF Move, Running
<1> QED BY <1>1, <1>2, <1>3, <1>4, Alone, Holding

LEMMA SettledIs ==
    ASSUME NEW r \in Callers, \A q \in Callers \ {r} : ~Running(q)
    PROVE  Settled = IF Running(r) /\ Is(r, "activate") THEN {s \in sites : s.id # r} ELSE sites
BY DEF Settled, Activating

LEMMA AllSettled ==
    ASSUME Quiescent
    PROVE  Settled = sites
BY DEF Quiescent, Settled, Activating

LEMMA HoldService ==
    ASSUME RegistryInv, SerialInv, HoldInv, NEW r \in Callers, ServiceStep(r)
    PROVE  HoldInv'
<1>1. PICK l, x, res :
         /\ Placed(r, l, x, res) /\ Effect(r, l, x, res)
         /\ pc'[r] = l /\ loc'[r] = x /\ x.job = Job(r)
         /\ \A q \in Callers \ {r} : pc'[q] = pc[q] /\ loc'[q] = loc[q] /\ ~Running(q)
         /\ Running(r) /\ Job(r) \in Jobs
  BY ServiceMove
<1>2. Edge(r) /\ Holds(r)
  BY ServiceEdge DEF HoldInv
<1>3. ASSUME NEW q \in Callers \ {r} PROVE Holds(q)'
  <2>1. Placed(q, pc[q], loc[q], result[q])
    BY DEF RegistryInv, Places
  <2>2. pc[q] \in {"idle", "done", "dead"}
    BY <1>1 DEF Running
  <2>3. pc[q] # "done" => loc[q].job.op = "none"
    BY <2>1, <2>2, NoLocalsTyped DEF Placed
  <2> QED BY <1>1, <2>2, <2>3 DEF Holds, Edits, Is, Job, AfterRegister
<1>4. Holds(r)'
  <2>0. /\ Placed(r, pc[r], loc[r], result[r]) /\ loc[r] \in Locals
    BY Holding
  <2>1. CASE l = "done"
    BY <1>1, <2>1 DEF Holds, AfterRegister
  <2>2. CASE l # "done" /\ Edits(r)
    <3>1. Edits(r)' /\ ~Is(r, "activate")' /\ sites' = sites
      BY <1>1, <2>0, <2>2 DEF Edits, Is, Job, Effect, Registers, Deletes, Stores, Passes, Placed
    <3>2. pc[r] \notin {"get", "done"} => loc[r].current \in sites /\ loc[r].current \in SiteRecords
      BY <1>2, <2>0, <2>2 DEF Holds, Edits, Placed, Job
    <3>3. CASE x = loc[r] /\ pc[r] # "get" /\ l \notin {"prepare", "ensureStub", "persist"}
      BY <1>1, <3>1, <3>2, <3>3 DEF Holds, Running
    <3>4. CASE l = "prepare" /\ x.current \in sites
      BY <1>1, <3>1, <3>4 DEF Holds
    <3>5. CASE /\ pc[r] = "prepare" /\ l \in {"switchRuntime", "persist", "start"}
               /\ x = [loc[r] EXCEPT !.next = updatedSite(r), !.runtime = updatedSite(r).php]
               /\ l = "persist" => siteToWebSite(loc[r].current) = siteToWebSite(updatedSite(r))
      <4>1. x.current = loc[r].current /\ x.next = updatedSite(r)
        BY <2>0, <3>5 DEF Locals
      <4>2. updatedSite(r) \in SiteRecords /\ updatedSite(r).id = loc[r].current.id
        BY <1>1, <2>2, <3>2, <3>5, UpdatedIsSite DEF Edits
      <4>3. l = "persist" => updatedSite(r) = loc[r].current
        BY <3>2, <3>5, <4>2 DEF siteToWebSite, SiteRecords
      <4> QED BY <1>1, <3>1, <3>2, <3>5, <4>1, <4>3 DEF Holds
    <3>6. CASE pc[r] = "web" /\ l = "persist" /\ x = [loc[r] EXCEPT !.committedWeb = TRUE]
      <4>1. x.current = loc[r].current /\ x.committedWeb
        BY <2>0, <3>6 DEF Locals
      <4> QED BY <1>1, <3>1, <3>2, <3>6, <4>1 DEF Holds
    <3>7. pc[r] \notin {"resolve", "register", "ensureStub"}
      BY <2>0, <2>2 DEF Placed, Edits, Job
    <3> QED BY <1>1, <1>2, <2>2, <3>3, <3>4, <3>5, <3>6, <3>7 DEF Edge
  <2>3. CASE l # "done" /\ Is(r, "activate")
    <3>1. Is(r, "activate")' /\ ~Edits(r)'
      BY <1>1, <2>3 DEF Is, Edits, Job
    <3>2. l = "persist" => x.committedWeb
      BY <1>1, <2>3 DEF Placed, Is, Job
    <3>3. CASE l \in AfterRegister /\ pc[r] \in AfterRegister
      <4>1. x.next = loc[r].next
        BY <1>1, <1>2, <2>0, <2>3, <3>3 DEF Edge, Locals, AfterRegister
      <4>2. sites' = sites
        BY <1>1, <2>3, <3>3 DEF Effect, Registers, Deletes, Stores, Passes, AfterRegister
      <4> QED BY <1>1, <1>2, <2>3, <3>1, <3>2, <3>3, <4>1, <4>2 DEF Holds
    <3>4. CASE l \in AfterRegister /\ pc[r] \notin AfterRegister
      <4>1. Registers(r, l, x)
        BY <1>1, <2>3, <3>4 DEF Effect, Registers, Deletes, Stores, Passes, AfterRegister
      <4>2. x.next \in sites'
        BY <4>1 DEF Registers
      <4> QED BY <1>1, <3>1, <3>2, <4>2 DEF Holds
    <3>5. CASE l \notin AfterRegister
      BY <1>1, <3>1, <3>5 DEF Holds, AfterRegister
    <3> QED BY <3>3, <3>4, <3>5
  <2>4. CASE l # "done" /\ ~Edits(r) /\ ~Is(r, "activate")
    <3>1. Job(r).op \in {"onboard", "package", "default"}
      BY <1>1, <2>4, JobFields DEF Edits, Is
    <3>2. ~Edits(r)' /\ ~Is(r, "activate")' /\ l # "persist"
      BY <1>1, <2>4, <3>1 DEF Edits, Is, Job, Placed
    <3> QED BY <1>1, <3>2 DEF Holds
  <2> QED BY <2>1, <2>2, <2>3, <2>4
<1> QED BY <1>3, <1>4 DEF HoldInv

\* The settled sites change only when a request has stored its record.
LEMMA SettledService ==
    ASSUME FaultsAreUndone, Undisturbed, RegistryInv, SerialInv, HoldInv, NEW r \in Callers,
           ServiceStep(r)
    PROVE  \/ UNCHANGED Settled
           \/ pc[r] = "persist" /\ pc'[r] = "done" /\ Settled' = Done(r)
<1>1. PICK l, x, res :
         /\ Placed(r, l, x, res) /\ Effect(r, l, x, res)
         /\ pc'[r] = l /\ loc'[r] = x /\ x.job = Job(r)
         /\ \A q \in Callers \ {r} : pc'[q] = pc[q] /\ loc'[q] = loc[q] /\ ~Running(q)
         /\ Running(r) /\ Job(r) \in Jobs
  BY ServiceMove
<1>2. Settled = IF Is(r, "activate") THEN {s \in sites : s.id # r} ELSE sites
  BY <1>1, SettledIs
<1>3. Settled' = IF l \notin {"idle", "done", "dead"} /\ Is(r, "activate")
                 THEN {s \in sites' : s.id # r} ELSE sites'
  <2>1. \A i : Activating(i)' <=> i = r /\ l \notin {"idle", "done", "dead"} /\ Is(r, "activate")
    BY <1>1 DEF Activating, Running, Is, Job
  <2> QED BY <2>1 DEF Settled
<1>4. Placed(r, pc[r], loc[r], result[r]) /\ Distinct(sites) /\ Owned(r)
  BY DEF RegistryInv, Places
<1>5. CASE Registers(r, l, x)
  <2>1. Is(r, "activate") /\ ~HasSite(sites, r)
    BY <1>1, <1>4, <1>5, JobFields DEF Registers, Placed, Is, Job, Owned, AfterRegister
  <2>2. x.next.id = r
    BY <1>1, <1>5, <2>1 DEF Registers, Placed, Is, Job, AfterRegister
  <2> QED BY <1>2, <1>3, <1>5, <2>1, <2>2 DEF Registers
<1>6. CASE Deletes(r, l, res)
  <2>1. Is(r, "activate")
    BY <1>1, <1>4, <1>6, JobFields DEF Deletes, Placed, Is, Job
  <2>2. r \notin cancelled /\ "undo" \notin FaultKinds
    BY DEF RegistryInv, Undisturbed, FaultsAreUndone
  <2>3. sites' = {s \in sites : s.id # r}
    BY <1>4, <1>6, <2>2, DeleteLeaves DEF Deletes
  <2> QED BY <1>2, <1>3, <1>6, <2>1, <2>3 DEF Deletes
<1>7. CASE Stores(r, l, res)
  <2> DEFINE n == loc[r].next
  <2>1. sites' = {s \in sites : s.id # n.id} \cup {n}
    BY <1>4, <1>7, UpdateLeaves DEF Stores
  <2>2. Is(r, "activate") => n.id = r
    BY <1>4, <1>7 DEF Stores, Placed, Is, Job, AfterRegister
  <2>3. Done(r) = sites'
    BY <1>2, <2>1, <2>2 DEF Done
  <2> QED BY <1>1, <1>3, <1>7, <2>3 DEF Stores
<1>8. CASE Passes(r, l, x, res)
  <2>1. CASE Is(r, "activate") /\ l \in {"idle", "done", "dead"}
    <3>1. pc[r] \notin AfterRegister \cup {"done", "dead"}
      BY <1>1, <1>8, <2>1 DEF Passes, AfterRegister, Running
    <3>2. ~HasSite(sites, r)
      BY <1>4, <3>1 DEF Owned
    <3> QED BY <1>2, <1>3, <1>8, <2>1, <3>2 DEF Passes, HasSite
  <2> QED BY <1>2, <1>3, <1>8, <2>1 DEF Passes
<1> QED BY <1>1, <1>5, <1>6, <1>7, <1>8 DEF Effect

\* The other steps there are: a request begins, or the one that runs waits for
\* a manager.
Waits(r, labels) ==
    pc[r] \in labels /\ Running(r) /\ \A q \in Callers \ {r} : ~Running(q)

LEMMA NextIsOneOf ==
    ASSUME Undisturbed, RegistryInv, SerialInv, ManagersTyped, [Next]_vars
    PROVE  \/ \E r \in Callers, j \in Jobs : Begin(r, j)
           \/ \E r \in Callers : ServiceStep(r)
           \/ /\ UNCHANGED <<sites, pc, loc>>
              /\ \/ \E r \in Callers : /\ Waits(r, {"web", "undoWeb"})
                                       /\ WebP!Step(r) /\ UNCHANGED <<dns, php>>
                 \/ \E r \in Callers : /\ Waits(r, {"ensureStub", "undoStub"})
                                       /\ Dns!Step(r) /\ UNCHANGED <<web, php>>
                 \/ \E r \in Callers : /\ Waits(r, PhpWaits)
                                       /\ Php!Step(r) /\ UNCHANGED <<web, dns>>
                 \/ UNCHANGED <<web, dns, php, cancelled, faults>>
<1>0. ASSUME NEW r \in Callers, NEW labels, pc[r] \in labels, pc[r] \notin {"idle", "done", "dead"}
      PROVE  Waits(r, labels)
  BY <1>0, Alone DEF Waits, Running
<1>1. CASE \E r \in Callers : ManagerStep(r)
  <2>1. PICK r \in Callers : ManagerStep(r)
    BY <1>1
  <2>2. UNCHANGED <<sites, pc, loc>>
    BY <2>1 DEF ManagerStep, app
  <2>3. CASE Web!Step(r) /\ UNCHANGED <<dns, php>>
    <3>1. webCall[r].at # "idle"
      BY <2>3 DEF Web!Step, Web!ReadRoot, Web!ReadConfig, Web!WriteTemp,
         Web!Rename, Web!Remove, Web!Glob, Web!Validate, Web!Reload, Web!UndoReload
    <3> QED BY <1>0, <2>2, <2>3, <3>1, WebStepIs DEF ManagersTyped, CallsInOrder
  <2>4. CASE Dns!Step(r) /\ UNCHANGED <<web, php>>
    <3>1. dnsCall[r].at # "idle"
      BY <2>4 DEF Dns!Step, Dns!Inspect, Dns!WriteTemp, Dns!Rename, Dns!Read,
         Dns!Remove, Dns!Reload, Dns!UndoReload, Dns!Confirm
    <3> QED BY <1>0, <2>2, <2>4, <3>1 DEF ManagersTyped, CallsInOrder
  <2>5. CASE Php!Step(r) /\ UNCHANGED <<web, dns>>
    <3>1. phpCall[r].at # "idle"
      BY <2>5 DEF Php!Step, Php!ReadPool, Php!ReadOverride, Php!WriteTemp, Php!Rename,
         Php!Remove, Php!Check, Php!Restart, Php!UndoRestart, Php!RestartPrevious
    <3> QED BY <1>0, <2>2, <2>5, <3>1 DEF ManagersTyped, CallsInOrder, PhpWaits
  <2> QED BY <2>1, <2>3, <2>4, <2>5 DEF ManagerStep
<1>2. ~(\E r \in Callers : Disconnect(r)) /\ ~Crash
  BY DEF Undisturbed, Disconnect, Cancel, Crash
<1>3. CASE UNCHANGED vars
  BY <1>3 DEF vars, app
<1> QED BY <1>1, <1>2, <1>3 DEF Next, Step

\* A request that begins changes nothing but its own place.
LEMMA BeginIs ==
    ASSUME Undisturbed, RegistryInv, NEW r \in Callers, NEW j \in Jobs, Begin(r, j)
    PROVE  /\ Quiescent /\ UNCHANGED <<sites, web, dns, php, cancelled, faults>>
           /\ pc' = [pc EXCEPT ![r] = pc'[r]] /\ loc' = [loc EXCEPT ![r] = loc'[r]]
           /\ pc'[r] \in {"resolve", "get", "registerRuntime", "inventory", "setDefault"}
           /\ loc'[r].job = j /\ (j.op \in {"update", "switch"} => pc'[r] = "get")
           /\ UNCHANGED Settled
<1>0. LocalsTyped
  BY DEF RegistryInv
<1>1. /\ Quiescent /\ UNCHANGED <<sites, web, dns, php, cancelled, faults>> /\ pc[r] = "idle"
  BY DEF Begin, Undisturbed, Quiescent, At
<1>2. /\ pc' = [pc EXCEPT ![r] = pc'[r]] /\ loc' = [loc EXCEPT ![r] = loc'[r]]
      /\ pc'[r] \in {"resolve", "get", "registerRuntime", "inventory", "setDefault"}
      /\ loc'[r].job = j /\ (j.op \in {"update", "switch"} => pc'[r] = "get")
  <2>1. pc \in [Callers -> Labels] /\ loc \in [Callers -> Locals]
    BY <1>0 DEF LocalsTyped
  <2>2. pc'[r] \in {"resolve", "get", "registerRuntime", "inventory", "setDefault"}
        /\ (j.op \in {"update", "switch"} => pc'[r] = "get")
        /\ pc' = [pc EXCEPT ![r] = pc'[r]]
    BY <2>1, JobFields DEF Begin, Goto
  <2>3. loc' = [loc EXCEPT ![r] = loc'[r]] /\ loc'[r].job = j
    BY <2>1 DEF Begin, Set, NoLocals
  <2> QED BY <2>2, <2>3
<1>3. ~HasSite(sites, r)
  <2>1. Owned(r) /\ Placed(r, pc[r], loc[r], result[r])
    BY DEF RegistryInv, Places
  <2> QED BY <1>1, <2>1 DEF Owned, AfterRegister
<1>4. Settled = sites
  BY <1>1, AllSettled
<1>5. Settled' = {s \in sites : ~(s.id = r /\ j.op = "activate")}
  <2>1. \A i \in Callers : i # r => pc'[i] = pc[i] /\ ~Running(i)
    BY <1>0, <1>1, <1>2 DEF Quiescent, LocalsTyped
  <2>2. \A i : Activating(i)' <=> i = r /\ j.op = "activate"
    BY <1>2, <2>1 DEF Activating, Running, Is, Job
  <2> QED BY <1>1, <2>2 DEF Settled
<1> QED BY <1>1, <1>2, <1>3, <1>4, <1>5 DEF HasSite

LEMMA HoldKept ==
    ASSUME Undisturbed, RegistryInv, SerialInv, ManagersTyped, HoldInv, [Next]_vars
    PROVE  HoldInv'
<1>1. ASSUME NEW r \in Callers, NEW j \in Jobs, Begin(r, j)
      PROVE  HoldInv'
  <2>1. /\ UNCHANGED sites /\ loc'[r].job = j /\ (j.op \in {"update", "switch"} => pc'[r] = "get")
        /\ pc'[r] \in {"resolve", "get", "registerRuntime", "inventory", "setDefault"}
        /\ \A q \in Callers \ {r} : pc'[q] = pc[q] /\ loc'[q] = loc[q]
    BY <1>1, BeginIs DEF RegistryInv, LocalsTyped
  <2>2. Holds(r)'
    BY <2>1 DEF Holds, Edits, Is, Job, AfterRegister
  <2>3. \A q \in Callers \ {r} : Holds(q)'
    BY <2>1 DEF HoldInv, Holds, Edits, Is, Job
  <2> QED BY <2>2, <2>3 DEF HoldInv
<1>2. CASE UNCHANGED <<sites, pc, loc>>
  BY <1>2 DEF HoldInv, Holds, Edits, Is, Job
<1> QED BY <1>1, <1>2, NextIsOneOf, HoldService

LEMMA HoldInit ==
    ASSUME Init
    PROVE  HoldInv
BY NoLocalsTyped DEF Init, HoldInv, Holds, Edits, Is, Job, AfterRegister

-----------------------------------------------------------------------------
(* What Caddy has and serves.                                               *)

Matches(S) == caddyFiles = FilesOf(S) /\ live = {siteToWebSite(s) : s \in S}

\* A call of r in progress stands where Caddy_proofs says, and an undo that
\* follows a failure of the registry goes through.
WebHolds(r) ==
    /\ WebP!IInv /\ WebP!CallStands
    /\ WebP!Ahead(webCall[r], caddyFiles, FilesOf(WebFrom(r)), FilesOf(WebTo(r)))
    /\ pc[r] = "undoWeb" => WebP!Unfailing(webCall[r]) /\ ~(faults < MaxFaults)

WebPlaces == {"web", "persist", "undoWeb"}

\* Caddy has the settled sites, but for a request that is between its web
\* configuration and its record.
WebInv ==
    /\ (\A r \in Callers : pc[r] \notin WebPlaces) => Matches(Settled)
    /\ \A r \in Callers : pc[r] = "persist" => Matches(Done(r))
    /\ \A r \in Callers : AtWeb(r) => WebHolds(r)

LEMMA SitesApart ==
    ASSUME RegistryInv, SerialInv
    PROVE  Apart(sites) /\ Apart(Settled)
<1>1. sites \subseteq SiteRecords /\ Distinct(sites)
  BY DEF RegistryInv, RegistriesTyped
<1>2. \A s, t \in sites : s.domain = t.domain => s = t
  BY DEF SerialInv, NamesAreUnique, Collides
<1>3. Apart(sites)
  BY <1>1, <1>2 DEF Apart
<1>4. Settled \subseteq sites
  BY DEF Settled
<1>5. Apart(Settled)
  BY <1>3, <1>4 DEF Apart, Distinct
<1> QED BY <1>3, <1>5

LEMMA DoneApart ==
    ASSUME RegistryInv, SerialInv, NEW r \in Callers, loc[r].next \in SiteRecords
    PROVE  Apart(Done(r))
<1> DEFINE n == loc[r].next
<1>1. Apart(Settled) /\ Settled \subseteq sites
  BY SitesApart DEF Settled
<1>2. ~Collides({t \in sites : t.id # n.id}, n.root, n.domain)
  BY OrchestrationAssumption DEF SerialInv, Fresh
<1>3. \A t \in Settled : t.id # n.id => t.domain # n.domain
  BY <1>1, <1>2 DEF Collides
<1> HIDE DEF n
<1>4. n \in SiteRecords
  BY DEF n
<1>5. Apart({s \in Settled : s.id # n.id} \cup {n})
  BY <1>1, <1>3, <1>4 DEF Apart, Distinct
<1> QED BY <1>5 DEF Done, n

LEMMA NextIsSite ==
    ASSUME RegistryInv, NEW r \in Callers, pc[r] \in WebPlaces
    PROVE  loc[r].next \in SiteRecords
BY SharedJob DEF RegistryInv, Places, WebPlaces

\* The call in progress is that of r.
LEMMA WebCallerIs ==
    ASSUME NEW r \in Callers, AtWeb(r), \A q \in Callers \ {r} : ~Running(q)
    PROVE  WebCaller = r /\ WebBefore.by = r /\ WebBefore.files = FilesOf(WebFrom(r))
<1>1. \A q \in Callers : AtWeb(q) => q = r
  BY DEF AtWeb, Running
<1>2. WebCaller = r
  BY <1>1 DEF WebCaller
<1> QED BY <1>2 DEF WebBefore

LEMMA WebStepHolds ==
    ASSUME FaultsAreUndone, Undisturbed, RegistryInv, SerialInv, WebInv, NEW r \in Callers,
           Waits(r, {"web", "undoWeb"}), WebP!Step(r), UNCHANGED <<sites, pc, loc>>
    PROVE  WebInv'
<1>1. AtWeb(r) /\ WebHolds(r) /\ \A q \in Callers : q # r => pc[q] \notin WebPlaces
  BY DEF Waits, AtWeb, WebInv, WebPlaces, Running
<1>2. WebBefore.files = FilesOf(WebFrom(r)) /\ UNCHANGED WebBefore /\ UNCHANGED Settled
  BY <1>1, WebCallerIs, UnchangedBefore DEF Waits
<1>3. WebP!UndosWork
  BY DEF WebP!UndosWork, FaultsAreUndone
<1>4. WebP!IInv'
  <2>1. WebP!Next
    BY DEF WebP!Next, WebP!Serve
  <2> QED BY <1>1, <2>1, WebAssumptions, WebP!IInvStep DEF WebHolds
<1>5. WebP!CallStands'
  BY <1>1, <1>2, <1>3, WebAssumptions, WebP!StepStands DEF WebHolds
<1> DEFINE t == FilesOf(WebTo(r))
<1>6. WebP!Ahead(webCall'[r], caddyFiles', FilesOf(WebFrom(r)), t)
  <2>1. WebP!Ahead(webCall[r], caddyFiles, WebBefore.files, t)
    BY <1>1, <1>2 DEF WebHolds
  <2> HIDE DEF t
  <2>2. WebP!Ahead(webCall'[r], caddyFiles', WebBefore.files, t)
    BY <1>1, <1>3, <2>1, WebAssumptions, WebP!AheadStep DEF WebHolds
  <2> QED BY <1>2, <2>2
<1>7. pc[r] = "undoWeb" => WebP!Unfailing(webCall'[r]) /\ ~(faults' < MaxFaults)
  <2> SUFFICES ASSUME pc[r] = "undoWeb"
               PROVE  WebP!Unfailing(webCall'[r]) /\ UNCHANGED faults
    BY <1>1 DEF WebHolds
  <2>1. WebP!Ahead(webCall[r], caddyFiles, WebBefore.files, t)
    BY <1>1, <1>2 DEF WebHolds
  <2>2. WebP!Adapts(t)
    BY SitesApart, ServedOf DEF WebTo
  <2>3. r \notin Cancellable /\ r \notin cancelled
    BY DEF Undisturbed, RegistryInv
  <2> HIDE DEF t
  <2> QED BY <1>1, <2>1, <2>2, <2>3, WebAssumptions, WebP!UnfailingStep DEF WebHolds
<1>8. UNCHANGED <<WebFrom(r), WebTo(r)>>
  BY <1>2 DEF WebFrom, WebTo, Done
<1>9. WebHolds(r)'
  BY <1>4, <1>5, <1>6, <1>7, <1>8 DEF WebHolds
<1> QED BY <1>1, <1>9 DEF WebInv, AtWeb, WebPlaces

\* When the call of r has returned.
LEMMA WebReturned ==
    ASSUME RegistryInv, SerialInv, Undisturbed, WebInv, NEW r \in Callers, AtWeb(r), Running(r),
           webCall[r].at = "returned"
    PROVE  /\ webCall[r].result = "ok" => Matches(WebTo(r))
           /\ webCall[r].result = "err" => Matches(WebFrom(r))
           /\ pc[r] = "undoWeb" => webCall[r].result = "ok"
<1>1. WebHolds(r)
  BY DEF WebInv
<1>2. WebBefore.by = r /\ WebBefore.files = FilesOf(WebFrom(r)) /\ WebBefore.inSync
  BY WebCallerIs, Alone DEF WebBefore
<1>3. live = WebP!Served(caddyFiles)
  <2>1. r \notin cancelled
    BY DEF RegistryInv, Undisturbed
  <2>2. WebP!Answered(r)
    BY <1>2 DEF WebP!Answered
  <2> QED BY <1>1, <1>2, <2>1, <2>2 DEF WebHolds, WebP!CallStands
<1>4. Apart(WebTo(r)) /\ Apart(WebFrom(r))
  BY SitesApart, DoneApart, NextIsSite DEF WebTo, WebFrom, AtWeb, WebPlaces
<1>5. webCall[r].result = "ok" => Matches(WebTo(r))
  <2>1. webCall[r].result = "ok" => caddyFiles = FilesOf(WebTo(r))
    BY <1>1 DEF WebHolds, WebP!Ahead, WebP!Advances
  <2> QED BY <1>3, <1>4, <2>1, ServedOf DEF Matches
<1>6. webCall[r].result = "err" => Matches(WebFrom(r))
  <2> SUFFICES ASSUME webCall[r].result = "err" PROVE caddyFiles = FilesOf(WebFrom(r))
    BY <1>3, <1>4, ServedOf DEF Matches
  <2>1. WebP!Stands(webCall[r], caddyFiles, WebBefore.files)
    BY <1>1, <1>2 DEF WebHolds, WebP!CallStands
  <2>2. WebP!Same(caddyFiles, WebBefore.files, {})
    BY <2>1 DEF WebP!Stands
  <2>3. /\ caddyFiles \in [WebP!Paths -> WebP!Anything]
        /\ WebBefore.files \in [WebP!Paths -> WebP!Anything]
    BY <1>1 DEF WebHolds, WebP!CallStands, WebP!IInv, WebP!Types
  <2>4. caddyFiles = WebBefore.files
    BY <2>2, <2>3, WebAssumptions, WebP!SameIsEqual
  <2> QED BY <1>2, <2>4
<1> QED BY <1>1, <1>5, <1>6 DEF WebHolds, WebP!Unfailing

\* A call of r begins, and the other requests have none.
LEMMA WebBegins ==
    ASSUME RegistryInv, SerialInv, RegistryInv', SerialInv', ManagersTyped', NEW r \in Callers,
           AtWeb(r)', NEW g, Web!To(r, g), webCall \in [Callers -> WebP!Frames],
           g.at = "readRoot", ~g.rootChanged, ~g.reloadAgain, g.op \in {"activate", "remove"},
           g.op = "activate" => g.want # Absent,
           g.op = "remove" => FilesOf(WebFrom(r)')[g.id] \notin {Absent, Foreign},
           FilesOf(WebTo(r)') = WebP!Target(g.op, g.id, g.want, FilesOf(WebFrom(r)')),
           caddyFiles' = FilesOf(WebFrom(r)'), live' = {siteToWebSite(s) : s \in WebFrom(r)'},
           Apart(WebFrom(r)'),
           pc'[r] = "undoWeb" => ~(faults' < MaxFaults)
    PROVE  WebHolds(r)'
<1> DEFINE b == FilesOf(WebFrom(r)')
           t == FilesOf(WebTo(r)')
<1>1. webCall'[r] = g
  BY DEF Web!To
<1>2. \A q \in Callers \ {r} : webCall'[q].at = "idle" /\ ~AtWeb(q)'
  BY DEF ManagersTyped, CallsInOrder, AtWeb, SerialInv, Running
<1>3. WebP!CaddyTyped'
  BY DEF ManagersTyped
<1>4. WebP!IInv'
  <2>1. WebP!Good(caddyFiles'[Root])
    BY RootOf
  <2> QED BY <1>1, <1>2, <1>3, <2>1, WebAssumptions, WebP!BegunIInv
<1>5. WebP!CallStands'
  <2>1. WebCaller' = r
    BY <1>2 DEF WebCaller
  <2>2. WebBefore'.by = r /\ WebBefore'.files = caddyFiles' /\ WebBefore'.inSync
    BY <2>1 DEF WebBefore
  <2>3. WebP!Adapts(caddyFiles') /\ live' = WebP!Served(caddyFiles')
    BY ServedOf
  <2> QED BY <1>1, <1>2, <1>3, <2>2, <2>3, WebAssumptions, WebP!BegunStands
<1>6. WebP!Ahead(g, caddyFiles', b, t)
  <2> HIDE DEF b, t
  <2>1. g.op = "remove" => b[g.id] \notin {Absent, Foreign}
    BY DEF b
  <2>2. t = WebP!Target(g.op, g.id, g.want, b)
    BY DEF b, t
  <2> QED BY <2>1, <2>2 DEF WebP!Ahead, WebP!Aims, WebP!Advances, WebP!Writes
<1>7. WebP!Unfailing(g)
  BY DEF WebP!Unfailing, WebP!Writes
<1> QED BY <1>1, <1>4, <1>5, <1>6, <1>7 DEF WebHolds

\* The service steps around the web configuration.
WebEdge(r) ==
    \/ pc[r] \notin WebPlaces /\ pc'[r] \notin WebPlaces
    \/ pc[r] = "prepare" /\ pc'[r] = "persist"
    \/ /\ pc[r] \notin WebPlaces /\ pc'[r] = "web" /\ loc'[r] = loc[r]
       /\ Web!ActivateSite(r, loc[r].next.id, siteToWebSite(loc[r].next))
    \/ /\ pc[r] = "web" /\ webCall[r].at = "returned" /\ webCall[r].result = "ok"
       /\ pc'[r] = "persist" /\ loc'[r] = [loc[r] EXCEPT !.committedWeb = TRUE]
    \/ /\ pc[r] = "web" /\ webCall[r].at = "returned" /\ webCall[r].result = "err"
       /\ pc'[r] \notin WebPlaces
    \/ /\ pc[r] = "persist" /\ pc'[r] = "done"
       /\ \/ ~loc[r].committedWeb /\ UNCHANGED sites
          \/ Update(sites, loc[r].next).save /\ sites' = Update(sites, loc[r].next).next
    \/ /\ pc[r] = "persist" /\ pc'[r] = "undoWeb" /\ loc'[r] = loc[r]
       /\ StoreFails(r, "store") \/ ~Update(sites, loc[r].next).save
       /\ IF Is(r, "activate") THEN Web!RemoveSite(r, r)
          ELSE Web!ActivateSite(r, loc[r].current.id, siteToWebSite(loc[r].current))
    \/ pc[r] = "undoWeb" /\ webCall[r].at = "returned" /\ pc'[r] \notin WebPlaces

LEMMA WebEdges ==
    ASSUME RegistryInv, NEW r \in Callers, ServiceStep(r)
    PROVE  WebEdge(r)
<1> USE FinishIsDone DEF WebPlaces
<1>0. LocalsTyped /\ Placed(r, pc[r], loc[r], result[r])
  BY DEF RegistryInv, Places
<1>1. CASE Resolve(r) \/ RegisterSite(r) \/ StubEnsured(r) \/ UndoList(r) \/ StubRemoved(r)
           \/ UndoRecord(r) \/ GetSite(r)
  BY <1>0, <1>1 DEF Resolve, RegisterSite, StubEnsured, UndoList, StubRemoved, UndoRecord, GetSite,
                    At, RollbackAfterWeb, WebEdge
<1>2. CASE Prepare(r)
  BY <1>0, <1>2 DEF Prepare, At, WebEdge
<1>3. CASE RuntimeReady(r)
  BY <1>0, <1>3 DEF RuntimeReady, RollbackAfterWeb, WebEdge
<1>4. CASE StartServices(r)
  BY <1>0, <1>4, AbortEdge DEF StartServices, At, WebEdge
<1>5. CASE WebActivated(r)
  BY <1>0, <1>5, AbortEdge DEF WebActivated, At, WebEdge, Web!Collect
<1>6. CASE Persist(r)
  BY <1>0, <1>6 DEF Persist, At, WebEdge
<1>7. CASE WebUndone(r)
  BY <1>0, <1>7 DEF WebUndone, At, WebEdge, RollbackAfterWeb, SwitchBack, Web!Collect
<1>8. CASE SwitchedBack(r) \/ RestartPreviousService(r) \/ RefreshInventory(r) \/ RegisterPHP(r)
           \/ ServiceStatus(r) \/ SetDefaultVersion(r)
  BY <1>0, <1>8 DEF SwitchedBack, RestartPreviousService, RefreshInventory, RegisterPHP,
                    ServiceStatus, SetDefaultVersion, At, WebEdge
<1> QED BY <1>1, <1>2, <1>3, <1>4, <1>5, <1>6, <1>7, <1>8 DEF ServiceStep

\* A request that stores a record without having changed the web configuration
\* stores the one that is registered.
LEMMA PreparedUnchanged ==
    ASSUME RegistryInv, SerialInv, HoldInv, NEW r \in Callers, ServiceStep(r),
           pc[r] = "prepare", pc'[r] = "persist"
    PROVE  loc'[r].next \in sites' /\ UNCHANGED sites /\ Edits(r)
<1>1. PICK l, x, res :
         /\ Placed(r, l, x, res) /\ Effect(r, l, x, res)
         /\ pc'[r] = l /\ loc'[r] = x /\ x.job = Job(r)
         /\ \A q \in Callers \ {r} : pc'[q] = pc[q] /\ loc'[q] = loc[q] /\ ~Running(q)
         /\ Running(r) /\ Job(r) \in Jobs
  BY ServiceMove
<1>2. Edge(r) /\ Holds(r) /\ Placed(r, pc[r], loc[r], result[r]) /\ loc[r] \in Locals
  BY ServiceEdge, Holding DEF HoldInv
<1>3. Edits(r) /\ loc[r].current \in sites /\ loc[r].current \in SiteRecords
  BY <1>1, <1>2, JobFields DEF Placed, Edits, Holds, Job, AfterRegister
<1>4. /\ x = [loc[r] EXCEPT !.next = updatedSite(r), !.runtime = updatedSite(r).php]
      /\ siteToWebSite(loc[r].current) = siteToWebSite(updatedSite(r))
  BY <1>1, <1>2 DEF Edge
<1>5. x.next = updatedSite(r)
  BY <1>2, <1>4 DEF Locals
<1>6. updatedSite(r) \in SiteRecords /\ updatedSite(r).id = loc[r].current.id
  BY <1>1, <1>3, UpdatedIsSite DEF Edits
<1>7. updatedSite(r) = loc[r].current
  BY <1>3, <1>4, <1>6 DEF siteToWebSite, SiteRecords
<1>8. UNCHANGED sites
  BY <1>1 DEF Effect, Registers, Deletes, Stores, Passes
<1> QED BY <1>1, <1>3, <1>5, <1>7, <1>8

\* Storing a record that is already settled changes nothing.
LEMMA DoneAlready ==
    ASSUME NEW S, Distinct(S), NEW n \in S
    PROVE  {s \in S : s.id # n.id} \cup {n} = S
BY DEF Distinct

LEMMA WebService ==
    ASSUME FaultsAreUndone, Undisturbed, OperatorBlocks # {}, RegistryInv, SerialInv, HoldInv,
           ManagersTyped, RegistryInv', SerialInv', ManagersTyped', HoldInv', WebInv,
           NEW r \in Callers, ServiceStep(r)
    PROVE  WebInv'
<1>1. PICK l, x, res :
         /\ Placed(r, l, x, res) /\ Effect(r, l, x, res)
         /\ pc'[r] = l /\ loc'[r] = x /\ x.job = Job(r)
         /\ \A q \in Callers \ {r} : pc'[q] = pc[q] /\ loc'[q] = loc[q] /\ ~Running(q)
         /\ Running(r) /\ Job(r) \in Jobs
  BY ServiceMove
<1>2. WebEdge(r) /\ Placed(r, pc[r], loc[r], result[r]) /\ loc[r] \in Locals /\ Holds(r)
  BY WebEdges, Holding DEF HoldInv
<1>3. UNCHANGED <<caddyFiles, live>> /\ Counted
  BY ServiceUses DEF RegistryInv, Places, Uses, FilesStay
<1>4. \A q \in Callers \ {r} : pc[q] \notin WebPlaces /\ pc'[q] \notin WebPlaces
  BY <1>1 DEF Running, WebPlaces
<1>5. \/ UNCHANGED Settled
      \/ pc[r] = "persist" /\ pc'[r] = "done" /\ Settled' = Done(r)
  BY SettledService
<1>6. /\ pc[r] \notin WebPlaces => Matches(Settled)
      /\ pc[r] = "persist" => Matches(Done(r))
      /\ AtWeb(r) => WebHolds(r)
  BY <1>4 DEF WebInv
<1>7. /\ pc'[r] \notin WebPlaces /\ Matches(Settled)' => WebInv'
      /\ pc'[r] = "persist" /\ Matches(Done(r))' => WebInv'
      /\ AtWeb(r)' /\ WebHolds(r)' => WebInv'
  BY <1>4 DEF WebInv, AtWeb, WebPlaces
<1>8. \A S : Matches(S) => caddyFiles' = FilesOf(S) /\ live' = {siteToWebSite(s) : s \in S}
  BY <1>3 DEF Matches
<1>a. Apart(sites) /\ Apart(Settled) /\ Distinct(sites) /\ Distinct(Settled)
  BY SitesApart DEF Apart
<1>b. r \notin cancelled
  BY DEF RegistryInv, Undisturbed
<1>9. CASE pc[r] \notin WebPlaces /\ pc'[r] \notin WebPlaces
  <2>1. UNCHANGED Settled
    BY <1>5, <1>9 DEF WebPlaces
  <2> QED BY <1>6, <1>7, <1>8, <1>9, <2>1 DEF Matches
<1>10. CASE pc[r] = "prepare" /\ pc'[r] = "persist"
  <2>1. loc'[r].next \in sites' /\ UNCHANGED sites /\ Edits(r)
    BY <1>10, PreparedUnchanged
  <2>2. UNCHANGED Settled /\ Settled = sites
    BY <1>1, <1>5, <1>10, <2>1, SettledIs DEF Edits, Is
  <2>3. Done(r)' = Settled
    BY <1>a, <2>1, <2>2, DoneAlready DEF Done
  <2> QED BY <1>6, <1>7, <1>8, <1>10, <2>3 DEF Matches, WebPlaces
<1>11. CASE /\ pc[r] \notin WebPlaces /\ pc'[r] = "web" /\ loc'[r] = loc[r]
            /\ Web!ActivateSite(r, loc[r].next.id, siteToWebSite(loc[r].next))
  <2> DEFINE n == loc[r].next
             g == [Web!Idle EXCEPT !.at = "readRoot", !.op = "activate", !.id = n.id,
                                   !.want = siteToWebSite(n)]
  <2>1. UNCHANGED Settled
    BY <1>5, <1>11
  <2>2. n \in SiteRecords /\ Apart(Done(r))
    BY <1>1, <1>11, DoneApart, JobFields DEF Placed, AfterRegister
  <2>3. Done(r)' = Done(r) /\ Done(r) = {s \in Settled : s.id # n.id} \cup {n}
    BY <1>11, <2>1 DEF Done
  <2>4. WebFrom(r)' = Settled /\ WebTo(r)' = Done(r)' /\ AtWeb(r)'
    BY <1>11, <2>1 DEF WebFrom, WebTo, AtWeb
  <2>5. WebP!Target("activate", n.id, siteToWebSite(n), FilesOf(Settled)) = FilesOf(Done(r)')
    BY <1>a, <2>2, <2>3, AddedFiles
  <2>6. siteToWebSite(n) # Absent
    BY <2>2, WebSite, WebAssumptions DEF WebP!CaddyAssumption
  <2>7. /\ g.at = "readRoot" /\ ~g.rootChanged /\ ~g.reloadAgain /\ g.op = "activate"
        /\ g.id = n.id /\ g.want = siteToWebSite(n)
    BY DEF Web!Idle
  <2>8. Web!To(r, g)
    BY <1>11 DEF Web!ActivateSite
  <2>9. webCall \in [Callers -> WebP!Frames]
    BY FramesAre
  <2> HIDE DEF g, n
  <2>10. WebHolds(r)'
    BY <1>6, <1>8, <1>a, <1>11, <2>4, <2>5, <2>6, <2>7, <2>8, <2>9, WebBegins
  <2> QED BY <1>7, <2>4, <2>10
<1>12. CASE /\ pc[r] = "web" /\ webCall[r].at = "returned" /\ webCall[r].result = "ok"
            /\ pc'[r] = "persist" /\ loc'[r] = [loc[r] EXCEPT !.committedWeb = TRUE]
  <2>1. Matches(Done(r))
    BY <1>1, <1>12, WebReturned DEF AtWeb, WebTo
  <2>2. UNCHANGED Settled /\ loc'[r].next = loc[r].next
    BY <1>2, <1>5, <1>12 DEF Locals
  <2>3. Done(r)' = Done(r)
    BY <2>2 DEF Done
  <2> QED BY <1>7, <1>8, <1>12, <2>1, <2>3 DEF Matches
<1>13. CASE /\ AtWeb(r) /\ webCall[r].at = "returned" /\ pc'[r] \notin WebPlaces
            /\ pc[r] = "web" => webCall[r].result = "err"
  <2>1. Matches(Settled)
    BY <1>1, <1>13, WebReturned DEF AtWeb, WebFrom, WebTo
  <2>2. UNCHANGED Settled
    BY <1>5, <1>13 DEF AtWeb
  <2> QED BY <1>7, <1>8, <1>13, <2>1, <2>2 DEF Matches
<1>14. CASE /\ pc[r] = "persist" /\ pc'[r] = "done"
            /\ \/ ~loc[r].committedWeb /\ UNCHANGED sites
               \/ Update(sites, loc[r].next).save /\ sites' = Update(sites, loc[r].next).next
  <2>1. Settled' = sites'
    <3>1. Quiescent'
      BY <1>1, <1>14 DEF Quiescent, Running
    <3> QED BY <3>1 DEF Settled, Activating, Quiescent
  <2>2. Settled = IF Is(r, "activate") THEN {s \in sites : s.id # r} ELSE sites
    BY <1>1, SettledIs
  <2>3. Settled' = Done(r)
    <3>1. CASE ~loc[r].committedWeb /\ UNCHANGED sites
      <4>1. Edits(r) /\ loc[r].next \in sites
        BY <1>1, <1>2, <1>14, <3>1, JobFields DEF Placed, Edits, Holds, Job
      <4> QED BY <1>a, <2>1, <2>2, <3>1, <4>1, DoneAlready DEF Done, Edits, Is
    <3>2. CASE Update(sites, loc[r].next).save /\ sites' = Update(sites, loc[r].next).next
      <4> DEFINE n == loc[r].next
      <4>1. sites' = {s \in sites : s.id # n.id} \cup {n}
        <5>1. HasSite(sites, n.id)
          BY <3>2 DEF Update, Outcome
        <5> QED BY <3>2, <5>1, UpdateLeaves DEF RegistryInv
      <4>2. Is(r, "activate") => n.id = r
        BY <1>2, <1>14 DEF Placed, Is, Job, AfterRegister
      <4> QED BY <2>1, <2>2, <4>1, <4>2 DEF Done
    <3> QED BY <1>14, <3>1, <3>2
  <2> QED BY <1>6, <1>7, <1>8, <1>14, <2>3 DEF Matches, WebPlaces
<1>15. CASE /\ pc[r] = "persist" /\ pc'[r] = "undoWeb" /\ loc'[r] = loc[r]
            /\ StoreFails(r, "store") \/ ~Update(sites, loc[r].next).save
            /\ IF Is(r, "activate") THEN Web!RemoveSite(r, r)
               ELSE Web!ActivateSite(r, loc[r].current.id, siteToWebSite(loc[r].current))
  <2> DEFINE n == loc[r].next
             s0 == loc[r].current
  <2>1. UNCHANGED Settled /\ UNCHANGED sites
    BY <1>1, <1>5, <1>15 DEF Effect, Registers, Deletes, Stores, Passes
  <2>2. n \in SiteRecords /\ Apart(Done(r))
    BY <1>15, DoneApart, NextIsSite DEF WebPlaces
  <2>3. Done(r)' = Done(r) /\ Done(r) = {s \in Settled : s.id # n.id} \cup {n}
    BY <1>15, <2>1 DEF Done
  <2>4. WebFrom(r)' = Done(r) /\ WebTo(r)' = Settled /\ AtWeb(r)'
    BY <1>15, <2>1, <2>3 DEF WebFrom, WebTo, AtWeb
  <2>5. Settled = IF Is(r, "activate") THEN {s \in sites : s.id # r} ELSE sites
    BY <1>1, SettledIs
  <2>6. ~(faults' < MaxFaults)
    <3>1. HasSite(sites, n.id)
      <4>1. CASE Is(r, "activate")
        BY <1>2, <1>15, <4>1 DEF Holds, AfterRegister, HasSite
      <4>2. CASE Edits(r)
        BY <1>2, <1>15, <4>2 DEF Holds, Placed, Edits, Job, HasSite
      <4> QED BY <1>1, <1>2, <1>15, <4>1, <4>2, JobFields DEF Edits, Is, Placed, Job
    <3>2. Fails("store")
      BY <1>b, <1>15, <3>1 DEF StoreFails, Update, Outcome
    <3> QED BY <3>2, HostAssumption DEF Fails, FaultsAreUndone, HostAssumption, ManagersTyped,
                                        WebP!CaddyTyped, WebP!HostTyped
  <2>7. CASE Is(r, "activate")
    <3> DEFINE g == [Web!Idle EXCEPT !.at = "readRoot", !.op = "remove", !.id = r]
    <3>1. n.id = r /\ n \in Done(r) /\ r \in SiteIds
      BY <1>2, <1>15, <2>3, <2>7, Holding DEF Placed, Is, Job, AfterRegister
    <3>2. Settled = {s \in Done(r) : s.id # n.id}
      BY <2>3, <2>5, <2>7, <3>1
    <3>3. \A w : WebP!Target("remove", n.id, w, FilesOf(Done(r))) = FilesOf(Settled)
      <4> TAKE w
      <4> DEFINE S == Done(r)
      <4>1. Apart(S) /\ n \in S /\ Settled = {s \in S : s.id # n.id} /\ Apart(Settled)
        BY <1>a, <2>2, <3>1, <3>2
      <4> HIDE DEF S, n
      <4>2. WebP!Target("remove", n.id, w, FilesOf(S)) = FilesOf(Settled)
        BY <4>1, RemovedFiles
      <4> QED BY <4>2 DEF S
    <3>4. FilesOf(Done(r))[r] \notin {Absent, Foreign}
      <4>1. FilesOf(Done(r))[r] = siteToWebSite(n)
        BY <2>2, <3>1, FilesOfIs
      <4> QED BY <2>2, <4>1, WebSite, WebAssumptions DEF WebP!CaddyAssumption
    <3>5. g.at = "readRoot" /\ ~g.rootChanged /\ ~g.reloadAgain /\ g.op = "remove" /\ g.id = r
      BY DEF Web!Idle
    <3>6. Web!To(r, g) /\ webCall \in [Callers -> WebP!Frames]
      BY <1>15, <2>7, FramesAre DEF Web!RemoveSite
    <3> HIDE DEF g
    <3>7. WebHolds(r)'
      BY <1>6, <1>8, <1>15, <2>2, <2>4, <2>6, <3>1, <3>3, <3>4, <3>5, <3>6, WebBegins
    <3> QED BY <1>7, <2>4, <3>7
  <2>8. CASE ~Is(r, "activate")
    <3> DEFINE g == [Web!Idle EXCEPT !.at = "readRoot", !.op = "activate", !.id = s0.id,
                                     !.want = siteToWebSite(s0)]
    <3>1. s0 \in SiteRecords /\ n.id = s0.id /\ s0 \in sites
      BY <1>1, <1>2, <1>15, <2>8, JobFields DEF Placed, Is, Job, Holds, Edits
    <3>2. Settled = {s \in Done(r) : s.id # s0.id} \cup {s0}
      BY <1>a, <2>3, <2>5, <2>8, <3>1 DEF Distinct
    <3>3. WebP!Target("activate", s0.id, siteToWebSite(s0), FilesOf(Done(r))) = FilesOf(Settled)
      BY <1>a, <2>2, <3>1, <3>2, AddedFiles
    <3>4. siteToWebSite(s0) # Absent
      BY <3>1, WebSite, WebAssumptions DEF WebP!CaddyAssumption
    <3>5. /\ g.at = "readRoot" /\ ~g.rootChanged /\ ~g.reloadAgain /\ g.op = "activate"
          /\ g.id = s0.id /\ g.want = siteToWebSite(s0)
      BY DEF Web!Idle
    <3>6. Web!To(r, g) /\ webCall \in [Callers -> WebP!Frames]
      BY <1>15, <2>8, FramesAre DEF Web!ActivateSite
    <3> HIDE DEF g, s0
    <3>7. WebHolds(r)'
      BY <1>6, <1>8, <1>15, <2>2, <2>4, <2>6, <3>3, <3>4, <3>5, <3>6, WebBegins
    <3> QED BY <1>7, <2>4, <3>7
  <2> QED BY <2>7, <2>8
<1> QED BY <1>2, <1>9, <1>10, <1>11, <1>12, <1>13, <1>14, <1>15 DEF WebEdge, AtWeb

LEMMA WebKept ==
    ASSUME FaultsAreUndone, Undisturbed, OperatorBlocks # {}, RegistryInv, SerialInv, HoldInv,
           ManagersTyped, RegistryInv', SerialInv', ManagersTyped', HoldInv', WebInv, [Next]_vars
    PROVE  WebInv'
<1>1. ASSUME NEW r \in Callers, NEW j \in Jobs, Begin(r, j)
      PROVE  WebInv'
  <2>1. /\ UNCHANGED <<caddyFiles, live, Settled>> /\ Quiescent
        /\ pc'[r] \in {"resolve", "get", "registerRuntime", "inventory", "setDefault"}
        /\ \A q \in Callers \ {r} : pc'[q] = pc[q]
    BY <1>1, BeginIs DEF web, RegistryInv, LocalsTyped
  <2>2. \A q \in Callers : pc[q] \notin WebPlaces /\ pc'[q] \notin WebPlaces
    BY <2>1 DEF Quiescent, Running, WebPlaces
  <2> QED BY <2>1, <2>2 DEF WebInv, AtWeb, WebPlaces, Matches
<1>2. ASSUME NEW r \in Callers, Waits(r, {"ensureStub", "undoStub"} \cup PhpWaits),
             UNCHANGED <<sites, pc, loc>>, UNCHANGED web
      PROVE  WebInv'
  <2>1. \A q \in Callers : pc[q] \notin WebPlaces /\ pc'[q] \notin WebPlaces
    BY <1>2 DEF Waits, Running, WebPlaces, PhpWaits
  <2>2. UNCHANGED <<caddyFiles, live, Settled>>
    BY <1>2, UnchangedBefore DEF web
  <2> QED BY <2>1, <2>2 DEF WebInv, AtWeb, WebPlaces, Matches
<1>3. CASE UNCHANGED <<sites, pc, loc, web, cancelled, faults>>
  <2>1. UNCHANGED Settled /\ UNCHANGED WebBefore /\ UNCHANGED <<caddyFiles, caddyTemp, live, webCall>>
    BY <1>3, UnchangedBefore DEF web
  <2>2. \A r \in Callers : Done(r)' = Done(r) /\ WebFrom(r)' = WebFrom(r) /\ WebTo(r)' = WebTo(r)
    BY <1>3, <2>1 DEF Done, WebFrom, WebTo
  <2>3. ASSUME WebP!IInv, WebP!CallStands PROVE WebP!IInv' /\ WebP!CallStands'
    <3>1. WebP!IInv'
      BY <2>1, <2>3, WebAssumptions, WebP!Stuttering
    <3>2. WebP!CallStands'
      BY <1>3, <2>1, <2>3 DEF WebP!CallStands, WebP!InProgress, WebP!Answered
    <3> QED BY <3>1, <3>2
  <2>4. ASSUME NEW r \in Callers, WebHolds(r) PROVE WebHolds(r)'
    BY <1>3, <2>1, <2>2, <2>3, <2>4 DEF WebHolds
  <2> QED BY <1>3, <2>1, <2>2, <2>4 DEF WebInv, AtWeb, Matches
<1>4. ASSUME NEW r \in Callers, Waits(r, {"ensureStub", "undoStub"}) \/ Waits(r, PhpWaits)
      PROVE  Waits(r, {"ensureStub", "undoStub"} \cup PhpWaits)
  BY <1>4 DEF Waits
<1>5. CASE UNCHANGED <<web, dns, php, cancelled, faults>> /\ UNCHANGED <<sites, pc, loc>>
  BY <1>3, <1>5
<1> QED BY <1>1, <1>2, <1>4, <1>5, NextIsOneOf, WebService, WebStepHolds

LEMMA WebInit ==
    ASSUME Init
    PROVE  WebInv
<1>1. \A r \in Callers : pc[r] = "idle"
  BY DEF Init
<1>2. Settled = sites
  BY <1>1, AllSettled DEF Quiescent, Running
<1>3. Matches(sites)
  BY DEF Init, Matches
<1> QED BY <1>1, <1>2, <1>3 DEF WebInv, AtWeb

LEMMA WebAlways ==
    ASSUME Undisturbed, FaultsAreUndone, OperatorBlocks # {}
    PROVE  Spec => [](HoldInv /\ WebInv)
<1>1. Init => HoldInv /\ WebInv
  BY HoldInit, WebInit
<1>2. /\ RegistryInv /\ SerialInv /\ ManagersTyped /\ HoldInv /\ WebInv /\ [Next]_vars
      /\ RegistryInv' /\ SerialInv' /\ ManagersTyped'
      => HoldInv' /\ WebInv'
  BY HoldKept, WebKept
<1>3. Spec => []SerialInv
  BY SerialAlways DEF Undisturbed
<1> QED BY <1>1, <1>2, <1>3, RegistryAlways, ManagersAlwaysTyped, PTL DEF Spec

LEMMA SettledIsServed ==
    ASSUME RegistryInv, SerialInv, WebInv, Quiescent
    PROVE  /\ caddyFiles = FilesOf(sites) /\ live = {siteToWebSite(s) : s \in sites}
           /\ Apart(sites)
<1>1. \A r \in Callers : pc[r] \notin WebPlaces
  BY DEF Quiescent, Running, WebPlaces
<1>2. Matches(Settled)
  BY <1>1 DEF WebInv
<1> QED BY <1>2, AllSettled, SitesApart DEF Matches

\* Between requests Caddy has and serves the registered sites and no others,
\* whatever the requests asked for and whichever of their steps failed: what a
\* request could not finish it has taken back (orchestration.go:108-121,
\* site_management.go:74-103, php_manager.go:81-107).
THEOREM NeverOrphanSites ==
    ASSUME Undisturbed, FaultsAreUndone, OperatorBlocks # {}
    PROVE  Spec => []NoOrphanSites
<1>1. RegistryInv /\ SerialInv /\ WebInv => NoOrphanSites
  <2> SUFFICES ASSUME RegistryInv, SerialInv, WebInv, Quiescent
               PROVE  /\ \A i \in SiteIds : caddyFiles[i] # Absent => HasSite(sites, i)
                      /\ live \subseteq {siteToWebSite(s) : s \in sites}
    BY DEF NoOrphanSites
  <2> QED BY SettledIsServed, FilesOfIs
<1>2. Spec => []SerialInv
  BY SerialAlways DEF Undisturbed
<1> QED BY <1>1, <1>2, WebAlways, RegistryAlways, PTL

-----------------------------------------------------------------------------
(* The resolver stub.                                                       *)

StubContents == {"managed", Absent}

\* Where a call of the resolver manager stands, for the stub s, its temporary t
\* and what the resolver has loaded, ld.
StubStage(f, s, t, ld) ==
    /\ s \in StubContents /\ ld \in StubContents
    /\ f.previous \in StubContents
    /\ f.at \in {"writeTemp", "rename"} => f.data = "managed"
    /\ f.at = "rename" => t = "managed"
    /\ f.at = "read" \/ (f.at = "remove" /\ ~f.undo) => f.op = "remove"
    /\ f.at = "reload" /\ f.op = "ensure" => s = "managed"
    /\ f.at = "confirm" => s = "managed" /\ ld = "managed"

\* While a settled site needs the stub it is there and loaded, and whatever a
\* call does and takes back it stays.
StubHeld(f, s, ld) ==
    /\ s = "managed" /\ ld = "managed"
    /\ f.at \notin {"read", "remove"}
    /\ f.at \notin {"idle", "inspect", "returned"} => f.previous = "managed"

\* A call of EnsureTestStub, which succeeds with the stub in place.
StubEnsures(f, s, ld) ==
    /\ f.at # "returned" => f.op = "ensure"
    /\ f.at = "returned" /\ f.result = "ok" => s = "managed" /\ ld = "managed"

LEMMA DnsStages ==
    ASSUME FaultsAreUndone, Undisturbed, DnsTyped, cancelled \subseteq Cancellable,
           NEW r \in Callers, Dns!Step(r), StubStage(dnsCall[r], stub, stubTemp, loaded)
    PROVE  /\ StubStage(dnsCall'[r], stub', stubTemp', loaded')
           /\ StubHeld(dnsCall[r], stub, loaded) => StubHeld(dnsCall'[r], stub', loaded')
           /\ StubEnsures(dnsCall[r], stub, loaded) => StubEnsures(dnsCall'[r], stub', loaded')
<1> DEFINE f == dnsCall[r]
           g == dnsCall'[r]
           G == /\ StubStage(g, stub', stubTemp', loaded')
                /\ StubHeld(f, stub, loaded) => StubHeld(g, stub', loaded')
                /\ StubEnsures(f, stub, loaded) => StubEnsures(g, stub', loaded')
<1> SUFFICES G
  OBVIOUS
<1>s. StubStage(f, stub, stubTemp, loaded)
  OBVIOUS
<1>0. f \in DnsFrames /\ (\A h : Dns!To(r, h) => g = h) /\ "managed" # Absent
  BY ManagersAssumption DEF DnsTyped, Dns!To, Dns!ResolvedAssumption
<1>1. /\ r \notin cancelled /\ ~Dns!Fails("undo")
      /\ \A kind : ~Dns!CommandRefused(r)
      /\ \A kind : Dns!CommandBreaks(r, kind) => Dns!Fails(kind)
  BY DEF FaultsAreUndone, Undisturbed, Dns!Fails, Dns!CommandRefused, Dns!CommandBreaks, Dns!Cancel
<1>2. \A res : /\ Dns!Returned(res).at = "returned" /\ Dns!Returned(res).result = res
               /\ Dns!Returned(res).previous = Absent
  BY DEF Dns!Returned, Dns!Idle
<1>a. /\ Dns!Undo(f).at = IF f.previous = Absent THEN "remove" ELSE "writeTemp"
      /\ Dns!Undo(f).data = f.previous /\ Dns!Undo(f).undo
      /\ Dns!Undo(f).previous = f.previous /\ Dns!Undo(f).op = f.op
  BY <1>0 DEF Dns!Undo, DnsFrames
<1> HIDE DEF f, g
<1> USE DEF StubStage, StubHeld, StubEnsures, StubContents
<1>3. CASE Dns!Inspect(r)
  <2> DEFINE h == [f EXCEPT !.at = "writeTemp", !.previous = stub, !.data = "managed"]
  <2>1. h.at = "writeTemp" /\ h.previous = stub /\ h.data = "managed" /\ h.op = f.op
    BY <1>0 DEF DnsFrames
  <2>2. /\ f.at = "inspect" /\ UNCHANGED <<stub, stubTemp, loaded>>
        /\ g = h \/ g = Dns!Returned("err")
    BY <1>0, <1>3 DEF Dns!Inspect, f
  <2> HIDE DEF h
  <2> QED BY <1>s, <1>2, <2>1, <2>2
<1>4. CASE Dns!WriteTemp(r)
  BY <1>s, <1>0, <1>1, <1>2, <1>4 DEF DnsFrames, Dns!WriteTemp, Dns!WriteFailed, Dns!Kind, f
<1>5. CASE Dns!Rename(r)
  BY <1>s, <1>0, <1>1, <1>2, <1>5 DEF DnsFrames, Dns!Rename, Dns!WriteFailed, Dns!Written, Dns!Kind, f
<1>6. CASE Dns!Read(r)
  <2> DEFINE h == [f EXCEPT !.at = "remove", !.previous = stub]
  <2>1. h.at = "remove" /\ h.previous = stub /\ h.op = f.op
    BY <1>0 DEF DnsFrames
  <2>2. /\ f.at = "read" /\ UNCHANGED <<stub, stubTemp, loaded>>
        /\ g = h \/ g \in {Dns!Returned("ok"), Dns!Returned("err")}
    BY <1>0, <1>6 DEF Dns!Read, f
  <2> HIDE DEF h
  <2> QED BY <1>s, <1>2, <2>1, <2>2
<1>7. CASE Dns!Remove(r)
  BY <1>s, <1>0, <1>1, <1>2, <1>7 DEF DnsFrames, Dns!Remove, Dns!WriteFailed, Dns!Written, Dns!Kind, f
<1>8. CASE Dns!Reload(r)
  <2>1. /\ f.at = "reload" /\ UNCHANGED <<stub, stubTemp>> /\ loaded' \in {loaded, stub}
        /\ \/ /\ loaded' = stub
              /\ g = IF f.op = "ensure" THEN [f EXCEPT !.at = "confirm"] ELSE Dns!Returned("ok")
           \/ g = Dns!Undo(f)
    BY <1>0, <1>1, <1>8 DEF Dns!Reload, f
  <2>2. CASE g = Dns!Undo(f)
    BY <1>s, <1>0, <1>a, <2>1, <2>2
  <2>3. CASE loaded' = stub /\ f.op = "ensure" /\ g = [f EXCEPT !.at = "confirm"]
    <3>1. g.at = "confirm" /\ g.op = f.op /\ g.previous = f.previous
      BY <1>0, <2>3 DEF DnsFrames
    <3> QED BY <1>s, <2>1, <2>3, <3>1
  <2>4. CASE loaded' = stub /\ f.op # "ensure" /\ g = Dns!Returned("ok")
    BY <1>s, <1>2, <2>1, <2>4
  <2> QED BY <2>1, <2>2, <2>3, <2>4
<1>9. CASE Dns!UndoReload(r)
  BY <1>s, <1>0, <1>1, <1>2, <1>9 DEF Dns!UndoReload, f
<1>10. CASE Dns!Confirm(r)
  BY <1>s, <1>0, <1>1, <1>2, <1>10 DEF Dns!Confirm, f
<1> QED BY <1>3, <1>4, <1>5, <1>6, <1>7, <1>8, <1>9, <1>10 DEF Dns!Step

\* Where an activation has its stub.
Resolved == {"materialize", "start", "web", "persist"}

DnsInv ==
    /\ \A r \in Callers : /\ StubStage(dnsCall[r], stub, stubTemp, loaded)
                          /\ Settled # {} => StubHeld(dnsCall[r], stub, loaded)
                          /\ pc[r] = "ensureStub" => StubEnsures(dnsCall[r], stub, loaded)
                          /\ Is(r, "activate") /\ pc[r] \in Resolved => Resolves
    /\ Settled # {} => Resolves

LEMMA DnsStepHolds ==
    ASSUME FaultsAreUndone, Undisturbed, RegistryInv, SerialInv, ManagersTyped, ManagersTyped',
           DnsInv, NEW r \in Callers, Waits(r, {"ensureStub", "undoStub"}), Dns!Step(r),
           UNCHANGED <<sites, pc, loc>>
    PROVE  DnsInv'
<1>1. UNCHANGED Settled
  BY UnchangedBefore
<1>2. /\ StubStage(dnsCall'[r], stub', stubTemp', loaded')
      /\ StubHeld(dnsCall[r], stub, loaded) => StubHeld(dnsCall'[r], stub', loaded')
      /\ StubEnsures(dnsCall[r], stub, loaded) => StubEnsures(dnsCall'[r], stub', loaded')
  BY DnsStages DEF ManagersTyped, RegistryInv, DnsInv
<1>3. \A q \in Callers \ {r} : dnsCall[q] = dnsCall'[q] /\ dnsCall[q].at = "idle" /\ ~Running(q)
  <2>1. \A q \in Callers \ {r} : ~Running(q)
    BY DEF Waits
  <2>2. \A q \in Callers \ {r} : dnsCall[q].at = "idle"
    BY <2>1 DEF ManagersTyped, CallsInOrder, Running
  <2>3. \E h : Dns!To(r, h)
    BY DEF Dns!Step, Dns!Inspect, Dns!WriteTemp, Dns!Rename, Dns!Read, Dns!Remove, Dns!Reload,
           Dns!UndoReload, Dns!Confirm
  <2>4. \A q \in Callers \ {r} : dnsCall[q] = dnsCall'[q]
    BY <2>3 DEF Dns!To, ManagersTyped, DnsTyped
  <2> QED BY <2>1, <2>2, <2>4
<1>4. /\ Settled # {} => StubHeld(dnsCall'[r], stub', loaded')
      /\ pc[r] = "ensureStub" => StubEnsures(dnsCall'[r], stub', loaded')
  BY <1>2 DEF DnsInv
<1>5. ASSUME NEW q \in Callers \ {r}
      PROVE  /\ StubStage(dnsCall'[q], stub', stubTemp', loaded')
             /\ Settled # {} => StubHeld(dnsCall'[q], stub', loaded')
  BY <1>2, <1>3, <1>4 DEF StubStage, StubHeld, DnsInv
<1>6. Settled # {} => Resolves'
  BY <1>4 DEF StubHeld, Resolves
<1>7. \A q \in Callers : pc[q] \notin Resolved /\ (pc[q] = "ensureStub" => q = r)
  BY <1>3 DEF Waits, Resolved, Running
<1> QED BY <1>1, <1>2, <1>4, <1>5, <1>6, <1>7 DEF DnsInv

\* The service steps around the stub.
DnsEdge(r) ==
    \/ /\ pc'[r] \notin {"ensureStub", "undoStub"} /\ dnsCall' = dnsCall
       /\ Is(r, "activate") /\ pc'[r] \in Resolved => pc[r] \in Resolved
    \/ pc'[r] = "ensureStub" /\ Dns!EnsureTestStub(r)
    \/ /\ pc[r] = "ensureStub" /\ pc'[r] \in {"materialize", "undoList", "undoRecord"}
       /\ Dns!Collect(r) /\ (pc'[r] = "materialize" => dnsCall[r].result = "ok")
    \/ pc'[r] = "undoStub" /\ Dns!RemoveManagedStub(r) /\ \A s \in sites : s.id = r
    \/ pc[r] = "undoStub" /\ pc'[r] = "undoRecord" /\ Dns!Collect(r)

LEMMA DnsEdges ==
    ASSUME RegistryInv, NEW r \in Callers, ServiceStep(r)
    PROVE  DnsEdge(r)
<1> USE FinishIsDone DEF Resolved
<1>0. LocalsTyped /\ Placed(r, pc[r], loc[r], result[r])
  BY DEF RegistryInv, Places
<1>1. CASE Resolve(r) \/ UndoRecord(r) \/ GetSite(r)
  BY <1>0, <1>1 DEF Resolve, UndoRecord, GetSite, At, DnsEdge, dns
<1>2. CASE RegisterSite(r)
  BY <1>0, <1>2 DEF RegisterSite, At, DnsEdge
<1>3. CASE StubEnsured(r) \/ StubRemoved(r)
  BY <1>0, <1>3 DEF StubEnsured, StubRemoved, At, RollbackAfterWeb, DnsEdge
<1>4. CASE UndoList(r)
  BY <1>0, <1>4 DEF UndoList, At, DnsEdge
<1>5. CASE Prepare(r)
  <2>1. ~Is(r, "activate")
    BY <1>0, <1>5 DEF Prepare, At, Placed, Is, Job, AfterRegister
  <2> QED BY <1>0, <1>5, <2>1 DEF Prepare, At, DnsEdge, dns
<1>6. CASE RuntimeReady(r)
  <2>1. Is(r, "activate") => pc[r] = "materialize"
    BY <1>0, <1>6 DEF RuntimeReady, Placed, Is, Job, AfterRegister
  <2> QED BY <1>0, <1>6, <2>1 DEF RuntimeReady, RollbackAfterWeb, DnsEdge, dns
<1>7. CASE StartServices(r)
  BY <1>0, <1>7, AbortEdge DEF StartServices, At, DnsEdge, dns
<1>8. CASE WebActivated(r)
  BY <1>0, <1>8, AbortEdge DEF WebActivated, At, DnsEdge, dns
<1>9. CASE Persist(r)
  BY <1>0, <1>9 DEF Persist, At, DnsEdge, dns
<1>10. CASE WebUndone(r)
  BY <1>0, <1>10 DEF WebUndone, At, DnsEdge, dns, RollbackAfterWeb, SwitchBack
<1>11. CASE SwitchedBack(r) \/ RestartPreviousService(r) \/ RefreshInventory(r) \/ ServiceStatus(r)
            \/ SetDefaultVersion(r)
  BY <1>0, <1>11 DEF SwitchedBack, RestartPreviousService, RefreshInventory, ServiceStatus,
                     SetDefaultVersion, At, DnsEdge, dns
<1>12. CASE RegisterPHP(r)
  <2>1. ~Is(r, "activate")
    BY <1>0, <1>12 DEF RegisterPHP, At, Placed, Is, Job, AfterRegister
  <2> QED BY <1>0, <1>12, <2>1 DEF RegisterPHP, At, DnsEdge, dns
<1> QED BY <1>1, <1>2, <1>3, <1>4, <1>5, <1>6, <1>7, <1>8, <1>9, <1>10, <1>11, <1>12 DEF ServiceStep

LEMMA DnsService ==
    ASSUME FaultsAreUndone, Undisturbed, RegistryInv, SerialInv, HoldInv, ManagersTyped,
           ManagersTyped', DnsInv, NEW r \in Callers, ServiceStep(r)
    PROVE  DnsInv'
<1>1. PICK l, x, res :
         /\ Placed(r, l, x, res) /\ Effect(r, l, x, res)
         /\ pc'[r] = l /\ loc'[r] = x /\ x.job = Job(r)
         /\ \A q \in Callers \ {r} : pc'[q] = pc[q] /\ loc'[q] = loc[q] /\ ~Running(q)
         /\ Running(r) /\ Job(r) \in Jobs
  BY ServiceMove
<1>2. DnsEdge(r) /\ Holds(r) /\ Placed(r, pc[r], loc[r], result[r])
  BY DnsEdges, Holding DEF HoldInv
<1>3. UNCHANGED <<stub, stubTemp, loaded>>
  BY ServiceUses DEF RegistryInv, Places, Uses, FilesStay
<1>4. \A q \in Callers \ {r} :
         /\ pc'[q] \notin Resolved \cup {"ensureStub", "undoStub"}
         /\ dnsCall'[q].at = "idle" /\ dnsCall'[q] = dnsCall[q]
  <2>1. \A q \in Callers \ {r} : pc'[q] \in {"idle", "done", "dead"}
    BY <1>1 DEF Running
  <2>2. \A q \in Callers \ {r} : dnsCall'[q].at = "idle"
    BY <2>1 DEF ManagersTyped, CallsInOrder
  <2>3. UNCHANGED dnsCall \/ \E h : Dns!To(r, h)
    BY <1>2 DEF DnsEdge, Dns!EnsureTestStub, Dns!RemoveManagedStub, Dns!Collect
  <2>4. \A q \in Callers \ {r} : dnsCall'[q] = dnsCall[q]
    BY <2>3 DEF Dns!To, ManagersTyped, DnsTyped
  <2> QED BY <2>1, <2>2, <2>4 DEF Resolved
<1>5. Settled' # {} => Resolves /\ (Settled # {} \/ pc'[r] = "done")
  <2>1. CASE UNCHANGED Settled
    BY <2>1 DEF DnsInv
  <2>2. CASE pc[r] = "persist" /\ pc'[r] = "done"
    <3>1. CASE Is(r, "activate")
      BY <2>2, <3>1 DEF DnsInv, Resolved
    <3>2. CASE Edits(r)
      <4>1. loc[r].current \in Settled
        BY <1>1, <1>2, <2>2, <3>2, SettledIs DEF Holds, Edits, Is
      <4> QED BY <2>2, <4>1 DEF DnsInv
    <3> QED BY <1>1, <1>2, <2>2, <3>1, <3>2, JobFields DEF Edits, Is, Placed, Job
  <2> QED BY <2>1, <2>2, SettledService
<1>6. /\ StubStage(dnsCall'[r], stub, stubTemp, loaded)
      /\ Settled' # {} => StubHeld(dnsCall'[r], stub, loaded)
      /\ pc'[r] = "ensureStub" => StubEnsures(dnsCall'[r], stub, loaded)
      /\ Is(r, "activate") /\ pc'[r] \in Resolved => Resolves
  <2>0. /\ StubStage(dnsCall[r], stub, stubTemp, loaded)
        /\ Settled # {} => StubHeld(dnsCall[r], stub, loaded)
        /\ pc[r] = "ensureStub" => StubEnsures(dnsCall[r], stub, loaded)
        /\ Is(r, "activate") /\ pc[r] \in Resolved => Resolves
    BY DEF DnsInv
  <2>a. \A h : Dns!To(r, h) => dnsCall'[r] = h
    BY DEF ManagersTyped, DnsTyped, Dns!To
  <2>1. CASE /\ pc'[r] \notin {"ensureStub", "undoStub"} /\ dnsCall' = dnsCall
             /\ Is(r, "activate") /\ pc'[r] \in Resolved => pc[r] \in Resolved
    <3>1. pc'[r] = "done" => dnsCall[r].at = "idle"
      BY <2>1 DEF ManagersTyped, CallsInOrder
    <3> QED BY <1>5, <2>0, <2>1, <3>1 DEF StubHeld, Resolves
  <2>2. CASE pc'[r] = "ensureStub" /\ Dns!EnsureTestStub(r)
    <3> DEFINE h == [Dns!Idle EXCEPT !.at = "inspect", !.op = "ensure"]
    <3>1. h.at = "inspect" /\ h.op = "ensure" /\ h.previous = Absent /\ dnsCall'[r] = h
      BY <2>2, <2>a DEF Dns!EnsureTestStub, Dns!Idle
    <3> HIDE DEF h
    <3> QED BY <1>5, <2>0, <2>2, <3>1 DEF StubStage, StubHeld, StubEnsures, StubContents, Resolves,
                                          Resolved
  <2>3. CASE Dns!Collect(r) /\ pc'[r] \in {"materialize", "undoList", "undoRecord"}
             /\ (pc'[r] = "materialize" => pc[r] = "ensureStub" /\ dnsCall[r].result = "ok")
    <3>1. Dns!Idle.at = "idle" /\ Dns!Idle.previous = Absent /\ dnsCall'[r] = Dns!Idle
      BY <2>3, <2>a DEF Dns!Collect, Dns!Idle
    <3>2. pc'[r] = "materialize" => Resolves
      BY <2>0, <2>3 DEF Dns!Collect, StubEnsures, Resolves
    <3> QED BY <1>5, <2>0, <2>3, <3>1, <3>2 DEF StubStage, StubHeld, StubContents, Resolves, Resolved
  <2>4. CASE pc'[r] = "undoStub" /\ Dns!RemoveManagedStub(r) /\ \A s \in sites : s.id = r
    <3> DEFINE h == [Dns!Idle EXCEPT !.at = "read", !.op = "remove"]
    <3>1. h.at = "read" /\ h.op = "remove" /\ h.previous = Absent /\ dnsCall'[r] = h
      BY <2>4, <2>a DEF Dns!RemoveManagedStub, Dns!Idle
    <3>2. Is(r, "activate")
      BY <1>1, <2>4, JobFields DEF Placed, Is, Job
    <3>3. Settled = {}
      BY <1>1, <2>4, <3>2, SettledIs
    <3>4. Settled' = {}
      BY <1>5, <2>4, <3>3
    <3> HIDE DEF h
    <3> QED BY <2>0, <2>4, <3>1, <3>4 DEF StubStage, StubContents, Resolved
  <2> QED BY <1>2, <2>1, <2>2, <2>3, <2>4 DEF DnsEdge
<1>7. ASSUME NEW q \in Callers \ {r}
      PROVE  /\ StubStage(dnsCall'[q], stub, stubTemp, loaded)
             /\ Settled' # {} => StubHeld(dnsCall'[q], stub, loaded)
  BY <1>4, <1>5 DEF DnsInv, StubHeld, Resolves
<1>8. Is(r, "activate")' <=> Is(r, "activate")
  BY <1>1 DEF Is, Job
<1>9. Resolves' = Resolves
  BY <1>3 DEF Resolves
<1> QED BY <1>3, <1>4, <1>5, <1>6, <1>7, <1>8, <1>9 DEF DnsInv

LEMMA DnsKept ==
    ASSUME FaultsAreUndone, Undisturbed, RegistryInv, SerialInv, HoldInv, ManagersTyped,
           ManagersTyped', DnsInv, [Next]_vars
    PROVE  DnsInv'
<1>1. ASSUME NEW r \in Callers, NEW j \in Jobs, Begin(r, j)
      PROVE  DnsInv'
  <2>1. /\ UNCHANGED <<stub, stubTemp, loaded, dnsCall, Settled>> /\ Quiescent
        /\ pc'[r] \in {"resolve", "get", "registerRuntime", "inventory", "setDefault"}
        /\ \A q \in Callers \ {r} : pc'[q] = pc[q]
    BY <1>1, BeginIs DEF dns, RegistryInv, LocalsTyped
  <2>2. \A q \in Callers : pc'[q] \notin Resolved \cup {"ensureStub"}
    BY <2>1 DEF Quiescent, Running, Resolved
  <2> QED BY <2>1, <2>2 DEF DnsInv, Resolves
<1>2. CASE UNCHANGED <<sites, pc, loc>> /\ UNCHANGED dns
  <2>1. UNCHANGED <<stub, stubTemp, loaded, dnsCall, Settled>>
    BY <1>2, UnchangedBefore DEF dns
  <2> QED BY <1>2, <2>1 DEF DnsInv, Resolves, Is, Job
<1> QED BY <1>1, <1>2, NextIsOneOf, DnsService, DnsStepHolds

LEMMA DnsInit ==
    ASSUME Init
    PROVE  DnsInv
<1>1. \A r \in Callers : pc[r] = "idle"
  BY DEF Init
<1>2. Settled = sites
  BY <1>1, AllSettled DEF Quiescent, Running
<1>3. /\ stub \in StubContents /\ loaded \in StubContents
      /\ sites # {} => stub = "managed" /\ loaded = "managed"
  BY DEF Init, StubContents
<1>4. /\ \A r \in Callers : dnsCall[r] = Dns!Idle
      /\ Dns!Idle.at = "idle" /\ Dns!Idle.previous = Absent
  BY DEF Init, Dns!Idle
<1> QED BY <1>1, <1>2, <1>3, <1>4 DEF DnsInv, StubStage, StubHeld, StubContents, Resolves, Resolved

-----------------------------------------------------------------------------
(* The FPM pools.                                                           *)

\* The state of a service that has read the pool file p.
Read(p) == IF p = "managed" THEN "managed" ELSE "stock"

Busy(f) == f.at \notin {"idle", "returned"}

\* Where a call of the PHP-FPM manager stands, for the pool file p and the
\* service s of its version and the temporary t of the file it writes.  The
\* service still runs with what was backed up until it is restarted, and an
\* undo writes what was backed up.
PoolStage(f, p, s, t) ==
    /\ f.at \in {"readPool", "readOverride"} => s = Read(p) /\ f.undo = "no"
    /\ f.at = "readOverride" => p = f.poolBackup
    /\ f.at \in PhpWrites /\ f.undo # "all" => s = Read(f.poolBackup)
    /\ f.at \in PhpWrites /\ f.undo = "no" =>
          /\ f.at # "remove" /\ f.data = "managed"
          /\ p = IF f.file = "pool" THEN f.poolBackup ELSE "managed"
    /\ f.at \in PhpWrites /\ f.undo = "pool" => f.file = "pool"
    /\ f.at \in PhpWrites /\ f.undo # "no" /\ f.file = "pool" => f.data = f.poolBackup
    /\ f.at \in {"writeTemp", "rename"} => f.data = "managed"
    /\ f.at = "rename" => t = "managed"
    /\ f.at = "remove" => f.data = Absent
    /\ f.at \in {"check", "restart"} =>
          f.undo = "no" /\ p = "managed" /\ s = Read(f.poolBackup)
    /\ f.at = "restartPrevious" => s = Read(p)

\* A step has left the call for version v at g.
PoolEnds(v, g, p, s, t) ==
    /\ g.at # "idle"
    /\ Busy(g) => g.version = v /\ PoolStage(g, p, s, t)
    /\ ~Busy(g) => s = Read(p) /\ (g.result = "ok" => p = "managed")

\* The pool that was backed up is one that a settled site needs.
PoolBacked(f) == Busy(f) /\ f.at \notin {"readPool", "restartPrevious"} => f.poolBackup = "managed"

LEMMA FailedPool ==
    ASSUME NEW f, PhpFrame(f), Busy(f), NEW p, NEW t
    PROVE  PoolEnds(f.version, Php!Failed(f), p, Read(p), t) /\ PoolBacked(Php!Failed(f))
<1>1. CASE Php!Failed(f) = Php!Returned("err")
  <2>1. Php!Returned("err").at = "returned" /\ Php!Returned("err").result = "err"
    BY DEF Php!Returned, Php!Idle
  <2> QED BY <1>1, <2>1 DEF PoolEnds, PoolBacked, Busy
<1>2. CASE Php!Failed(f) = [f EXCEPT !.at = "restartPrevious"]
  <2> DEFINE g == Php!Failed(f)
  <2>1. g.at = "restartPrevious" /\ g.version = f.version
    BY <1>2 DEF PhpFrame, PhpFrames
  <2> HIDE DEF g
  <2>2. PoolEnds(f.version, g, p, Read(p), t) /\ PoolBacked(g)
    BY <2>1 DEF PoolEnds, PoolBacked, Busy, PoolStage, PhpWrites
  <2> QED BY <2>2 DEF g
<1> QED BY <1>1, <1>2 DEF Php!Failed

\* An undo of the pool, alone or with what follows.
LEMMA RestoredPool ==
    ASSUME NEW f, PhpFrame(f), Busy(f), NEW u \in {"pool", "all"}, NEW p, NEW s, NEW t,
           u = "pool" => s = Read(f.poolBackup)
    PROVE  LET g == Php!Restore(f, "pool", f.poolBackup, u)
           IN  PoolEnds(f.version, g, p, s, t) /\ (f.poolBackup = "managed" => PoolBacked(g))
<1> DEFINE g == Php!Restore(f, "pool", f.poolBackup, u)
<1>1. /\ g.at = IF f.poolBackup = Absent THEN "remove" ELSE "writeTemp"
      /\ g.file = "pool" /\ g.data = f.poolBackup /\ g.undo = u
      /\ g.version = f.version /\ g.poolBackup = f.poolBackup
  BY DEF Php!Restore, PhpFrame, PhpFrames
<1>2. f.poolBackup \in {"managed", Absent}
  BY DEF PhpFrame, PhpFrames, PhpContents
<1> HIDE DEF g
<1>3. PoolEnds(f.version, g, p, s, t) /\ (f.poolBackup = "managed" => PoolBacked(g))
  BY <1>1, <1>2 DEF PoolEnds, PoolBacked, Busy, PoolStage, PhpWrites
<1> QED BY <1>3 DEF g

\* After a write that was done, for the pool p there is now.
LEMMA WrittenPool ==
    ASSUME NEW f, PhpFrame(f), f.at \in PhpWrites, NEW p, NEW s, NEW t,
           f.undo # "all" => s = Read(f.poolBackup),
           f.undo = "no" => p = "managed",
           f.undo = "pool" => p = f.poolBackup
    PROVE  /\ PoolEnds(f.version, Php!Written(f), p, s, t)
           /\ PoolBacked(f) => PoolBacked(Php!Written(f))
<1> DEFINE g == Php!Written(f)
<1>0. /\ Busy(f) /\ f.file \in {"pool", "override"} /\ f.undo \in {"no", "pool", "all"}
      /\ f.overrideBackup \in {"managed", Absent}
      /\ PoolBacked(f) => f.poolBackup = "managed"
  BY DEF PhpFrame, PhpFrames, PhpContents, PhpWrites, Busy, PoolBacked
<1>1. CASE f.undo = "no" /\ f.file = "pool"
  <2>1. /\ g.at = "writeTemp" /\ g.file = "override" /\ g.data = "managed" /\ g.undo = "no"
        /\ g.version = f.version /\ g.poolBackup = f.poolBackup
    BY <1>1 DEF Php!Written, Php!Write, PhpFrame, PhpFrames
  <2> HIDE DEF g
  <2>2. PoolEnds(f.version, g, p, s, t) /\ (PoolBacked(f) => PoolBacked(g))
    BY <1>0, <1>1, <2>1 DEF PoolEnds, PoolBacked, Busy, PoolStage, PhpWrites
  <2> QED BY <2>2 DEF g
<1>2. CASE f.undo = "no" /\ f.file = "override"
  <2>1. g.at = "check" /\ g.undo = "no" /\ g.version = f.version /\ g.poolBackup = f.poolBackup
    BY <1>2 DEF Php!Written, PhpFrame, PhpFrames
  <2> HIDE DEF g
  <2>2. PoolEnds(f.version, g, p, s, t) /\ (PoolBacked(f) => PoolBacked(g))
    BY <1>0, <1>2, <2>1 DEF PoolEnds, PoolBacked, Busy, PoolStage, PhpWrites
  <2> QED BY <2>2 DEF g
<1>3. CASE f.undo = "pool"
  <2>1. g = Php!Failed(f) /\ s = Read(p)
    BY <1>3 DEF Php!Written
  <2> QED BY <1>0, <2>1, FailedPool
<1>4. CASE f.undo = "all" /\ f.file = "pool"
  <2>1. /\ g.at = IF f.overrideBackup = Absent THEN "remove" ELSE "writeTemp"
        /\ g.file = "override" /\ g.data = f.overrideBackup /\ g.undo = "all"
        /\ g.version = f.version /\ g.poolBackup = f.poolBackup
    BY <1>4 DEF Php!Written, Php!Restore, PhpFrame, PhpFrames
  <2> HIDE DEF g
  <2>2. PoolEnds(f.version, g, p, s, t) /\ (PoolBacked(f) => PoolBacked(g))
    BY <1>0, <1>4, <2>1 DEF PoolEnds, PoolBacked, Busy, PoolStage, PhpWrites
  <2> QED BY <2>2 DEF g
<1>5. CASE f.undo = "all" /\ f.file = "override"
  <2>1. g.at = "undoRestart" /\ g.version = f.version /\ g.poolBackup = f.poolBackup
    BY <1>5 DEF Php!Written, PhpFrame, PhpFrames
  <2> HIDE DEF g
  <2>2. PoolEnds(f.version, g, p, s, t) /\ (PoolBacked(f) => PoolBacked(g))
    BY <1>0, <1>5, <2>1 DEF PoolEnds, PoolBacked, Busy, PoolStage, PhpWrites
  <2> QED BY <2>2 DEF g
<1> QED BY <1>0, <1>1, <1>2, <1>3, <1>4, <1>5

\* After a write that failed, which none does in an undo.
LEMMA UnwrittenPool ==
    ASSUME NEW f, PhpFrame(f), f.at \in PhpWrites, f.undo = "no", NEW p, NEW s, NEW t0,
           PoolStage(f, p, s, t0), NEW t
    PROVE  /\ PoolEnds(f.version, Php!WriteFailed(f), p, s, t)
           /\ PoolBacked(f) => PoolBacked(Php!WriteFailed(f))
<1>0. /\ Busy(f) /\ f.file \in {"pool", "override"}
      /\ PoolBacked(f) => f.poolBackup = "managed"
      /\ s = Read(f.poolBackup) /\ (f.file = "pool" => p = f.poolBackup)
  BY DEF PhpFrame, PhpWrites, Busy, PoolStage, PoolBacked
<1>1. CASE f.file = "pool"
  <2>1. Php!WriteFailed(f) = Php!Failed(f) /\ s = Read(p)
    BY <1>0, <1>1 DEF Php!WriteFailed
  <2> QED BY <1>0, <2>1, FailedPool
<1>2. CASE f.file = "override"
  <2>1. Php!WriteFailed(f) = Php!Restore(f, "pool", f.poolBackup, "pool")
    BY <1>2 DEF Php!WriteFailed
  <2> QED BY <1>0, <2>1, RestoredPool
<1> QED BY <1>0, <1>1, <1>2

PoolOf(v) == fpmFiles[Php!Pool(v)]

\* One step of a call: what it leaves of its own version, and of the others.
PoolStep(r, v, p) ==
    /\ PoolEnds(v, phpCall'[r], PoolOf(v)', fpm'[v], fpmTemp'[<<phpCall'[r].file, v>>])
    /\ p = "managed" /\ PoolBacked(phpCall[r]) =>
          PoolOf(v)' = "managed" /\ PoolBacked(phpCall'[r])
    /\ \A w \in SupportedVersions \ {v} : /\ PoolOf(w)' = PoolOf(w)
                                          /\ fpm'[w] \in {fpm[w], Read(PoolOf(w))}

LEMMA PhpStages ==
    ASSUME FaultsAreUndone, Undisturbed, PhpTyped, cancelled \subseteq Cancellable,
           NEW r \in Callers, Php!Step(r), Busy(phpCall[r]), NEW v, v = phpCall[r].version,
           PoolStage(phpCall[r], PoolOf(v), fpm[v], fpmTemp[<<phpCall[r].file, v>>])
    PROVE  PoolStep(r, v, PoolOf(v))
<1> DEFINE f == phpCall[r]
           g == phpCall'[r]
           p == PoolOf(v)
           s == fpm[v]
           t == fpmTemp[<<f.file, v>>]
<1> SUFFICES PoolStep(r, v, p)
  OBVIOUS
<1>0. /\ PhpFrame(f) /\ v \in SupportedVersions
      /\ \A h : Php!To(r, h) => g = h
      /\ PoolStage(f, p, s, t) /\ Busy(f) /\ f.version = v
  BY DEF PhpTyped, PhpFrame, Busy, Php!To
<1>1. /\ r \notin cancelled /\ ~Php!Fails("undo") /\ ~Php!CommandRefused(r)
      /\ \A kind : Php!CommandBreaks(r, kind) => Php!Fails(kind)
  BY DEF FaultsAreUndone, Undisturbed, Php!Fails, Php!CommandRefused, Php!CommandBreaks, Php!Cancel
<1>2. \A w \in SupportedVersions :
         Php!Pool(w) \in DOMAIN fpmFiles /\ w \in DOMAIN fpm /\ Php!Started(w) = Read(PoolOf(w))
  BY DEF PhpTyped, Php!Pool, Php!Paths, Php!Started, Read, PoolOf
<1>3. ASSUME UNCHANGED <<fpmFiles, fpm>>,
             PoolEnds(v, g, p, s, fpmTemp'[<<g.file, v>>]),
             p = "managed" /\ PoolBacked(f) => PoolBacked(g)
      PROVE  PoolStep(r, v, p)
  BY <1>3 DEF PoolStep, PoolOf
<1>4. CASE Php!ReadPool(r)
  <2>1. f.at = "readPool" /\ UNCHANGED <<fpmFiles, fpm>> /\ s = Read(p) /\ f.undo = "no"
    BY <1>0, <1>4 DEF Php!ReadPool, PoolStage
  <2> DEFINE h == [f EXCEPT !.at = "readOverride", !.poolBackup = p]
  <2>2. h.at = "readOverride" /\ h.poolBackup = p /\ h.version = v /\ h.undo = f.undo
    BY <1>0 DEF PhpFrame, PhpFrames
  <2>3. g = h \/ g = Php!Failed(f)
    BY <1>0, <1>4 DEF Php!ReadPool, PoolOf
  <2> HIDE DEF f, g, p, s, t, h
  <2>4. CASE g = h
    BY <1>3, <2>1, <2>2, <2>4 DEF PoolEnds, PoolStage, PoolBacked, Busy, PhpWrites
  <2>5. CASE g = Php!Failed(f)
    BY <1>0, <1>3, <2>1, <2>5, FailedPool
  <2> QED BY <2>3, <2>4, <2>5
<1>5. CASE Php!ReadOverride(r)
  <2>1. /\ f.at = "readOverride" /\ UNCHANGED <<fpmFiles, fpm>> /\ s = Read(p) /\ p = f.poolBackup
        /\ f.undo = "no"
    BY <1>0, <1>5 DEF Php!ReadOverride, PoolStage
  <2> DEFINE o == fpmFiles[Php!Override(v)]
             h == Php!Write([f EXCEPT !.overrideBackup = o], "pool")
  <2>2. /\ h.at = "writeTemp" /\ h.file = "pool" /\ h.data = "managed" /\ h.undo = f.undo
        /\ h.poolBackup = f.poolBackup /\ h.version = v
    BY <1>0 DEF PhpFrame, PhpFrames, Php!Write
  <2>3. g = h \/ g = Php!Failed(f)
    BY <1>0, <1>5 DEF Php!ReadOverride
  <2> HIDE DEF f, g, p, s, t, h
  <2>4. CASE g = h
    BY <1>0, <1>3, <2>1, <2>2, <2>4 DEF PoolEnds, PoolStage, PoolBacked, Busy, PhpWrites
  <2>5. CASE g = Php!Failed(f)
    BY <1>0, <1>3, <2>1, <2>5, FailedPool
  <2> QED BY <2>3, <2>4, <2>5
<1>6. CASE Php!WriteTemp(r)
  <2>1. /\ f.at = "writeTemp" /\ UNCHANGED <<fpmFiles, fpm>> /\ f.at \in PhpWrites
        /\ f.data = "managed"
    BY <1>0, <1>6 DEF Php!WriteTemp, PhpWrites, PoolStage
  <2>2. \/ g = [f EXCEPT !.at = "rename"] /\ fpmTemp'[<<f.file, v>>] = "managed"
        \/ g = Php!WriteFailed(f) /\ f.undo = "no"
    <3>1. <<f.file, v>> \in DOMAIN fpmTemp /\ Php!Path(r) = <<f.file, v>>
      BY <1>0, <2>1 DEF PhpTyped, Php!Paths, Php!Path, PhpFrame
    <3> QED BY <1>0, <1>1, <1>6, <2>1, <3>1 DEF Php!WriteTemp, Php!Kind
  <2>3. CASE g = [f EXCEPT !.at = "rename"] /\ fpmTemp'[<<f.file, v>>] = "managed"
    <3>1. /\ g.at = "rename" /\ g.file = f.file /\ g.data = f.data /\ g.undo = f.undo
          /\ g.version = v /\ g.poolBackup = f.poolBackup
      BY <1>0, <2>3 DEF PhpFrame, PhpFrames
    <3> HIDE DEF f, g, p, s, t
    <3>2. PoolEnds(v, g, p, s, fpmTemp'[<<g.file, v>>])
      BY <1>0, <2>1, <2>3, <3>1 DEF PoolEnds, PoolStage, Busy, PhpWrites
    <3>3. PoolBacked(f) => PoolBacked(g)
      BY <2>1, <3>1 DEF PoolBacked, Busy
    <3> QED BY <1>3, <2>1, <3>2, <3>3
  <2>4. CASE g = Php!WriteFailed(f) /\ f.undo = "no"
    <3> HIDE DEF f, g, p, s, t
    <3>1. /\ PoolEnds(v, g, p, s, fpmTemp'[<<g.file, v>>])
          /\ PoolBacked(f) => PoolBacked(g)
      BY <1>0, <2>1, <2>4, UnwrittenPool
    <3> QED BY <1>3, <2>1, <3>1
  <2> QED BY <2>2, <2>3, <2>4
<1>7. CASE Php!Rename(r) \/ Php!Remove(r)
  <2>1. /\ f.at \in {"rename", "remove"} /\ UNCHANGED fpm /\ f.at \in PhpWrites
        /\ f.file \in {"pool", "override"}
        /\ f.at = "rename" => t = "managed" /\ f.data = "managed"
        /\ f.at = "remove" => f.data = Absent /\ f.undo # "no"
    BY <1>0, <1>7 DEF Php!Rename, Php!Remove, PhpWrites, PoolStage, PhpFrame
  <2>2. <<f.file, v>> \in Php!Paths /\ Php!Path(r) = <<f.file, v>> /\ "managed" # Absent
    BY <1>0, <2>1, ManagersAssumption DEF Php!Paths, Php!Path, Dns!ResolvedAssumption
  <2>3. \/ fpmFiles' = [fpmFiles EXCEPT ![<<f.file, v>>] = f.data] /\ g = Php!Written(f)
        \/ UNCHANGED fpmFiles /\ g = Php!WriteFailed(f) /\ f.undo = "no"
    BY <1>0, <1>1, <1>7, <2>1, <2>2 DEF Php!Rename, Php!Remove, Php!Kind
  <2>4. CASE UNCHANGED fpmFiles /\ g = Php!WriteFailed(f) /\ f.undo = "no"
    <3> HIDE DEF f, g, p, s, t
    <3>1. /\ PoolEnds(v, g, p, s, fpmTemp'[<<g.file, v>>])
          /\ PoolBacked(f) => PoolBacked(g)
      BY <1>0, <2>1, <2>4, UnwrittenPool
    <3> QED BY <1>3, <2>1, <2>4, <3>1
  <2>5. CASE fpmFiles' = [fpmFiles EXCEPT ![<<f.file, v>>] = f.data] /\ g = Php!Written(f)
    <3> DEFINE q == PoolOf(v)'
    <3>1. /\ q = IF f.file = "pool" THEN f.data ELSE p
          /\ \A w \in SupportedVersions \ {v} : PoolOf(w)' = PoolOf(w)
      BY <1>0, <1>2, <2>1, <2>2, <2>5 DEF PoolOf, Php!Pool, PhpTyped
    <3> HIDE DEF f, g, p, s, t, q
    <3>2. /\ f.undo # "all" => s = Read(f.poolBackup)
          /\ f.undo = "no" => q = "managed"
          /\ f.undo = "pool" => q = f.poolBackup
          /\ p = "managed" /\ PoolBacked(f) => q = "managed"
      BY <1>0, <2>1, <3>1 DEF PoolStage, PoolBacked, PhpWrites, Busy
    <3>3. /\ PoolEnds(v, g, q, s, fpmTemp'[<<g.file, v>>])
          /\ PoolBacked(f) => PoolBacked(g)
      BY <1>0, <2>1, <2>5, <3>2, WrittenPool
    <3> QED BY <2>1, <3>1, <3>2, <3>3 DEF PoolStep, f, g, p, s, q
  <2> QED BY <2>3, <2>4, <2>5
<1>8. CASE Php!Check(r)
  <2>1. /\ f.at = "check" /\ UNCHANGED <<fpmFiles, fpm>> /\ s = Read(f.poolBackup) /\ p = "managed"
        /\ f.undo = "no"
    BY <1>0, <1>8 DEF Php!Check, PoolStage
  <2>2. g = [f EXCEPT !.at = "restart"] \/ g = Php!Restore(f, "pool", f.poolBackup, "all")
    BY <1>0, <1>8 DEF Php!Check, Php!Rollback
  <2>3. CASE g = [f EXCEPT !.at = "restart"]
    <3>1. g.at = "restart" /\ g.undo = f.undo /\ g.version = v /\ g.poolBackup = f.poolBackup
      BY <1>0, <2>3 DEF PhpFrame, PhpFrames
    <3> HIDE DEF f, g, p, s, t
    <3> QED BY <1>3, <2>1, <3>1 DEF PoolEnds, PoolStage, PoolBacked, Busy, PhpWrites
  <2>4. CASE g = Php!Restore(f, "pool", f.poolBackup, "all")
    <3> HIDE DEF f, g, p, s, t
    <3>1. PoolBacked(f) => f.poolBackup = "managed"
      BY <2>1 DEF PoolBacked, Busy
    <3> QED BY <1>0, <1>3, <2>1, <2>4, <3>1, RestoredPool
  <2> QED BY <2>2, <2>3, <2>4
<1>9. CASE Php!Restart(r)
  <2>1. /\ f.at = "restart" /\ UNCHANGED fpmFiles /\ p = "managed"
        /\ \A w \in SupportedVersions : PoolOf(w)' = PoolOf(w)
    BY <1>0, <1>9 DEF Php!Restart, PoolStage, PoolOf
  <2>2. \A w \in SupportedVersions \ {v} : fpm'[w] = fpm[w]
    BY <1>0, <1>1, <1>9 DEF Php!Restart, Php!RestartSucceeds, Php!RestartFails, PhpTyped
  <2>3. \/ fpm'[v] = Read(p) /\ g = Php!Returned("ok")
        \/ g = Php!Restore(f, "pool", f.poolBackup, "all")
    BY <1>0, <1>1, <1>2, <1>9 DEF Php!Restart, Php!RestartSucceeds, Php!Rollback, PhpTyped
  <2>4. CASE fpm'[v] = Read(p) /\ g = Php!Returned("ok")
    <3>1. g.at = "returned"
      BY <2>4 DEF Php!Returned, Php!Idle
    <3> QED BY <1>0, <2>1, <2>2, <2>4, <3>1 DEF PoolStep, PoolEnds, PoolBacked, Busy
  <2>5. CASE g = Php!Restore(f, "pool", f.poolBackup, "all")
    <3> DEFINE e == fpm'[v]
    <3> HIDE DEF f, g, p, s, t, e
    <3>1. PoolBacked(f) => f.poolBackup = "managed"
      BY <2>1 DEF PoolBacked, Busy
    <3>2. /\ PoolEnds(v, g, p, e, fpmTemp'[<<g.file, v>>])
          /\ PoolBacked(f) => PoolBacked(g)
      BY <1>0, <2>5, <3>1, RestoredPool
    <3> QED BY <1>0, <2>1, <2>2, <3>2 DEF PoolStep, e, f, g, p
  <2> QED BY <2>3, <2>4, <2>5
<1>10. CASE Php!UndoRestart(r)
  <2>1. /\ f.at = "undoRestart" /\ g = Php!Failed(f)
        /\ \A w \in SupportedVersions : PoolOf(w)' = PoolOf(w)
    BY <1>0, <1>10 DEF Php!UndoRestart, PoolOf
  <2>2. fpm'[v] = Read(p) /\ \A w \in SupportedVersions \ {v} : fpm'[w] = fpm[w]
    BY <1>0, <1>1, <1>2, <1>10
       DEF Php!UndoRestart, Php!TryRestart, Php!RestartSucceeds, Php!RestartFails, PhpTyped
  <2> DEFINE e == fpm'[v]
  <2> HIDE DEF f, g, p, s, t, e
  <2>3. PoolEnds(v, g, p, e, fpmTemp'[<<g.file, v>>]) /\ PoolBacked(g)
    BY <1>0, <2>1, <2>2, FailedPool DEF e
  <2> QED BY <1>0, <2>1, <2>2, <2>3 DEF PoolStep, e, f, g, p
<1>11. CASE Php!RestartPrevious(r)
  <2>1. /\ f.at = "restartPrevious" /\ g = Php!Returned("err") /\ s = Read(p)
        /\ \A w \in SupportedVersions : PoolOf(w)' = PoolOf(w)
    BY <1>0, <1>11 DEF Php!RestartPrevious, PoolOf, PoolStage
  <2>2. \A w \in SupportedVersions : fpm'[w] \in {fpm[w], Read(PoolOf(w))}
    BY <1>0, <1>1, <1>2, <1>11
       DEF Php!RestartPrevious, Php!TryRestart, Php!RestartSucceeds, Php!RestartFails, PhpTyped
  <2>3. g.at = "returned" /\ g.result = "err"
    BY <2>1 DEF Php!Returned, Php!Idle
  <2> QED BY <1>0, <2>1, <2>2, <2>3 DEF PoolStep, PoolEnds, PoolBacked, Busy
<1> QED BY <1>4, <1>5, <1>6, <1>7, <1>8, <1>9, <1>10, <1>11 DEF Php!Step

Needed(v) == \E s \in Settled : s.php = v

\* Where a request's runtime has its pool.
Pooled == {"start", "web", "persist"}

\* A request that waits for its runtime, and one that has it.
PoolReady(r) ==
    /\ pc[r] \in {"materialize", "switchRuntime"} /\ Job(r).op \in SharedOps =>
          /\ Busy(phpCall[r]) => phpCall[r].version = loc[r].runtime
          /\ phpCall[r].at = "returned" /\ phpCall[r].result = "ok" =>
                PoolOf(loc[r].runtime) = "managed"
    /\ pc[r] \in Pooled => PoolOf(loc[r].runtime) = "managed"

PoolHolds(r) ==
    LET f == phpCall[r]
    IN  /\ Busy(f) => PoolStage(f, PoolOf(f.version), fpm[f.version],
                                fpmTemp[<<f.file, f.version>>])
        /\ Needed(f.version) => PoolBacked(f)

\* A service whose version no call is about runs with its pool file, and the
\* versions of the settled sites have theirs.
PhpInv ==
    /\ \A v \in SupportedVersions :
          /\ (\A r \in Callers : ~(Busy(phpCall[r]) /\ phpCall[r].version = v)) =>
                fpm[v] = Read(PoolOf(v))
          /\ Needed(v) => PoolOf(v) = "managed"
    /\ \A r \in Callers : PoolHolds(r) /\ PoolReady(r)

LEMMA PhpStepHolds ==
    ASSUME FaultsAreUndone, Undisturbed, RegistryInv, SerialInv, ManagersTyped,
           PhpInv, NEW r \in Callers, Waits(r, PhpWaits), Php!Step(r), UNCHANGED <<sites, pc, loc>>
    PROVE  PhpInv'
<1> DEFINE f == phpCall[r]
           g == phpCall'[r]
<1>v. PICK v : v = f.version
  OBVIOUS
<1>1. UNCHANGED Settled /\ \A w : Needed(w)' = Needed(w)
  BY UnchangedBefore DEF Needed
<1>2. Busy(f) /\ v \in SupportedVersions
  <2>1. Busy(f)
    BY DEF Busy, Php!Step, Php!ReadPool, Php!ReadOverride, Php!WriteTemp, Php!Rename,
           Php!Remove, Php!Check, Php!Restart, Php!UndoRestart, Php!RestartPrevious
  <2> QED BY <1>v, <2>1 DEF ManagersTyped, PhpTyped, PhpFrame, Busy
<1>3. PoolStep(r, v, PoolOf(v))
  BY <1>v, <1>2, PhpStages DEF ManagersTyped, RegistryInv, PhpInv, PoolHolds
<1>4. \A q \in Callers \ {r} : phpCall'[q] = phpCall[q] /\ phpCall[q].at = "idle" /\ ~Running(q)
  <2>1. \A q \in Callers \ {r} : ~Running(q)
    BY DEF Waits
  <2>2. \A q \in Callers \ {r} : phpCall[q].at = "idle"
    BY <2>1 DEF ManagersTyped, CallsInOrder, Running
  <2>3. \E h : Php!To(r, h)
    BY DEF Php!Step, Php!ReadPool, Php!ReadOverride, Php!WriteTemp, Php!Rename,
           Php!Remove, Php!Check, Php!Restart, Php!UndoRestart, Php!RestartPrevious
  <2>4. \A q \in Callers \ {r} : phpCall'[q] = phpCall[q]
    BY <2>3 DEF Php!To, ManagersTyped, PhpTyped
  <2> QED BY <2>1, <2>2, <2>4
<1>5. /\ PoolEnds(v, g, PoolOf(v)', fpm'[v], fpmTemp'[<<g.file, v>>])
      /\ Needed(v) => PoolOf(v)' = "managed" /\ PoolBacked(g)
      /\ \A w \in SupportedVersions \ {v} : PoolOf(w)' = PoolOf(w) /\ fpm'[w] \in {fpm[w], Read(PoolOf(w))}
  BY <1>v, <1>2, <1>3 DEF PoolStep, PhpInv, PoolHolds
<1>6. \A w \in SupportedVersions \ {v} : fpm[w] = Read(PoolOf(w))
  BY <1>v, <1>4 DEF PhpInv, Busy
<1> HIDE DEF g
<1>7. ASSUME NEW w \in SupportedVersions
      PROVE  /\ (\A q \in Callers : ~(Busy(phpCall'[q]) /\ phpCall'[q].version = w)) =>
                   fpm'[w] = Read(PoolOf(w)')
             /\ Needed(w) => PoolOf(w)' = "managed"
  <2>1. CASE w = v
    <3>1. ~Busy(g) => fpm'[w] = Read(PoolOf(w)')
      BY <1>5, <2>1 DEF PoolEnds, PoolOf
    <3>2. Busy(g) => g.version = w
      BY <1>5, <2>1 DEF PoolEnds
    <3> QED BY <1>5, <2>1, <3>1, <3>2 DEF g, PoolOf
  <2>2. CASE w # v
    BY <1>5, <1>6, <2>2 DEF PhpInv
  <2> QED BY <2>1, <2>2
<1>8. PoolHolds(r)'
  <2>1. Busy(g) => g.version = v /\ PoolStage(g, PoolOf(v)', fpm'[v], fpmTemp'[<<g.file, v>>])
    BY <1>5 DEF PoolEnds
  <2>2. Busy(g) => PoolStage(g, fpmFiles'[Php!Pool(g.version)], fpm'[g.version],
                             fpmTemp'[<<g.file, g.version>>])
    BY <2>1 DEF PoolOf
  <2>3. Needed(g.version) => PoolBacked(g)
    BY <1>5, <2>1 DEF PoolBacked
  <2> QED BY <1>1, <2>2, <2>3 DEF PoolHolds, PoolOf, Needed, g
<1>9. PoolReady(r)'
  <2>1. pc[r] \notin Pooled
    BY DEF Waits, PhpWaits, Pooled
  <2>2. ASSUME pc[r] \in {"materialize", "switchRuntime"}, Job(r).op \in SharedOps
        PROVE  /\ v = loc[r].runtime /\ (Busy(g) => g.version = v)
               /\ g.at = "returned" /\ g.result = "ok" => PoolOf(v)' = "managed"
    BY <1>v, <1>2, <1>5, <2>2 DEF PhpInv, PoolReady, PoolEnds, Busy
  <2>3. UNCHANGED <<pc, loc, Job(r)>>
    BY DEF Job
  <2> QED BY <2>1, <2>2, <2>3 DEF PoolReady, PoolOf, g
<1>10. ASSUME NEW q \in Callers \ {r}
       PROVE  PoolHolds(q)' /\ PoolReady(q)'
  <2>1. ~Busy(phpCall'[q]) /\ pc'[q] \notin {"materialize", "switchRuntime"} \cup Pooled
    BY <1>4 DEF Busy, Running, Pooled
  <2> QED BY <2>1 DEF PoolHolds, PoolReady, PoolBacked
<1> QED BY <1>1, <1>7, <1>8, <1>9, <1>10 DEF PhpInv

\* The service steps around a runtime.
PhpEdge(r) ==
    \/ /\ pc'[r] \notin Pooled \cup PhpWaits
       /\ UNCHANGED phpCall \/ Php!Collect(r)
    \/ /\ pc'[r] \in PhpWaits
       /\ \E v \in SupportedVersions :
             /\ \/ Php!MaterializeRuntime(r, v)
                \/ \E p \in SupportedVersions : Php!SwitchRuntime(r, p, v)
             /\ pc'[r] # "switchBack" /\ Job(r).op \in SharedOps => v = loc'[r].runtime
    \/ /\ pc[r] \in {"materialize", "switchRuntime"} /\ pc'[r] \in Pooled
       /\ Php!Collect(r) /\ phpCall[r].result = "ok"
       /\ loc'[r] = loc[r] /\ Job(r).op \in SharedOps
    \/ /\ pc[r] = "prepare" /\ pc'[r] \in Pooled /\ UNCHANGED phpCall
       /\ loc'[r].runtime = loc[r].current.php
    \/ /\ pc[r] \in Pooled /\ pc'[r] \in Pooled /\ UNCHANGED phpCall
       /\ loc'[r].runtime = loc[r].runtime

LEMMA AbortPhp ==
    ASSUME RegistryInv, NEW r \in Callers, pc[r] \in {"start", "web", "undoWeb"},
           \/ Abort(r)
           \/ ~Is(r, "activate") /\ SwitchBack(r)
    PROVE  PhpEdge(r)
<1>0. LocalsTyped /\ Placed(r, pc[r], loc[r], result[r])
  BY DEF RegistryInv, Places
<1>1. loc[r].next \in SiteRecords /\ (~Is(r, "activate") => loc[r].current \in SiteRecords)
  BY <1>0, TwoRecords
<1>2. CASE ~Is(r, "activate") /\ SwitchBack(r)
  <2>1. loc[r].next.php \in SupportedVersions /\ loc[r].current.php \in SupportedVersions
    BY <1>1, <1>2, WebSite
  <2>2. pc'[r] = "switchBack" /\ Php!SwitchRuntime(r, loc[r].next.php, loc[r].current.php)
    BY <1>0, <1>2, FinishIsDone DEF SwitchBack
  <2> QED BY <2>1, <2>2 DEF PhpEdge, PhpWaits
<1>3. CASE pc'[r] \in {"done", "undoList", "undoRecord"} /\ UNCHANGED phpCall
  BY <1>3 DEF PhpEdge, Pooled, PhpWaits
<1>4. \/ ~Is(r, "activate") /\ SwitchBack(r)
      \/ pc'[r] \in {"done", "undoList", "undoRecord"} /\ UNCHANGED phpCall
  BY <1>0, FinishIsDone DEF Abort, RollbackAfterWeb
<1> QED BY <1>2, <1>3, <1>4


LEMMA PhpEdges ==
    ASSUME RegistryInv, NEW r \in Callers, ServiceStep(r)
    PROVE  PhpEdge(r)
<1> USE FinishIsDone
<1>0. LocalsTyped /\ Placed(r, pc[r], loc[r], result[r]) /\ loc[r] \in Locals
  BY DEF RegistryInv, Places, LocalsTyped
<1>q. ASSUME pc'[r] \notin Pooled \cup PhpWaits, UNCHANGED phpCall \/ Php!Collect(r)
      PROVE  PhpEdge(r)
  BY <1>q DEF PhpEdge
<1>1. CASE Resolve(r) \/ UndoRecord(r) \/ GetSite(r) \/ RegisterSite(r) \/ StubRemoved(r) \/ UndoList(r)
  <2>1. UNCHANGED phpCall
    BY <1>1 DEF Resolve, UndoRecord, GetSite, RegisterSite, StubRemoved, UndoList, php
  <2>2. pc'[r] \in {"done", "register", "prepare", "ensureStub", "undoStub", "undoRecord"}
    BY <1>0, <1>1 DEF Resolve, UndoRecord, GetSite, RegisterSite, StubRemoved, UndoList
  <2> QED BY <1>q, <2>1, <2>2 DEF Pooled, PhpWaits
<1>2. CASE StubEnsured(r)
  <2>1. CASE pc'[r] \in {"undoList", "undoRecord"} /\ UNCHANGED phpCall
    BY <1>q, <2>1 DEF Pooled, PhpWaits
  <2>2. CASE /\ pc'[r] = "materialize" /\ Php!MaterializeRuntime(r, loc[r].runtime)
             /\ loc'[r] = [loc[r] EXCEPT !.committedResolver = TRUE]
    <3>1. Job(r) \in Jobs
      BY <1>0, <1>2, RunningHasJob DEF Running, StubEnsured, At
    <3>2. loc[r].runtime \in SupportedVersions
      BY <1>0, <1>2, <3>1, JobFields DEF StubEnsured, At, Placed, Job, AfterRegister
    <3>3. loc'[r].runtime = loc[r].runtime
      BY <1>0, <2>2 DEF Locals
    <3> QED BY <2>2, <3>2, <3>3 DEF PhpEdge, PhpWaits
  <2> QED BY <1>0, <1>2, <2>1, <2>2 DEF StubEnsured, RollbackAfterWeb
<1>3. CASE Prepare(r)
  <2> DEFINE s == loc[r].current
             n == updatedSite(r)
             x == [loc[r] EXCEPT !.next = n, !.runtime = n.php]
  <2>0. pc[r] = "prepare" /\ Job(r) \in Jobs
    BY <1>0, <1>3, RunningHasJob DEF Prepare, At, Running
  <2>1. s \in SiteRecords /\ n \in SiteRecords
    <3>1. Job(r).op \in {"update", "switch"}
      BY <1>0, <2>0, JobFields DEF Placed, Job, AfterRegister
    <3>2. s \in SiteRecords
      BY <1>0, <2>0, <3>1 DEF Placed, Job
    <3> QED BY <2>0, <3>1, <3>2, UpdatedIsSite
  <2>2. s.php \in SupportedVersions /\ n.php \in SupportedVersions /\ x.runtime = n.php
    BY <1>0, <2>1, WebSite DEF Locals
  <2>3. CASE pc'[r] = "done" /\ UNCHANGED phpCall
    BY <1>q, <2>3 DEF Pooled, PhpWaits
  <2>4. CASE loc'[r] = x /\ pc'[r] = "switchRuntime" /\ Php!SwitchRuntime(r, s.php, n.php)
    BY <2>2, <2>4 DEF PhpEdge, PhpWaits
  <2>5. CASE loc'[r] = x /\ pc'[r] \in {"persist", "start"} /\ UNCHANGED phpCall /\ s.php = n.php
    BY <2>0, <2>2, <2>5 DEF PhpEdge, Pooled
  <2> HIDE DEF x, s, n
  <2> QED BY <1>0, <1>3, <2>3, <2>4, <2>5 DEF Prepare, x, s, n
<1>4. CASE RuntimeReady(r)
  <2>1. Php!Collect(r) /\ pc[r] \in {"materialize", "switchRuntime"}
    BY <1>4 DEF RuntimeReady
  <2>2. CASE pc'[r] \in {"status", "done", "undoList", "undoRecord"}
    BY <1>q, <2>1, <2>2 DEF Pooled, PhpWaits
  <2>3. CASE pc'[r] \in {"web", "start"} /\ phpCall[r].result = "ok" /\ UNCHANGED loc
             /\ Job(r).op \in {"activate", "update", "switch"}
    BY <2>1, <2>3 DEF PhpEdge, Pooled, SharedOps
  <2> QED BY <1>0, <1>4, <2>2, <2>3 DEF RuntimeReady, Is, RollbackAfterWeb
<1>5. CASE StartServices(r)
  <2>1. CASE Abort(r)
    BY <1>5, <2>1, AbortPhp DEF StartServices, At
  <2>2. CASE pc'[r] = "web" /\ UNCHANGED <<loc, phpCall>> /\ pc[r] = "start"
    BY <2>2 DEF PhpEdge, Pooled
  <2> QED BY <1>0, <1>5, <2>1, <2>2 DEF StartServices, At
<1>6. CASE WebActivated(r)
  <2>1. CASE Abort(r)
    BY <1>6, <2>1, AbortPhp DEF WebActivated, At
  <2>2. CASE pc'[r] = "persist" /\ UNCHANGED phpCall /\ pc[r] = "web"
             /\ loc'[r] = [loc[r] EXCEPT !.committedWeb = TRUE]
    <3>1. loc'[r].runtime = loc[r].runtime
      BY <1>0, <2>2 DEF Locals
    <3> QED BY <2>2, <3>1 DEF PhpEdge, Pooled
  <2> QED BY <1>0, <1>6, <2>1, <2>2 DEF WebActivated, At
<1>7. CASE Persist(r)
  <2>1. UNCHANGED phpCall /\ pc'[r] \in {"done", "undoWeb"}
    BY <1>0, <1>7 DEF Persist, php
  <2> QED BY <1>q, <2>1 DEF Pooled, PhpWaits
<1>8. CASE WebUndone(r)
  <2>1. CASE Is(r, "update") /\ SwitchBack(r)
    BY <1>8, <2>1, AbortPhp DEF WebUndone, At, Is
  <2>2. CASE pc'[r] \in {"undoList", "undoRecord", "restartPrevious", "done"} /\ UNCHANGED phpCall
    BY <1>q, <2>2 DEF Pooled, PhpWaits
  <2> QED BY <1>0, <1>8, <2>1, <2>2 DEF WebUndone, RollbackAfterWeb
<1>9. CASE SwitchedBack(r) \/ RestartPreviousService(r) \/ RefreshInventory(r) \/ ServiceStatus(r)
           \/ SetDefaultVersion(r)
  <2>1. UNCHANGED phpCall \/ Php!Collect(r)
    BY <1>9 DEF SwitchedBack, RestartPreviousService, RefreshInventory, ServiceStatus,
                SetDefaultVersion, php
  <2>2. pc'[r] \in {"done", "registerRuntime"}
    BY <1>0, <1>9 DEF SwitchedBack, RestartPreviousService, RefreshInventory, ServiceStatus,
                      SetDefaultVersion
  <2> QED BY <1>q, <2>1, <2>2 DEF Pooled, PhpWaits
<1>10. CASE RegisterPHP(r)
  <2>1. CASE pc'[r] = "done" /\ UNCHANGED phpCall
    BY <1>q, <2>1 DEF Pooled, PhpWaits
  <2>2. CASE /\ pc'[r] = "materialize" /\ Verified(Job(r).version, Job(r).binary)
             /\ Php!MaterializeRuntime(r, detectRuntimeVersion(Job(r).binary))
    <3>1. Job(r).op \notin SharedOps
      BY <1>0, <1>10 DEF RegisterPHP, At, Placed, Job, AfterRegister, SharedOps
    <3> QED BY <2>2, <3>1 DEF PhpEdge, PhpWaits, Verified
  <2> QED BY <1>0, <1>10, <2>1, <2>2 DEF RegisterPHP, RegisterRuntime
<1> QED BY <1>1, <1>2, <1>3, <1>4, <1>5, <1>6, <1>7, <1>8, <1>9, <1>10 DEF ServiceStep


\* A request that is not waiting for the PHP-FPM manager finds every service
\* running with its pool file.
LEMMA PoolsAreRead ==
    ASSUME RegistryInv, SerialInv, ManagersTyped, PhpInv, NEW r \in Callers, Running(r),
           pc[r] \notin PhpWaits
    PROVE  \A v \in SupportedVersions : fpm[v] = Read(PoolOf(v))
<1>1. \A q \in Callers : phpCall[q].at = "idle"
  BY Alone DEF ManagersTyped, CallsInOrder, Running, PhpWaits
<1> QED BY <1>1 DEF PhpInv, Busy

\* So the services that start or restart one change nothing.
LEMMA FpmStays ==
    ASSUME FaultsAreUndone, Undisturbed, RegistryInv, SerialInv, ManagersTyped, PhpInv,
           NEW r \in Callers, ServiceStep(r)
    PROVE  UNCHANGED fpm
<1>1. Running(r) /\ PhpTyped
  BY StepRuns DEF ManagersTyped
<1>2. ASSUME StartServices(r) \/ RestartPreviousService(r)
      PROVE  \A v \in SupportedVersions : fpm[v] = Read(PoolOf(v))
  BY <1>1, <1>2, PoolsAreRead DEF StartServices, RestartPreviousService, At, PhpWaits
<1>3. CASE StartServices(r)
  <2>1. \A v : Php!StartService(v) => UNCHANGED fpm
    BY <1>1, <1>2, <1>3 DEF Php!StartService, Read, PhpTyped
  <2> QED BY <1>3, <2>1 DEF StartServices
<1>4. CASE RestartPreviousService(r)
  <2>1. r \notin cancelled /\ ~Php!Fails("undo") /\ ~Php!CommandRefused(r)
        /\ ~Php!CommandBreaks(r, "undo")
    BY DEF FaultsAreUndone, Undisturbed, Php!Fails, Php!CommandRefused, Php!CommandBreaks, Php!Cancel,
           RegistryInv
  <2>2. PICK v : v = loc[r].current.php /\ fpm' = [fpm EXCEPT ![v] = Php!Started(v)]
    BY <1>4, <2>1 DEF RestartPreviousService, Php!TryRestart, Php!RestartSucceeds, Php!RestartFails
  <2>3. v \in SupportedVersions => Php!Started(v) = fpm[v]
    BY <1>2, <1>4 DEF Php!Started, Read, PoolOf
  <2> QED BY <1>1, <2>2, <2>3 DEF PhpTyped
<1> QED BY <1>3, <1>4 DEF ServiceStep, Resolve, RegisterSite, StubEnsured, UndoList, StubRemoved,
      UndoRecord, GetSite, Prepare, RuntimeReady, WebActivated, Persist, WebUndone, SwitchedBack,
      RefreshInventory, RegisterPHP, ServiceStatus, SetDefaultVersion, php


LEMMA PhpService ==
    ASSUME FaultsAreUndone, Undisturbed, RegistryInv, SerialInv, HoldInv, ManagersTyped,
           ManagersTyped', PhpInv, NEW r \in Callers, ServiceStep(r)
    PROVE  PhpInv'
<1>1. PICK l, x, res :
         /\ Placed(r, l, x, res) /\ Effect(r, l, x, res)
         /\ pc'[r] = l /\ loc'[r] = x /\ x.job = Job(r)
         /\ \A q \in Callers \ {r} : pc'[q] = pc[q] /\ loc'[q] = loc[q] /\ ~Running(q)
         /\ Running(r) /\ Job(r) \in Jobs
  BY ServiceMove
<1>2. PhpEdge(r) /\ Holds(r) /\ Placed(r, pc[r], loc[r], result[r]) /\ PoolReady(r)
  BY PhpEdges, Holding DEF HoldInv, PhpInv
<1>3. UNCHANGED <<fpm, fpmFiles, fpmTemp>>
  BY FpmStays, ServiceUses DEF RegistryInv, Places, Uses, FilesStay
<1>4. PICK h : h = phpCall'[r]
  OBVIOUS
<1>5. \A q \in Callers \ {r} : /\ ~Busy(phpCall[q]) /\ ~Busy(phpCall'[q])
                               /\ pc'[q] \notin {"materialize", "switchRuntime"} \cup Pooled
  BY <1>1 DEF ManagersTyped, CallsInOrder, Running, Busy, Pooled
<1>6. ~Busy(phpCall[r])
  <2>1. l \notin PhpWaits => phpCall'[r].at = "idle"
    BY <1>1 DEF ManagersTyped, CallsInOrder, PhpWaits
  <2> QED BY <1>1, <1>2, <2>1 DEF PhpEdge, Busy, Php!Collect, Php!MaterializeRuntime,
                                  Php!SwitchRuntime, Pooled, PhpWaits
<1>7. \A v \in SupportedVersions : fpm[v] = Read(PoolOf(v))
  BY <1>5, <1>6 DEF PhpInv
<1>8. ASSUME NEW v \in SupportedVersions, \E s \in Settled' : s.php = v
      PROVE  PoolOf(v) = "managed"
  <2>1. CASE UNCHANGED Settled
    BY <1>8, <2>1 DEF PhpInv, Needed
  <2>2. CASE pc[r] = "persist" /\ Settled' = Done(r)
    <3>1. loc[r].next.php = loc[r].runtime
      BY <1>1, <1>2, <2>2, JobFields DEF Placed, Job, AfterRegister
    <3>2. PoolOf(loc[r].runtime) = "managed"
      BY <1>2, <2>2 DEF PoolReady, Pooled
    <3> QED BY <1>8, <2>2, <3>1, <3>2 DEF Done, PhpInv, Needed
  <2> QED BY <2>1, <2>2, SettledService
<1>9. /\ Busy(h) => /\ h.at = "readPool" /\ h.undo = "no" /\ h.version \in SupportedVersions
                    /\ l \in PhpWaits
                    /\ l # "switchBack" /\ Job(r).op \in SharedOps => h.version = x.runtime
      /\ l \in {"materialize", "switchRuntime"} => Busy(h)
  <2>1. \A g : Php!To(r, g) => h = g
    BY <1>4 DEF ManagersTyped, PhpTyped, Php!To
  <2>2. CASE l \notin PhpWaits
    BY <1>1, <1>4, <2>2 DEF ManagersTyped, CallsInOrder, PhpWaits, Busy
  <2>3. CASE l \in PhpWaits
    <3>1. PICK v \in SupportedVersions :
             /\ \/ Php!MaterializeRuntime(r, v)
                \/ \E p \in SupportedVersions : Php!SwitchRuntime(r, p, v)
             /\ l # "switchBack" /\ Job(r).op \in SharedOps => v = x.runtime
      BY <1>1, <1>2, <2>3 DEF PhpEdge, Pooled, PhpWaits
    <3>2. h.at = "readPool" /\ h.version = v /\ h.undo = "no"
      BY <2>1, <3>1 DEF Php!MaterializeRuntime, Php!SwitchRuntime, Php!Idle
    <3> QED BY <2>3, <3>1, <3>2 DEF Busy
  <2> QED BY <2>2, <2>3
<1>10. PoolHolds(r)'
  <2>1. ASSUME Busy(h)
        PROVE  /\ PoolStage(h, fpmFiles[Php!Pool(h.version)], fpm[h.version],
                            fpmTemp[<<h.file, h.version>>])
               /\ PoolBacked(h)
    BY <1>7, <1>9, <2>1 DEF PoolStage, PoolBacked, PoolOf, PhpWrites
  <2>2. ~Busy(h) => PoolBacked(h)
    BY DEF PoolBacked
  <2> QED BY <1>3, <1>4, <2>1, <2>2 DEF PoolHolds, PoolOf
<1>11. PoolReady(r)'
  <2>1. Job(r)' = Job(r)
    BY <1>1 DEF Job
  <2>2. ASSUME l \in Pooled
        PROVE  fpmFiles[Php!Pool(x.runtime)] = "managed"
    <3>1. CASE /\ pc[r] \in {"materialize", "switchRuntime"} /\ Php!Collect(r)
               /\ phpCall[r].result = "ok" /\ x = loc[r] /\ Job(r).op \in SharedOps
      BY <1>2, <3>1 DEF PoolReady, PoolOf, Php!Collect
    <3>2. CASE pc[r] = "prepare" /\ x.runtime = loc[r].current.php
      <4>1. Edits(r)
        BY <1>1, <1>2, <3>2, JobFields DEF Placed, Edits, Job, AfterRegister
      <4>2. loc[r].current \in sites /\ loc[r].current \in SiteRecords
        BY <1>2, <3>2, <4>1 DEF Holds, Placed, Edits, Job
      <4>3. loc[r].current \in Settled
        BY <1>1, <4>1, <4>2, SettledIs DEF Edits, Is
      <4>4. PICK v \in SupportedVersions : v = loc[r].current.php
        BY <4>2, WebSite
      <4> QED BY <3>2, <4>3, <4>4 DEF PhpInv, Needed, PoolOf
    <3>3. CASE pc[r] \in Pooled /\ x.runtime = loc[r].runtime
      BY <1>2, <3>3 DEF PoolReady, PoolOf
    <3> QED BY <1>1, <1>2, <2>2, <3>1, <3>2, <3>3 DEF PhpEdge, Pooled, PhpWaits
  <2>3. ASSUME l \in {"materialize", "switchRuntime"}, Job(r).op \in SharedOps
        PROVE  Busy(h) /\ h.version = x.runtime
    BY <1>9, <2>3
  <2> QED BY <1>1, <1>3, <1>4, <2>1, <2>2, <2>3 DEF PoolReady, PoolOf, Busy
<1>12. ASSUME NEW v \in SupportedVersions
       PROVE  fpm'[v] = Read(PoolOf(v)') /\ (Needed(v)' => PoolOf(v)' = "managed")
  <2>1. PoolOf(v)' = PoolOf(v)
    BY <1>3 DEF PoolOf
  <2> QED BY <1>3, <1>7, <1>8, <2>1 DEF Needed
<1>13. ASSUME NEW q \in Callers \ {r}
       PROVE  PoolHolds(q)' /\ PoolReady(q)'
  BY <1>5 DEF PoolHolds, PoolReady, PoolBacked
<1> QED BY <1>10, <1>11, <1>12, <1>13 DEF PhpInv

LEMMA PhpKept ==
    ASSUME FaultsAreUndone, Undisturbed, RegistryInv, SerialInv, HoldInv, ManagersTyped,
           ManagersTyped', PhpInv, [Next]_vars
    PROVE  PhpInv'
<1>1. ASSUME NEW r \in Callers, NEW j \in Jobs, Begin(r, j)
      PROVE  PhpInv'
  <2>1. /\ UNCHANGED <<fpmFiles, fpmTemp, fpm, phpCall, Settled>> /\ Quiescent
        /\ pc'[r] \in {"resolve", "get", "registerRuntime", "inventory", "setDefault"}
        /\ \A q \in Callers \ {r} : pc'[q] = pc[q]
    BY <1>1, BeginIs DEF php, RegistryInv, LocalsTyped
  <2>2. \A q \in Callers : pc'[q] \notin Pooled \cup {"materialize", "switchRuntime"}
    BY <2>1 DEF Quiescent, Running, Pooled
  <2> QED BY <2>1, <2>2 DEF PhpInv, PoolHolds, PoolReady, PoolOf, Needed
<1>2. CASE UNCHANGED <<sites, pc, loc>> /\ UNCHANGED php
  <2>1. UNCHANGED <<fpmFiles, fpmTemp, fpm, phpCall, Settled>>
    BY <1>2, UnchangedBefore DEF php
  <2> QED BY <1>2, <2>1 DEF PhpInv, PoolHolds, PoolReady, PoolOf, Needed, Job
<1> QED BY <1>1, <1>2, NextIsOneOf, PhpService, PhpStepHolds

LEMMA PhpInit ==
    ASSUME Init
    PROVE  PhpInv
<1>1. \A r \in Callers : pc[r] = "idle"
  BY DEF Init
<1>2. Settled = sites
  BY <1>1, AllSettled DEF Quiescent, Running
<1>3. \A r \in Callers : phpCall[r].at = "idle"
  BY DEF Init, Php!Idle
<1>4. ASSUME NEW v \in SupportedVersions
      PROVE  fpm[v] = Read(PoolOf(v)) /\ (Needed(v) => PoolOf(v) = "managed")
  <2>1. Php!Pool(v) \in Php!Paths /\ Php!Pool(v)[2] = v
    BY DEF Php!Pool, Php!Paths
  <2>2. PoolOf(v) = IF \E s \in sites : s.php = v THEN "managed" ELSE Absent
    BY <2>1 DEF Init, PoolOf
  <2>3. fpm[v] = Read(PoolOf(v))
    BY DEF Init, Php!Started, Read, PoolOf
  <2> QED BY <1>2, <2>2, <2>3 DEF Needed
<1>5. \A r \in Callers : PoolHolds(r) /\ PoolReady(r)
  BY <1>1, <1>3 DEF PoolHolds, PoolReady, PoolBacked, Busy, Pooled
<1> QED BY <1>4, <1>5 DEF PhpInv


-----------------------------------------------------------------------------
LEMMA ServedAlways ==
    ASSUME Undisturbed, FaultsAreUndone
    PROVE  Spec => [](DnsInv /\ PhpInv)
<1>1. Init => HoldInv /\ DnsInv /\ PhpInv
  BY HoldInit, DnsInit, PhpInit
<1>2. /\ RegistryInv /\ SerialInv /\ ManagersTyped /\ HoldInv /\ DnsInv /\ PhpInv /\ [Next]_vars
      /\ RegistryInv' /\ SerialInv' /\ ManagersTyped'
      => HoldInv' /\ DnsInv' /\ PhpInv'
  BY HoldKept, DnsKept, PhpKept
<1>3. Spec => []SerialInv
  BY SerialAlways DEF Undisturbed
<1> QED BY <1>1, <1>2, <1>3, RegistryAlways, ManagersAlwaysTyped, PTL DEF Spec

LEMMA SettledHasPool ==
    ASSUME RegistryInv, ManagersTyped, PhpInv, Quiescent, NEW s \in sites
    PROVE  HasPool(s)
<1>1. \A r \in Callers : phpCall[r].at = "idle"
  BY DEF ManagersTyped, CallsInOrder, Quiescent, Running
<1>2. PICK v \in SupportedVersions : v = s.php
  BY WebSite DEF RegistryInv, RegistriesTyped
<1>3. Needed(v)
  BY <1>2, AllSettled DEF Needed
<1>4. PoolOf(v) = "managed" /\ fpm[v] = "managed"
  BY <1>1, <1>2, <1>3 DEF PhpInv, Busy, Read
<1> QED BY <1>2, <1>4 DEF HasPool, PoolOf

\* Served one after the other, the activated sites have their FPM pool
\* (local-site-serving/spec.md:11): a service that is started or restarted has
\* its pool file by then, and a call that fails puts back the file it found
\* (host/ubuntu/php/manager.go).  Two activations at once can break this.
THEOREM ActivatedSitesAlwaysHavePool ==
    ASSUME Undisturbed, FaultsAreUndone
    PROVE  Spec => []ActivatedSitesHavePool
<1>1. RegistryInv /\ ManagersTyped /\ PhpInv => ActivatedSitesHavePool
  BY SettledHasPool DEF ActivatedSitesHavePool
<1> QED BY <1>1, ServedAlways, RegistryAlways, ManagersAlwaysTyped, PTL

\* Between requests every registered site is served as its record says, by
\* its own file, which Caddy imports and has loaded, by the resolver and by
\* the pool of its PHP version: a request that fails in any of its steps has
\* taken back what it did (orchestration.go:108-121, site_management.go:74-103,
\* php_manager.go:81-107).
THEOREM SitesAlwaysServed ==
    ASSUME Undisturbed, FaultsAreUndone, OperatorBlocks # {}
    PROVE  Spec => []SitesAreServed
<1>1. RegistryInv /\ SerialInv /\ ManagersTyped /\ WebInv /\ DnsInv /\ PhpInv => SitesAreServed
  <2> SUFFICES ASSUME RegistryInv, SerialInv, ManagersTyped, WebInv, DnsInv, PhpInv, Quiescent,
                      NEW s \in sites
               PROVE  IsServed(s)
    BY DEF SitesAreServed
  <2>1. /\ caddyFiles = FilesOf(sites) /\ live = {siteToWebSite(t) : t \in sites} /\ Apart(sites)
    BY SettledIsServed
  <2>2. IsConfigured(s)
    BY <2>1, FilesOfIs DEF IsConfigured
  <2>3. IsImported(s)
    <3>1. WebP!HasImport(FilesOf(sites)[Root])
      BY <2>1, RootOf
    <3>2. Web!HasImport(caddyFiles[Root])
      BY <2>1, <3>1 DEF Web!HasImport, WebP!HasImport, Web!Import, WebP!Import
    <3> QED BY <2>1, <3>2 DEF IsImported
  <2>4. Resolves
    BY AllSettled DEF DnsInv
  <2>5. HasPool(s)
    BY SettledHasPool
  <2> QED BY <2>2, <2>3, <2>4, <2>5 DEF IsServed
<1>2. Spec => []SerialInv
  BY SerialAlways DEF Undisturbed
<1> QED BY <1>1, <1>2, WebAlways, ServedAlways, RegistryAlways, ManagersAlwaysTyped, PTL
==============================================================================
