# Lara Nux: a verification project

Lara Nux serves local Laravel projects on Ubuntu.  A privileged daemon
(`lara-nuxd`) keeps a registry of sites and PHP runtimes and configures Caddy,
systemd-resolved and PHP-FPM for them; a desktop shell talks to it over a Unix
socket; a Debian package installs both.  This directory holds TLA+ models of the
daemon, the package and the client, TLC configurations that check them on small
instances, and proofs that TLAPS checks for all instances.

Paths below are relative to `src/daemon/internal/` unless they start with `src/`.

## 1. Inventory

| Component | State | Operations that change state | Modules |
|---|---|---|---|
| JSON state files (`app/state_store.go`) | a file and its `.tmp` | load, save | `StateStore`, `AtomicStore`, `StateStore_proofs` |
| Site registry (`app/site_registry.go`) | `sites.json`, a mutex | Register, Update, Delete, SetStatus | `SiteRegistry`, `SiteStore`, `SiteStore_proofs` |
| PHP registry (`app/php_registry.go`) | `php-runtimes.json`, a mutex | Register, SetDefault | `PHPRegistry`, `PHPStore`, `PHPStore_proofs` |
| Caddy manager (`host/ubuntu/caddy`) | the Caddyfile, one `*.caddy` per site, what Caddy has loaded | ActivateSite, RemoveSite | `Caddy`, `CaddyCall`, `Caddy_proofs` |
| Resolver manager (`host/ubuntu/resolved`) | the `~test` drop-in, what systemd-resolved has loaded | EnsureTestStub, RemoveManagedStub | `Resolved`, `Health_proofs` |
| PHP-FPM manager (`host/ubuntu/php`) | pool file and systemd override per version, the services | MaterializeRuntime, SwitchRuntime, (RemoveRuntime) | `PhpFpm` |
| systemd manager (`host/ubuntu/systemd`, `app/service_manager.go`) | services | start, stop, restart | `Health`, parts of `PhpFpm` |
| Activation (`app/orchestration.go`) | none | Activate with a deferred rollback | `Orchestration`, `Orchestration_proofs` |
| Site management (`app/site_management.go`) | none | Update | `Orchestration` |
| PHP manager (`app/php_manager.go`) | none | SwitchSiteRuntime | `Orchestration` |
| Onboarding (`app/runtime_onboarding.go`), catalog (`app/runtime_catalog.go`) | none | Register, SetDefault | `Orchestration` |
| Package manager (`host/ubuntu/packages`) | installed packages | Acquire (offered by no RPC) | inventory only |
| RPC server (`api/`) | requests in flight | one goroutine per request | `Begin`, `Report`, `ServiceRequest` |
| Daemon (`src/daemon/cmd`) and its unit (`src/packaging/ubuntu/systemd`) | process, socket, unit | start, bind, serve, shut down; ExecStartPre, ExecStartPost, ExecStopPost, Restart | `Daemon`, and `Crash` elsewhere |
| Bootstrap, managed assets (`app/`) | directories, a manifest | Preflight, PrepareFilesystem, Save | `Daemon` |
| Health (`app/health_service.go`) | none | Report: a sequence of reads | `Health`, `Health_proofs` |
| Package scripts (`src/packaging/ubuntu/scripts`) | the unit, the group, managed files | postinst, prerm, postrm | `Package`, `Package_proofs` |
| Desktop shell (`src/client/wails`) | shell state and its mutex, snapshots | one goroutine per call and per announcement | `DesktopShell`, `DesktopShell_proofs` |
| The two pages (`src/client/ui/composables`) | data, flags, feedback, error | refresh, registerSite, execute | `DesktopShell` |
| Rest of the UI, contracts | — | — | not modelled: rendering and declarations |

**Interaction.**  Every RPC runs in a goroutine of its own with the request's
context.  The services call the registries and the host managers; they keep no
state and take no lock.  Only the registries have a mutex, held for one method.
The host managers write files through `path + ".tmp"` and a rename, and run
commands with `exec.CommandContext`, so a context that is done stops them.  The
desktop shell gives every request ten seconds.

**What is hard.**  Handlers interleave at every file-system call and command of
the managers; whole records are read early and written late; temporaries are
shared by name; rollbacks run with a context that may be the reason for the
failure; the daemon may die between any two steps and reconciles nothing when
it starts again.  `PROJECT.json` lists these hazards at their lines.

**What makes each component correct.**  The state files are atomic stores.  The
registry never holds two sites of one name or domain, and the default runtime is
registered.  A manager's call that fails leaves its files as they were; what the
operator wrote in the Caddyfile is never lost.  Between requests every registered
site is served as its record says and nothing else is; every request is answered.
A health report says of the machine what held while it was made.  A daemon that
serves has a socket that the group can use; a unit that was started serves in the
end; an uninstall leaves nothing managed behind and takes nothing else away.  The
shell's state is read whole, and a page shows the changes it confirmed.

## 2. Modules

`AtomicStore` is the abstract specification of a state file: operations take
effect one at a time, entirely or not at all, and a crash loses calls, never a
part of the value.

`StateStore` is the code: lock, look at the context, load, work out the new
state, truncate the temporary, fill it, rename it, unlock.  The operation is the
parameter `Apply`.  Every file-system call may fail and the daemon may die at
each step.  `SiteRegistry` and `PHPRegistry` define the registry methods as
operators on the registry's state; `SiteStore` and `PHPStore` give them to
`StateStore`.

`Host` is what the managers share: a request's context (`Cancel`), the three
ends of a command (it succeeds; it is refused because the context is done; it
breaks, with or without its effect), and a budget of failures by kind.

`Caddy`, `Resolved` and `PhpFpm` model the managers, one action per file-system
call or command, with the local variables of each call in a frame.  The labels in
the frame (`ok`, `err`, `undo`) say where the call goes after the write it is in,
as the `if err != nil` around each write does.  `CaddyCall` adds a history
variable with the files at the start of the call and who makes it.

`Orchestration` composes them: `Web`, `Dns` and `Php` are instances of the three
managers, and each registry method is one atomic step, which is what the
refinement of `AtomicStore` justifies.  The variable `pc` says where each request
is in its service; the actions follow the handlers from one call to the next,
including the deferred rollback of `Activate`.

`Health` extends `Resolved` with services, registries and projects that change while
a report is made.  Each call of `Report` is an action; so are the two commands of a
service action.  The history variables `held` and `missed` collect what held, and
what did not, at some time since the report began: a report without a snapshot can
be right about no more than that.

`Daemon` is the process from `main` to its end, one action per step that touches the
machine, and the unit around it.  The unit is of `Type=simple`, so ExecStartPost
runs beside the daemon that is still binding its socket.  `Package` extends it with
the maintainer scripts: a dpkg operation is a list of steps, named for the commands
of the scripts, and an error takes dpkg to the scripts it unwinds with, as Debian
policy describes.  dpkg and systemctl are external.

`DesktopShell` has one process per click and per goroutine: the calls of
`LoadDashboard`, the two assignments of a mark under the mutex, the announcement, and
the page's part before and after each `await`.  The daemon's data is a version number
that each change increments.

Abstractions, besides names and texts:

- a site name is a function of the root (`NameOf`; roots may share a name), and a
  record keeps identifier, root, domain and version; its status is not kept;
- a random identifier is new: a site has the name of the request that makes it;
- a Caddyfile is the set of its blocks, a site file the configuration it was
  rendered from; `caddy validate` and a reload accept the files if the Caddyfile
  exists and no two sites have one domain (`Adapts`, external);
- filling a host manager's temporary is one step: a failure or a crash may leave it
  truncated in `Caddy`, but no other request sees it half filled (in the code one may,
  since the temporaries are shared), so nothing is claimed of the files' content when
  calls overlap; in `StateStore`, whose mutex keeps the writers apart, truncating and
  filling are two steps; the chmods and directory checks are failures of the write they
  belong to, and the chmod after the rename is the kind `chmod`;
- consecutive reads, and consecutive commands without an effect on the model
  (daemon-reload and `php-fpm -t`; `systemctl start` of Caddy and of FPM), are one step;
- each version has its own FPM service, Caddy itself runs, and no other resolver
  file claims `~test` in `Orchestration`;
- in `Health` the only wrong socket, port or project is one that is missing, and a
  runtime is its FPM service; the privileges check always passes (the unit runs the
  daemon as root);
- in `Package` activating a site is one step, `systemctl` itself does not fail, and
  the machine runs systemd;
- a crash keeps what was written: loss of power, with files not synced, is not
  modelled.

## 3. Runs

Passing runs:

| Run | Instance | What it shows |
|---|---|---|
| `site_store` | 2 callers, 2 identifiers, 4 roots of which 2 share a name and 1 is no project, all I/O failures, cancellations, crashes | `FileIsWhole`, `PlanIsCurrent` (no lost update), `RegistrationsNeverCollide`, `OneSitePerSave`, `AtomicStoreSpec` (refinement), `CallsReturn` (liveness) |
| `php_store` | 2 callers, 5 binaries, 2 versions, the same failures | `DefaultIsRegistered`, `RuntimesAreKept` |
| `caddy_call` | 2 callers one after the other, one of which may disconnect, 2 sites, a fresh and an active machine, 1 failure outside undos, crashes | `FailedCallRestoresFiles`, `LiveMatchesFiles`, `OperatorConfigKept` |
| `serial_faults` | 2 requests of 15 kinds, one after the other, 1 failure outside undos | `SitesAreServed`, `NoOrphanSites`, `FailedActivationsLeaveNoRecord`, `NamesAreUnique` |
| `concurrent` | 2 overlapping requests (activations, an update, a switch), 1 failure, cancellation, crash | `ActivatedSitesStay`, `DeletedSitesStayDeleted`, `RequestsEnd` |
| `package` | 4 package operations in any order, 2 managed files, foreign files, a stale socket or a regular file at its path, activations, 1 failure, death or reboot | `SocketContract`, `UninstallIsComplete`, `ForeignFilesKept`, `AbortsRestartTheUnit`, `StartedUnitServes` and `OperationsEnd` (liveness) |
| `health` | 1 report, 1 client, 2 sites of one version, 3 services of which one is not named after the version, 1 change, 1 failure, cancellation | `ReadySitesWereReady`, `ReadyReportsCoverTheMachine`, `UnreadySitesWereNot`, `ResolverCallsAllOrNothing` |
| `desktop_shell` | 2 clicks of any kind with their goroutines, 1 failing call | `ShellReadsAreWhole`, `SnapshotsFollowTheChange`, `QuietPageShowsItsChanges`, `ChangesAreAnnounced` and `FlagsClear` (liveness) |

Two callers are enough for the races of interest, which are between a request and
one other; two sites give a site that a request is about and one that it must
leave alone; one failure puts every error path to work, and a second one is only
needed inside an undo, whose results the code ignores.  Requests of
`Orchestration` are served once, so these runs end and do not check deadlock; the
same holds of a report, a number of package operations and a number of clicks.
Four package operations are the shortest sequence with an installation, a removal, a
purge and an installation again, or with a failed upgrade and its repair.  One change
of the world during a report is enough to fall between any two of its reads.

The conditions in the properties are where the code stops:

- `LiveMatchesFiles` starts from a Caddy that serves its files and whose files can be
  loaded.  After a crash that leaves two files for one domain, no reload succeeds, an
  undo's included.
- `package` allows one failure.  With two (the old prerm is killed, so the new one,
  called with failed-upgrade, starts the daemon, and then unpacking fails) postrm
  abort-upgrade removes the socket under a daemon that runs, and postinst
  abort-upgrade starts nothing since the unit is active: the daemon serves a socket nobody
  can reach (TLC shows it with `FaultKinds = {"prerm", "unpack"}`, two failures and two
  operations).
- `AbortsRestartTheUnit` says started, not enabled: abort-remove and abort-deconfigure
  start a unit that prerm disabled and do not enable it.  Postrm abort-upgrade also
  removes the managed files of registered sites, which nothing makes again until the
  sites are changed.
- Configuring after a deconfiguration, or installing over the configuration files of a
  removed package, only try-restarts a unit that is stopped; `AbortsRestartTheUnit`
  therefore names first installations and the abort paths.
- Purge keeps `sites.json`, and with it the state directory; temporaries of site files
  (`*.caddy.tmp`) are left behind.
- `UnreadySitesWereNot` admits a site whose runtime is registered with a service that
  the report never asks for: it is reported as not ready although everything runs.
- `QuietPageShowsItsChanges` asks that no two loads for the page overlapped.  If they
  did, the older answer may come last, and the page shows data from before a change
  it confirmed until the next refresh.
- `SitesAreServed` and `NamesAreUnique` are about requests one after the other.  With
  requests that overlap (`Serial = FALSE`) TLC finds a rollback that removes the
  resolver stub another site needs, two updates that give two sites one name, and a
  switch and an update that leave a record Caddy is not configured with.

The runs `serial_faults` and `caddy_call` leave out failures inside an undo and the
chmod after a rename: the code ignores the first and does not undo the second, so
that nothing better than "the error is reported" holds there.

Runs that TLC finds violated.  Each states what a document or a test of the
repository says, and shows a behaviour of the code in which it does not hold:

| Run | Property | What happens |
|---|---|---|
| `cancelled_activation` | `FailedActivationsLeaveNoRecord` | the rollback uses the context whose end caused it; the record stays |
| `pool_race` | `ActivatedSitesHavePool` | a shared temporary; the loser removes the winner's pool |
| `last_removal` | `RemovalTakesEffect` | `caddy validate` of the Caddyfile that was just removed |
| `upgrade_restart` | `UpgradeStartsTheUnit` | prerm stops the unit, postinst only try-restarts it, which does nothing to a stopped unit |

In other words: the registries are sound under concurrency and crashes, and the
services are sound one request at a time with a live client.  What they lack is a
lock around a service's steps and a context of its own for the rollback.

**Fairness.**  `StateStore`: strong fairness of `Acquire`, because `sync.Mutex`
hands itself to a waiter that has starved for a millisecond, and weak fairness of
the other steps of a call, which blocks on nothing but the file system.
`Orchestration`: weak fairness of the steps of a request, because Go schedules
every runnable goroutine and every command ends, at the latest when its context
kills it.  `Package`: weak fairness of the scripts, of the daemon's own steps and of
systemd, none of which waits for a user; dpkg operations, deaths, reboots and
activations are not fair.  `DesktopShell`: weak fairness of each process that was
started, because every call of the daemon ends within ten seconds and the mutex is
held for three assignments.  Invocation, cancellation, failures and crashes are not
fair.

Every property of a passing run has a mutant: a definition changed the way a bug
would change it (marked "Mutant of" before the original), under which TLC finds
the property violated.

## 4. Proofs

Eight modules hold the theorems; each extends the module it is about.  Every
theorem holds for all values of the constants that meet the named assumptions of the
modules, which TLC evaluates on every instance, and for any number of callers,
requests, failures and crashes; where a theorem assumes more, its statement says so.

**`StateStore_proofs`**, for any `Apply` that meets `ApplyAssumption` (an operation that
saves nothing changes nothing) and `ValuesAssumption` (the special values differ from
the ordinary ones):

- `TypeCorrect`: `Spec => []TypeOK`;
- `FileAlwaysWhole`: `Spec => []FileIsWhole`;
- `NoLostUpdate`: `Spec => []PlanIsCurrent`;
- `Refinement`: `Spec => AtomicStoreSpec`, with the value of the store read from
  the file, and the rename as the moment at which an operation takes effect.

`PlanIsCurrent` is not inductive: it needs that only the holder of the mutex is in
the critical section (`LockIsHeld`), that a call has its operation and no answer
until it is decided (`CallInOrder`), and that a caller about to rename has a
complete temporary that holds its plan (`SaveInOrder`).  `IInv` is the conjunction
of these with `TypeOK` and `FileIsWhole`; `IInvStep` proves it action by action, and
`StepRefines` maps each action to a step of `AtomicStore` or to a stuttering step.
The lemma `FileChanges` is what the registries build on: the file changes only by an
operation applied to what it held.

**`SiteStore_proofs`, `PHPStore_proofs`.**  With `FileChanges`, what a registry promises of
its file is a fact about its operations.  `NoRegistrationEverCollides`
(`RegistrationsNeverCollide`) and `AlwaysOneSitePerSave` (`OneSitePerSave`) rest on `Sound`: an
operation on a decoded state gives a state, touches one identifier, and adds a record
only if its name and domain are new.  `DefaultAlwaysRegistered` (`DefaultIsRegistered`) and
`RuntimesAlwaysKept` (`RuntimesAreKept`) rest on the same kind of lemma for registration
and the change of the default.

**`Caddy_proofs`.**

- `OperatorConfigAlwaysKept` (`OperatorConfigKept`): also if undos fail.  The invariant needs
  that a call in progress holds a copy of the Caddyfile with the operator's blocks
  (`GoodFrames`), in `rootPrevious` and in what it is about to write; that one call is in
  progress (`OneAtATime`); and that the temporary about to be renamed is the one this
  call filled (`OwnTemporary`, a theorem too), which a truncated temporary left by an
  earlier crash would break if it were ever renamed without being rewritten.  Two lemmas
  (`EnsureIsGood`, `RemoveIsGood`) say that adding and removing the import keeps the
  operator's blocks, down to a Caddyfile that holds nothing else and is removed.
- `FailedCallsAlwaysRestore` (`FailedCallRestoresFiles`) and `LiveAlwaysMatchesFiles`
  (`LiveMatchesFiles`), assuming `UndosWork`: no failure of the kinds `undo` and `chmod`.  The
  code ignores the result of an undo and does not undo a chmod that fails after the
  rename, so without the assumption both are false.  That the files are as they were
  when a call returns is not inductive; `Stands` says for each stage of a call which files
  differ from those it found, and that the frame remembers these.  `CallStands` adds
  what Caddy has loaded: what was found until a reload, and again at the end.
- `CaddyAlwaysTyped` (`TypeOK`): each path, temporary and copy in a frame holds what belongs
  to that path, also if undos fail.
- For the composition there are three facts about a call that is run step by step:
  `StepStands` (a step keeps `CallStands`), `AheadStep` (a call that succeeds has turned the
  files it found into those it was asked for) and `UnfailingStep` (a call after which
  nothing can fail, and whose files are valid, takes nothing back).

**`Package_proofs`.**  `ForeignFilesAlwaysKept` (`ForeignFilesKept`) is direct: only
`ActivateSite` and `CleanupStep` touch the files (`FewTouchTheFiles`), and a clean-up changes
none that is without the marker (`CleanupTouchesManaged`).  The others have one
inductive invariant, `IInv`:

- `Planned`: what dpkg has still to do is determined by the operation and the next step
  (`After`, `Ordered`), so a fact about a place in a script can be stated at all;
- `ProcessInUnit`: there is a process just while the unit says so, it is told to stop by
  a stopping unit only, and a manifest about to be renamed is whole;
- `GoneIsQuiet`, `Stages`, `Starts`: package, unit, socket and files at each step of the scripts;
- `SocketStages`: the socket of a daemon past `net.Listen`.

`AlwaysTypeOK` (`TypeOK`), `UninstallAlwaysComplete` (`UninstallIsComplete`) and
`AbortsAlwaysRestart` (`AbortsRestartTheUnit`) hold without further conditions.
`SocketContractHolds` (`SocketContract`) assumes `OneUpgradeFailure`: failures of an old prerm
and of unpacking do not both occur.  The attempt to prove it without this condition
led to the behaviour with two failures described in section 3, where the contract is broken.

**`Health_proofs`.**  A report combines answers from different times, so the invariant
keeps, with each part of an unfinished report, what the history must hold because of
it: `Grounded` for what was found in order (`ReadySitesAlwaysWere`,
`ReadyReportsAlwaysCover`), `Covering` for what was not (`UnreadySitesNeverWere`), and
`Progress` for the order in which a report fills up (`HealthAlwaysTyped`).  The history only
grows, so steps of everybody else keep both (`GroundedStays`, `CoveringStays`).
`ResolverAlwaysAllOrNothing` (`ResolverCallsAllOrNothing`) assumes `OneCallAtATime`: one client
calls the resolver's manager and no undo fails; with two clients the shared temporary
and the deletion of each other's drop-in break it.  `Standing` compares the drop-in with
the one the call found, stage by stage.

**`Orchestration_proofs`, the registry.**  The managers are abstracted away by two
definitions: `Placed` says where a request may be and which locals it has there, and `Effect` that a step
changes the registry of sites in one of three places: a registration, the undo of one,
and the last step of a request.  Each step of each service, whatever its manager does,
is shown to be such a move (`Steps`).

- `ActivatedSitesAlwaysStay` (`ActivatedSitesStay`) and `DeletedSitesNeverReturn`
  (`DeletedSitesStayDeleted`): no conditions.  `RegistryInv` says that identifiers are
  distinct and that a record with the name of a request is there because that request
  registered it (`Owned`).
- `FailedActivationsClean`: if the registry can be written in a rollback (`"undo"` is not
  among the failures), a failed activation whose client stayed leaves no record, however
  many requests overlap.  `FailedActivationsAlwaysClean`
  (`FailedActivationsLeaveNoRecord`) says so of every activation if no client can
  disconnect; `cancelled_activation` shows why this is assumed.
- `NamesAlwaysUnique` (`NamesAreUnique`), assuming `Serial`.  `SerialInv` says that the record a
  request is about to store collides with none in the registry (`Fresh`), which needs
  that no other request runs.  TLC finds a violation without `Serial`.

`OrchestrationAssumption` says that the jobs are well-formed (`Requests`), that the registry
starts without collisions, and that a request's name, the identifier it generates, is
not taken.  `ManagersAssumption` says that the instances of `Caddy` and `Resolved` in
`Orchestration` meet the assumptions of these modules.

**`Orchestration_proofs`, the managers.**  `OrchestrationAlwaysTyped` (`TypeOK`) has no conditions:
`Uses` says how each service step calls a manager or collects its answer, and
`ManagersTyped` gives every file, temporary and frame its type and every call its place.

Three theorems say that the machine follows the registry:

- `NeverOrphanSites` (`NoOrphanSites`): Caddy has and serves no site that is not registered;
- `SitesAlwaysServed` (`SitesAreServed`): every registered site is served as its record says;
- `ActivatedSitesAlwaysHavePool` (`ActivatedSitesHavePool`): the last part alone, which needs
  less, and which `pool_race` refutes for two activations at once.

They assume that requests are served one after the other by a daemon that does not die,
to clients that stay (`Undisturbed`); that undos work, no chmod fails after its rename,
and a failure of the registry's file is the only one if it can happen at all
(`FaultsAreUndone`); and for the first two, that the operator's Caddyfile has blocks of its
own (`OperatorBlocks # {}`).  The number of requests, sites, versions and, without
failures of the registry's file, of failures is arbitrary.  On the instance of
`serial_faults` TLC finds a violation of one of the two when any of the conditions is
dropped: overlapping requests, a crash, a disconnection, a failing undo, a failing chmod,
a registry that cannot be written followed by a failure of the second call of Caddy
that takes the change back, and an empty Caddyfile, which the manager removes with the
last site and then cannot validate (`last_removal`).

Between requests the three are about the registered sites.  During a request they have to
be about `Settled`, the records that no activation is about to finish or take back, and
`Done(r)`, those with the record that `r` is about to store.  The inductive invariant is,
with `RegistryInv`, `SerialInv` and `ManagersTyped`, the conjunction of

- `HoldInv`: the record that an update or a switch has read is still the registered one,
  and a change that leaves the web configuration alone stores the record it read;
- `WebInv`: Caddy has and serves `Settled`, or `Done(r)` when `r` has only its record left to
  store; while `r` waits for Caddy, the call stands where `Caddy_proofs` says
  (`WebHolds`).  The lemmas of that module are used through an instance, in which its
  history variable `before`, what the call found, is the files of `Settled` or of `Done(r)`
  (`WebBefore`).  `Unfailing` is where the number of failures is counted: the undo of the
  web configuration runs only after the registry's file could not be written;
- `DnsInv`: the stub is there and loaded if any site is settled, and past the resolver in an
  activation; `StubStage` and `StubHeld` follow a call and its undo, and the stub is removed
  only when no other site is registered;
- `PhpInv`: a service that no call is about has read its pool file, and the version of a
  settled site has its pool file.  `PoolStage` follows a call: until the restart the
  service runs with what was backed up, and an undo writes back what was backed up,
  which is the managed file if a settled site needs it (`PoolBacked`).  This is why a failed
  switch back to the old runtime does no harm: the old version's pool never left.

Each part is proved in the same way: where a service step may lead and which call it
begins or collects (`Edge`, `WebEdge`, `DnsEdge`, `PhpEdge`), what a step of the manager does
(`WebStepHolds`, `DnsStepHolds`, `PhpStepHolds`), and what the service steps do
(`HoldService`, `WebService`, `DnsService`, `PhpService`).  `SettledService` says that the
settled sites change only when a request has stored its record.

**`DesktopShell_proofs`.**  `ShellReadsAlwaysWhole` (`ShellReadsAreWhole`) follows from the mutex:
`Guarded` says that it is free and the state whole, or held by the one process between
the two assignments of a mark.  `Scheduled` is needed because a change starts another
process: that process is idle until then, so it is not in the middle of a mark.
`SnapshotsAlwaysFollow` (`SnapshotsFollowTheChange`) rests on the same invariant and on
`AllOrdered`: what a load has read so far is in the order of its calls and not older than
its start, and its start is not older than the change it follows.  Steps of the other
processes keep this because the daemon's data only grows (`OrderedLater`).
`QuietPageAlwaysShows` (`QuietPageShowsItsChanges`) and `ShellAlwaysTyped` (`TypeOK`) add
`PageInv`: until two loads overlap there is one load at most (`Solo`), it began after the
change the page confirms (`Current`), and the page shows that change, shows an error, or
has a load under way (`Shows`).

**Checked by TLC first.**  `RegistryInv`, `SerialInv` and `Clean` were checked as invariants on
the instance of `serial_faults`, `RegistryInv` also on `concurrent`, and `ShellInv`,
`AllOrdered` and `PageInv` on `desktop_shell`.  `HoldInv`, `WebInv`, `DnsInv` and `PhpInv` were checked
(but for types) on the instance of `serial_faults`, and on the same with two failures, none
of them of the registry's file.

**Only model-checked:**

- liveness (`CallsReturn`, `RequestsEnd`, `StartedUnitServes`, `OperationsEnd`,
  `ChangesAreAnnounced`, `FlagsClear`): fairness is outside the proof system's reach;
- that the runs which expect a violation find one.

Every invariant, every action property and the refinement that a passing run checks is
stated by a theorem.  `PhpFpm` and `Resolved` have no theorems of their own: what they promise
is proved where they are used.

## 5. Plan

1. Done: `AtomicStore`, `StateStore`, the registries, the three managers,
   `Orchestration`, `Daemon`, `Package`, `Health`, `DesktopShell`, the proofs above.
2. Open: a weaker promise for overlapping requests, such as that a site whose own
   requests do not overlap with any other is served; and a daemon with one lock around
   a service, which would make `Serial` a fact instead of a condition.

## 6. Not modelled

- `RemoveRuntime` of the PHP-FPM manager, `Acquire` of the package manager, `SetStatus` of
  the site registry, `Track`, `Remove` and `LoadManagedAssetManifest` of the managed
  assets: no production code calls them.
- JSON decoding, status codes and messages of the RPC server, and the contracts: I/O and
  declarations.
- The window, the tray menu and the rendering of the pages: calls of Wails and Vue
  without a state of the program.
- The texts themselves: names derived from paths, rendered Caddy and FPM files and
  `/etc/os-release` are tables or sets given by constants.
- A machine without systemd, loss of power with files not synced.
