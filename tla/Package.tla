------------------------------ MODULE Package -------------------------------
(***************************************************************************)
(* The maintainer scripts of the Debian package (packaging/ubuntu/scripts)  *)
(* as dpkg runs them, on a machine with systemd, together with the daemon   *)
(* whose unit they start and stop.                                          *)
(*                                                                          *)
(* dpkg is external: an operation is the list of steps still to do, each a  *)
(* command of a script or a step of dpkg itself, and an error takes dpkg to *)
(* the scripts it unwinds with.  The scripts run with set -e, so a command  *)
(* that fails and is not followed by "|| true" ends its script.  Managed    *)
(* host files are the drop-in of the resolver, site files and pool files;   *)
(* the daemon writes them when it activates a site (one step here, see      *)
(* Orchestration).  A package that is only unpacked is configured, not      *)
(* removed.                                                                 *)
(***************************************************************************)
EXTENDS Daemon, Sequences

CONSTANTS
    Assets,     \* host files the daemon may manage
    MaxOps      \* package operations at most

ASSUME PackageAssumption == "stub" \in Assets /\ MaxOps \in Nat

VARIABLES
    pkg,        \* dpkg's state of the package
    configured, \* dpkg knows a most recently configured version
    enabled,    \* the unit is started when the machine boots
    todo,       \* what is left of the operation dpkg is at
    op,         \* the last operation, and how dpkg got out of it
    ops,        \* operations so far
    assets,     \* for each asset "none", "managed", or "foreign": no marker
    registered, \* a site is registered: sites.json exists
    members     \* somebody was added to the group lara-nux

packageVars == <<pkg, configured, enabled, todo, op, ops, assets, registered, members>>
vars == <<daemonVars, packageVars>>

-----------------------------------------------------------------------------
(* The scripts.                                                             *)

\* postinst configure
PostinstConfigure == <<"ensureGroup", "ensureDirs", "enable", "startOrRestart",
                       "await", "fixSocket", "installed">>
\* Mutant of PostinstAbort: a unit that was stopped stays so.
PostinstAbortNoStart == <<"ensureGroup", "ensureDirs", "fixSocket", "installed">>

\* postinst abort-upgrade, abort-remove, abort-deconfigure: rollback_recovery
PostinstAbort == <<"ensureGroup", "ensureDirs", "start", "awaitAny", "fixSocket",
                   "installed">>
\* Mutant of PrermRemove: only the next boot is thought of.
PrermDisableOnly == <<"disable">>
\* prerm upgrade; prerm remove and deconfigure; prerm failed-upgrade
PrermUpgrade == <<"stop", "awaitStop">>
PrermRemove == <<"stop", "awaitStop", "disable">>
PrermFailedUpgrade == <<"start", "awaitAny">>
\* postrm remove, abort-install, abort-upgrade; and the first part of purge
Postrm == <<"rmSocket", "rmAssets">>

-----------------------------------------------------------------------------
(* dpkg's operations.                                                       *)

Begin(name, steps) ==
    /\ todo = <<>> /\ ops < MaxOps
    /\ ops' = ops + 1
    /\ op' = name
    /\ todo' = steps
    /\ UNCHANGED <<daemonVars, configured, enabled, assets, registered, members>>

\* Also over the configuration files of a package that was removed.
Install ==
    /\ pkg \in {"not-installed", "config-files"}
    /\ Begin(IF configured THEN "reinstall" ELSE "install", <<"unpackNew">>)
    /\ UNCHANGED pkg

\* The old prerm, and when that is killed the new one with failed-upgrade,
\* which makes up for it.
Upgrade ==
    /\ pkg = "installed"
    /\ Begin("upgrade", PrermUpgrade \o <<"unpackUpgrade">>)
    /\ pkg' = "half-configured"

\* dpkg --configure, after an error or an interruption.
Configure ==
    /\ pkg \in {"unpacked", "half-configured"}
    /\ Begin("configure", PostinstConfigure)
    /\ UNCHANGED pkg

\* Another package needs this one out of the way for a moment.
Deconfigure ==
    /\ pkg = "installed"
    /\ Begin("deconfigure", PrermRemove \o <<"deconfigured">>)
    /\ pkg' = "half-configured"

\* Removal or deconfiguration in favour of a package that then fails.
AbortedRemove ==
    /\ pkg = "installed"
    /\ Begin("abort-remove", PrermRemove \o PostinstAbort)
    /\ pkg' = "half-configured"

Remove ==
    /\ \/ /\ pkg \in {"installed", "half-configured"}
          /\ Begin("remove", PrermRemove \o <<"deleteFiles">> \o Postrm \o <<"removed">>)
          /\ pkg' = "half-configured"
       \/ /\ pkg = "half-installed"
          /\ Begin("remove", Postrm \o <<"removed">>)
          /\ UNCHANGED pkg

Purge ==
    /\ pkg = "config-files"
    /\ Begin("purge", Postrm \o <<"purgeState", "purged">>)
    /\ UNCHANGED pkg

-----------------------------------------------------------------------------
(* The steps.                                                               *)

At(step) == todo # <<>> /\ Head(todo) = step
Advance == todo # <<>> /\ todo' = Tail(todo) /\ UNCHANGED op
\* A script fails during a configuration or a recovery.
Broken == todo' = <<>> /\ pkg' = "half-configured" /\ UNCHANGED op

\* dpkg's own steps.  An archive that cannot be unpacked is backed out.
Unpack ==
    \/ /\ At("unpackNew") /\ Works
       /\ pkg' = "unpacked" /\ todo' = PostinstConfigure /\ UNCHANGED op
    \/ /\ At("unpackNew") /\ Fails("unpack")
       /\ op' = "abort-install" /\ todo' = Postrm /\ UNCHANGED pkg
    \/ /\ At("unpackUpgrade") /\ Works
       /\ pkg' = "unpacked" /\ todo' = PostinstConfigure /\ UNCHANGED op
    \/ /\ At("unpackUpgrade") /\ Fails("unpack")
       /\ op' = "abort-upgrade" /\ todo' = Postrm \o PostinstAbort /\ UNCHANGED pkg

DpkgStep ==
    /\ \/ /\ Unpack /\ UNCHANGED <<configured, group, dirs, manifest>>
       \/ /\ At("installed") /\ Works /\ Advance
          /\ pkg' = "installed" /\ configured' = TRUE
          /\ UNCHANGED <<group, dirs, manifest>>
       \/ /\ At("deconfigured") /\ Works /\ Advance
          /\ pkg' = "unpacked"
          /\ UNCHANGED <<configured, group, dirs, manifest>>
       \/ /\ At("deleteFiles") /\ Works /\ Advance
          /\ pkg' = "half-installed"
          /\ UNCHANGED <<configured, group, dirs, manifest>>
       \/ /\ At("removed") /\ Works /\ Advance
          /\ pkg' = "config-files"
          /\ UNCHANGED <<configured, group, dirs, manifest>>
       \/ /\ At("purged") /\ Works /\ Advance
          /\ pkg' = "not-installed" /\ configured' = FALSE
          /\ UNCHANGED <<group, dirs, manifest>>
       \* purge_packaging_state: rmdir spares a directory that is not empty,
       \* and delgroup a group with members.
       \/ /\ At("purgeState") /\ Works /\ Advance
          /\ manifest' = [manifest EXCEPT !.file = "none"]
          /\ dirs' = {d \in dirs : d = "state" /\ (registered \/ manifest.temp # "none")}
          /\ group' = (group /\ members)
          /\ UNCHANGED <<pkg, configured>>
       \/ /\ At("ensureGroup") /\ Works /\ Advance
          /\ group' = TRUE
          /\ UNCHANGED <<pkg, configured, dirs, manifest>>
       \/ /\ At("ensureDirs") /\ Works /\ Advance
          /\ dirs' = Dirs
          /\ UNCHANGED <<pkg, configured, group, manifest>>
       \/ /\ At("ensureGroup") \/ At("ensureDirs")
          /\ Fails("script") /\ Broken
          /\ UNCHANGED <<configured, group, dirs, manifest>>
    /\ UNCHANGED <<unit, again, proc, sigterm, socket, enabled, ops, assets, registered, members>>

\* enable_unit and disable_unit.
EnableStep ==
    /\ Works /\ Advance
    /\ \/ At("enable") /\ enabled' = TRUE
       \/ At("disable") /\ enabled' = FALSE
    /\ UNCHANGED <<unit, again, proc, sigterm, socket, manifest, group, dirs,
                   pkg, configured, ops, assets, registered, members>>

\* try-restart: nothing at all when the unit is inactive.
TryRestart ==
    /\ IF unit \in {"inactive", "stopPost"} THEN UNCHANGED <<unit, again, sigterm>>
       ELSE /\ unit' = IF proc = "none" THEN "startPre" ELSE "stopping"
            /\ again' = TRUE
            /\ sigterm' = (proc # "none")
    /\ UNCHANGED <<proc, socket, manifest, group, dirs>>

SystemctlStep ==
    /\ Works /\ Advance
    /\ \/ At("start") /\ StartUnit
       \/ At("startOrRestart") /\ ~configured /\ StartUnit
       \/ At("startOrRestart") /\ configured /\ TryRestart
       \/ At("stop") /\ StopUnit
    /\ UNCHANGED <<pkg, configured, enabled, ops, assets, registered, members>>

\* Mutant of AwaitStep: postinst waits for a unit that is up.
AwaitUp ==
    /\ Works
    /\ \/ At("await") /\ unit = "running" /\ Advance
       \/ At("awaitAny") /\ unit = "running" /\ Advance
       \/ At("awaitStop") /\ unit = "inactive" /\ Advance
    /\ UNCHANGED <<unit, again, proc, sigterm, socket, manifest, group, dirs,
                   pkg, configured, enabled, ops, assets, registered, members>>

\* systemctl waits for its job.  A start or restart that failed fails the
\* configuration (a try-restart of an inactive unit does nothing); when the
\* unit came up and went down again, systemctl may have returned before.
\* rollback_recovery, failed-upgrade and stop_unit ignore errors.
AwaitStep ==
    /\ Works
    /\ LET down == {"inactive", "stopPost", "waiting"}
       IN  \/ /\ At("await") /\ unit \in {"running"} \cup down
              /\ Advance /\ UNCHANGED pkg
           \/ /\ At("await") /\ unit \in down
              /\ ~configured \/ unit # "inactive"
              /\ Broken
           \/ At("awaitAny") /\ unit \in {"running"} \cup down /\ Advance /\ UNCHANGED pkg
           \/ At("awaitStop") /\ unit = "inactive" /\ Advance /\ UNCHANGED pkg
    /\ UNCHANGED <<unit, again, proc, sigterm, socket, manifest, group, dirs,
                   configured, enabled, ops, assets, registered, members>>

\* fix_socket_permissions and cleanup_runtime_assets (the directory goes when
\* it is empty).
SocketStep ==
    /\ Works /\ Advance
    /\ \/ /\ At("fixSocket")
          /\ socket' = IF socket.kind = "socket"
                         THEN [socket EXCEPT !.mode = "0660", !.owner = "lara-nux"]
                         ELSE socket
          /\ UNCHANGED dirs
       \/ At("rmSocket") /\ socket' = NoSocket /\ dirs' = dirs \ {"runtime"}
    /\ UNCHANGED <<unit, again, proc, sigterm, manifest, group,
                   pkg, configured, enabled, ops, assets, registered, members>>

\* Mutant of remove_if_managed: the marker is not looked for.
RemoveAny(a) == assets[a] # "none" /\ assets' = [assets EXCEPT ![a] = "none"]

remove_if_managed(a) ==
    assets[a] = "managed" /\ assets' = [assets EXCEPT ![a] = "none"]

\* cleanup_managed_host_assets, file by file.
CleanupStep ==
    /\ At("rmAssets") /\ Works
    /\ \/ (\E a \in Assets : remove_if_managed(a)) /\ UNCHANGED <<todo, op>>
       \/ (\A a \in Assets : assets[a] # "managed") /\ Advance /\ UNCHANGED assets
    /\ UNCHANGED <<unit, again, proc, sigterm, socket, manifest, group, dirs,
                   pkg, configured, enabled, ops, registered, members>>

\* The old prerm is killed, before or after it stopped the unit.
PrermKilled ==
    /\ op = "upgrade" /\ Fails("prerm")
    /\ At("stop") \/ At("awaitStop")
    /\ todo' = PrermFailedUpgrade \o <<"unpackUpgrade">>
    /\ UNCHANGED <<unit, again, proc, sigterm, socket, manifest, group, dirs, pkg,
                   configured, enabled, op, ops, assets, registered, members>>

ScriptStep ==
    \/ DpkgStep \/ EnableStep \/ SystemctlStep \/ AwaitStep \/ SocketStep
    \/ CleanupStep

-----------------------------------------------------------------------------
(* The machine around them.                                                 *)

\* A site is activated.  The resolver manager refuses a drop-in that is not its
\* own; the others write their files whatever was there.
ActivateSite ==
    /\ proc = "serving"
    /\ assets["stub"] # "foreign"
    /\ assets' = [a \in Assets |-> "managed"] /\ registered' = TRUE
    /\ UNCHANGED <<daemonVars, pkg, configured, enabled, todo, op, ops, members>>

\* Power is lost: dpkg is interrupted, /run is empty, and an enabled unit
\* that is there is started.
Reboot ==
    /\ Fails("reboot")
    /\ proc' = "none" /\ sigterm' = FALSE /\ socket' = NoSocket
    /\ dirs' = dirs \ {"runtime"}
    /\ unit' = IF enabled /\ pkg \in {"unpacked", "half-configured", "installed"}
                 THEN "startPre" ELSE "inactive"
    /\ again' = FALSE
    /\ todo' = <<>> /\ op' = "boot"
    /\ UNCHANGED <<manifest, group, pkg, configured, enabled, ops, assets, registered, members>>

DaemonRuns == (DaemonStep \/ Die) /\ UNCHANGED packageVars
UnitRuns == UnitStep /\ UNCHANGED packageVars

Operation ==
    \/ Install \/ Upgrade \/ Configure \/ Deconfigure \/ AbortedRemove \/ Remove
    \/ Purge

Init ==
    /\ DaemonInit
    /\ pkg = "not-installed" /\ configured = FALSE /\ enabled = FALSE
    /\ todo = <<>> /\ op = "none" /\ ops = 0
    /\ assets \in [Assets -> {"none", "foreign"}]
    /\ registered = FALSE
    /\ members \in BOOLEAN

Next ==
    \/ Operation \/ ScriptStep \/ PrermKilled \/ DaemonRuns \/ UnitRuns
    \/ ActivateSite \/ Reboot

\* Scripts, systemd and the daemon keep going; nobody has to run dpkg, kill
\* anything or activate a site.
Fairness ==
    /\ WF_vars(ScriptStep)
    /\ WF_vars(DaemonStep /\ UNCHANGED packageVars)
    /\ WF_vars(UnitRuns)

Spec == Init /\ [][Next]_vars /\ Fairness

-----------------------------------------------------------------------------
Packages == {"not-installed", "config-files", "half-installed", "half-configured",
             "unpacked", "installed"}

TypeOK ==
    /\ DaemonTypeOK
    /\ pkg \in Packages /\ configured \in BOOLEAN /\ enabled \in BOOLEAN
    /\ ops \in 0..MaxOps
    /\ assets \in [Assets -> {"none", "managed", "foreign"}]
    /\ registered \in BOOLEAN /\ members \in BOOLEAN

\* A daemon that serves is behind a socket that operators of the group can use
\* and nobody else, however ExecStartPost and the scripts fall between the
\* steps of bindUnixSocket, and no script removes it (main.go:149-194,
\* postinst:42-47; packaging/ubuntu/README.md: "stays root:lara-nux with mode
\* 0660").
SocketContract == proc = "serving" => socket = Ready

\* After a removal or a purge nothing that Lara Nux manages is left, and no
\* daemon that could make it again: what was interrupted is made up for when
\* the operation is repeated (prerm:22-26, postrm:95-104).
UninstallIsComplete ==
    op \in {"remove", "purge"} /\ pkg \in {"config-files", "not-installed"} =>
        /\ unit = "inactive" /\ proc = "none" /\ ~enabled
        /\ socket.kind = "none"
        /\ \A a \in Assets : assets[a] # "managed"

\* A host file without the managed marker is never removed, in whichever order
\* the scripts and the requests come, and the resolver's never replaced
\* (postrm:25-34; packaging/ubuntu/README.md: "Uninstall removes only Lara Nux
\* managed host assets").
ForeignFilesKept ==
    [][/\ \A a \in Assets : assets[a] = "foreign" => assets'[a] # "none"
       /\ assets["stub"] = "foreign" => assets'["stub"] = "foreign"]_assets

\* After a first installation, an upgrade that was backed out or a removal that
\* was aborted, the unit is not left stopped (postinst:56-76, 86-96;
\* docs/ubuntu.md: "Abort paths try to restore daemon availability").
AbortsRestartTheUnit ==
    op \in {"install", "abort-upgrade", "abort-remove"} /\ pkg = "installed" =>
        unit # "inactive"

\* A unit that is started serves in the end, unless it is stopped: failures,
\* crashes and whatever is at the socket path are overcome (main.go:154-164,
\* lara-nuxd.service: Restart=on-failure, ExecStopPost).
StartedUnitServes ==
    unit \notin {"inactive", "stopping", "stopPost"} ~>
        proc = "serving" \/ unit = "inactive"

\* dpkg is never stuck in a script: each operation comes to an end (the
\* commands of the scripts wait for the unit only).
OperationsEnd == todo # <<>> ~> todo = <<>>

\* An upgrade ends with the unit started again (docs/ubuntu.md:51: "The package
\* stops the daemon before upgrade and attempts to start it again afterward").
UpgradeStartsTheUnit == op = "upgrade" /\ pkg = "installed" => unit # "inactive"
=============================================================================
