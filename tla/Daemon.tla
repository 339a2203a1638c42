------------------------------- MODULE Daemon -------------------------------
(***************************************************************************)
(* The daemon process and its systemd unit: the bootstrap of                *)
(* cmd/lara-nuxd/main.go (Preflight, PrepareFilesystem, the manifest, the   *)
(* Unix socket), the shutdown, and what the unit file adds to them:         *)
(* ExecStartPre, an ExecStartPost that runs beside the daemon because the   *)
(* unit is of Type=simple, ExecStopPost and Restart=on-failure.             *)
(*                                                                          *)
(* Requests are not modelled here (see Orchestration).  Failures of calls   *)
(* and deaths of the process are bounded by MaxFaults together.             *)
(***************************************************************************)
EXTENDS Naturals

CONSTANTS
    HostSupported,  \* Ubuntu of a supported release, root, systemctl, resolvectl
    FaultKinds,     \* the kinds of calls that may fail
    MaxFaults       \* how many fail at most

ASSUME DaemonAssumption == HostSupported \in BOOLEAN /\ MaxFaults \in Nat

VARIABLES
    unit,       \* what systemd does with the unit
    again,      \* the unit is started again once it has stopped
    proc,       \* where the daemon process is, "none" if there is none
    sigterm,    \* the process has been sent SIGTERM
    socket,     \* what is at the socket path
    manifest,   \* managed-assets.json and its temporary
    group,      \* the group lara-nux exists
    dirs,       \* which of the daemon's directories exist
    faults      \* failures so far

daemonVars == <<unit, again, proc, sigterm, socket, manifest, group, dirs, faults>>

Dirs == {"config", "state", "runtime"}

NoSocket == [kind |-> "none", live |-> FALSE, mode |-> "none", owner |-> "none"]
RegularFile == [NoSocket EXCEPT !.kind = "file"]
\* What net.Listen creates under the unit's UMask=0007.
Bound == [kind |-> "socket", live |-> TRUE, mode |-> "0770", owner |-> "root"]
\* root:lara-nux 0660, with a daemon behind it.
Ready == [Bound EXCEPT !.mode = "0660", !.owner = "lara-nux"]
\* The path after the daemon behind it is gone.
Dead(s) == [s EXCEPT !.live = FALSE]

\* What a manifest says is to be done with each asset when it is rolled back.
DefaultUbuntuManagedAssets ==
    [a \in {"runtime-dir", "daemon-socket", "state-dir", "managed-assets-manifest",
            "resolved-test-stub", "caddy-sites-dir", "daemon-service"} |->
        IF a \in {"resolved-test-stub", "caddy-sites-dir"} THEN "restore-previous"
        ELSE "remove"]

RollbackTargets(m) == {a \in DOMAIN m : m[a] \in {"remove", "restore-previous"}}

Fails(kind) == kind \in FaultKinds /\ faults < MaxFaults /\ faults' = faults + 1
Works == faults' = faults

-----------------------------------------------------------------------------
(* Ends of the process.                                                     *)

Stopping == unit \in {"stopping", "stopPost"}

\* The process ends; systemd runs ExecStopPost, and starts the unit again
\* after a failure unless it was being stopped.
Exit(failure, sock) ==
    /\ proc' = "none" /\ sigterm' = FALSE
    /\ socket' = sock
    /\ unit' = "stopPost"
    /\ again' = IF Stopping THEN again ELSE failure
    /\ UNCHANGED <<group, dirs>>

\* os.Exit(1), with the listener closed, which unlinks the path.
ExitClosed == Exit(TRUE, NoSocket)
ExitEarly == Exit(TRUE, socket)

Goes(to) ==
    /\ proc' = to
    /\ UNCHANGED <<unit, again, sigterm, group>>

-----------------------------------------------------------------------------
(* main and bindUnixSocket.                                                 *)

\* Before signal.NotifyContext a SIGTERM kills the process.
Boot ==
    /\ proc = "boot" /\ Works
    /\ \/ ~sigterm /\ Goes("preflight") /\ UNCHANGED <<socket, dirs>>
       \/ sigterm /\ ExitEarly
    /\ UNCHANGED manifest

\* Every check is made; the daemon goes on when none failed.
Preflight ==
    /\ proc = "preflight" /\ Works
    /\ LET passed == /\ ~sigterm /\ HostSupported /\ group
                     /\ RollbackTargets(DefaultUbuntuManagedAssets) # {}
       IN  \/ passed /\ Goes("prepare") /\ UNCHANGED <<socket, dirs>>
           \/ ~passed /\ ExitEarly
    /\ UNCHANGED manifest

PrepareFilesystem ==
    /\ proc = "prepare"
    /\ \/ Works /\ Goes("saveTemp") /\ dirs' = Dirs /\ UNCHANGED socket
       \/ Fails("file") /\ ExitEarly
    /\ UNCHANGED manifest

\* Mutant of SaveTemp: the manifest is written in place.
SaveInPlace ==
    /\ proc = "saveTemp"
    /\ \/ /\ Works /\ Goes("lstat") /\ UNCHANGED <<socket, dirs>>
          /\ manifest' = [manifest EXCEPT !.file = "whole"]
       \/ /\ Fails("file") /\ ExitEarly
          /\ manifest' \in {manifest, [manifest EXCEPT !.file = "part"]}

\* ManagedAssetManifest.Save: the temporary, then the rename.
SaveTemp ==
    /\ proc = "saveTemp"
    /\ \/ /\ Works /\ Goes("saveRename") /\ UNCHANGED <<socket, dirs>>
          /\ manifest' = [manifest EXCEPT !.temp = "whole"]
       \/ /\ Fails("file") /\ ExitEarly
          /\ manifest' \in {manifest, [manifest EXCEPT !.temp = "part"]}

SaveRename ==
    /\ proc = "saveRename"
    /\ \/ /\ Works /\ Goes("lstat") /\ UNCHANGED <<socket, dirs>>
          /\ manifest' = [file |-> manifest.temp, temp |-> "none"]
       \/ Fails("file") /\ ExitEarly /\ UNCHANGED manifest

\* A socket that nobody serves is removed; anything else is refused.
Lstat ==
    /\ proc = "lstat"
    /\ \/ Works /\ socket.kind = "none" /\ Goes("listen") /\ UNCHANGED <<socket, dirs>>
       \/ Works /\ socket.kind = "file" /\ ExitEarly
       \/ /\ Works /\ socket.kind = "socket"
          /\ Goes("listen") /\ socket' = NoSocket /\ UNCHANGED dirs
       \/ Fails("file") /\ ExitEarly
    /\ UNCHANGED manifest

Listen ==
    /\ proc = "listen"
    /\ \/ Works /\ Goes("chmod") /\ socket' = Bound /\ UNCHANGED dirs
       \/ Fails("file") /\ ExitEarly
    /\ UNCHANGED manifest

\* The path is looked up again here and in the chown.
Chmod ==
    /\ proc = "chmod"
    /\ \/ /\ Works /\ socket.kind = "socket" /\ Goes("chown") /\ UNCHANGED dirs
          /\ socket' = [socket EXCEPT !.mode = "0660"]
       \/ ((Works /\ socket.kind # "socket") \/ Fails("file")) /\ ExitClosed
    /\ UNCHANGED manifest

\* Mutant of Chown: the ownership is left to ExecStartPost.
ChownLeftToUnit ==
    /\ proc = "chown" /\ Works
    /\ Goes("serving") /\ UNCHANGED <<socket, dirs, manifest>>

\* LookupGroup and the chown.
Chown ==
    /\ proc = "chown"
    /\ LET found == group /\ socket.kind = "socket"
       IN  \/ /\ Works /\ found /\ Goes("serving") /\ UNCHANGED dirs
              /\ socket' = [socket EXCEPT !.owner = "lara-nux"]
           \/ ((Works /\ ~found) \/ Fails("file")) /\ ExitClosed
    /\ UNCHANGED manifest

\* SIGTERM: Shutdown closes the listener and waits for requests, at most five
\* seconds; the deferred function removes the path.  An error of Serve exits
\* at once.
Serving ==
    /\ proc = "serving"
    /\ \/ sigterm /\ Works /\ Exit(FALSE, NoSocket)
       \/ Fails("serve") /\ Exit(TRUE, Dead(socket))
    /\ UNCHANGED manifest

\* The process is killed, or panics, anywhere.
Die ==
    /\ proc # "none"
    /\ Fails("die")
    /\ Exit(TRUE, Dead(socket))
    /\ manifest' \in {manifest} \cup
          IF proc = "saveTemp" THEN {[manifest EXCEPT !.temp = "part"]} ELSE {}

DaemonStep ==
    \/ Boot \/ Preflight \/ PrepareFilesystem \/ SaveTemp \/ SaveRename \/ Lstat
    \/ Listen \/ Chmod \/ Chown \/ Serving

-----------------------------------------------------------------------------
(* The unit.                                                                *)

\* systemctl start: also ends the wait of an automatic restart.
StartUnit ==
    /\ unit' = IF unit \in {"inactive", "waiting"} THEN "startPre" ELSE unit
    /\ again' = (again \/ Stopping)
    /\ UNCHANGED <<proc, sigterm, socket, manifest, group, dirs>>

\* systemctl stop.
StopUnit ==
    /\ unit' = CASE unit \in {"inactive", "waiting"} -> "inactive"
                 [] unit = "startPre" \/ unit = "stopPost" -> "stopPost"
                 [] OTHER -> "stopping"
    /\ again' = FALSE
    /\ sigterm' = (proc # "none")
    /\ UNCHANGED <<proc, socket, manifest, group, dirs>>

\* install -d -g lara-nux of the three directories, then the fork.
StartPre ==
    /\ unit = "startPre"
    /\ \/ /\ Works /\ group
          /\ unit' = "startPost" /\ proc' = "boot" /\ dirs' = Dirs
          /\ UNCHANGED again
       \/ /\ (Works /\ ~group) \/ Fails("file")
          /\ unit' = "stopPost" /\ again' = TRUE
          /\ UNCHANGED <<proc, dirs>>
    /\ UNCHANGED <<sigterm, socket, manifest, group>>

\* ExecStartPost looks for the socket while the daemon is starting ...
StartPost ==
    /\ unit = "startPost"
    /\ unit' = IF socket.kind = "socket" THEN "fixSocket" ELSE "running"
    /\ UNCHANGED <<again, proc, sigterm, socket, manifest, group, dirs, faults>>

\* ... and gives it to the group; it fails when the socket has gone, and the
\* process is stopped before the unit is started again.
FixSocket ==
    /\ unit = "fixSocket"
    /\ \/ /\ socket.kind = "socket"
          /\ socket' = [socket EXCEPT !.mode = "0660", !.owner = "lara-nux"]
          /\ unit' = "running"
          /\ UNCHANGED <<again, sigterm>>
       \/ /\ socket.kind # "socket"
          /\ unit' = "stopping" /\ again' = TRUE /\ sigterm' = TRUE
          /\ UNCHANGED socket
    /\ UNCHANGED <<proc, manifest, group, dirs, faults>>

\* Mutant of StopPost: no ExecStopPost.
StopPostKeepsSocket ==
    /\ unit = "stopPost"
    /\ unit' = IF again THEN "waiting" ELSE "inactive"
    /\ UNCHANGED <<again, proc, sigterm, socket, manifest, group, dirs, faults>>

StopPost ==
    /\ unit = "stopPost"
    /\ socket' = NoSocket
    /\ unit' = IF again THEN "waiting" ELSE "inactive"
    /\ UNCHANGED <<again, proc, sigterm, manifest, group, dirs, faults>>

RestartTimer ==
    /\ unit = "waiting"
    /\ unit' = "startPre"
    /\ UNCHANGED <<again, proc, sigterm, socket, manifest, group, dirs, faults>>

UnitStep == StartPre \/ StartPost \/ FixSocket \/ StopPost \/ RestartTimer

-----------------------------------------------------------------------------
DaemonInit ==
    /\ unit = "inactive" /\ again = FALSE
    /\ proc = "none" /\ sigterm = FALSE
    \* Nothing, or what a daemon run by hand, or somebody else, left there.
    /\ socket \in {NoSocket, Dead(Ready), RegularFile}
    /\ manifest = [file |-> "none", temp |-> "none"]
    /\ group = FALSE /\ dirs = {}
    /\ faults = 0

Units == {"inactive", "startPre", "startPost", "fixSocket", "running",
          "stopping", "stopPost", "waiting"}
Procs == {"none", "boot", "preflight", "prepare", "saveTemp", "saveRename",
          "lstat", "listen", "chmod", "chown", "serving"}
Sockets == [kind : {"none", "file", "socket"}, live : BOOLEAN,
            mode : {"none", "0770", "0660"}, owner : {"none", "root", "lara-nux"}]

\* The manifest is absent or whole, although its temporary may not be.
DaemonTypeOK ==
    /\ unit \in Units /\ again \in BOOLEAN
    /\ proc \in Procs /\ sigterm \in BOOLEAN
    /\ socket \in Sockets
    /\ manifest \in [file : {"none", "whole"}, temp : {"none", "part", "whole"}]
    /\ group \in BOOLEAN /\ dirs \subseteq Dirs
    /\ faults \in 0..MaxFaults
=============================================================================
