------------------------------- MODULE PhpFpm -------------------------------
(***************************************************************************)
(* The PHP-FPM manager (host/ubuntu/php/manager.go): the pool file of each  *)
(* version and the systemd override of its service.  MaterializeRuntime and *)
(* SwitchRuntime are called by concurrent requests without any lock; one    *)
(* action per file-system call or command.                                  *)
(*                                                                          *)
(* What the manager writes depends on the version alone, so a file is       *)
(* managed or Absent.  The state of a service is down, stock (it runs       *)
(* without the managed pool) or managed (it listens on the managed socket). *)
(***************************************************************************)
EXTENDS Host

CONSTANTS
    Versions,      \* the PHP versions, each with its FPM service
    NoVersion      \* a call that does not replace another version

VARIABLES
    files,         \* pool file and override of each version
    temp,          \* their temporaries
    fpm,           \* the state of each version's service
    call           \* the frame of each caller

vars == <<files, temp, fpm, call, cancelled, faults>>

Paths == {"pool", "override"} \X Versions
Pool(v) == <<"pool", v>>
Override(v) == <<"override", v>>

\* The state of a service that has just read its configuration.
Started(v) == IF files[Pool(v)] = "managed" THEN "managed" ELSE "stock"

Idle == [at |-> "idle", version |-> NoVersion, previous |-> NoVersion,
         poolBackup |-> Absent, overrideBackup |-> Absent,
         file |-> "none", data |-> Absent, undo |-> "no", result |-> "none"]

Returned(res) == [Idle EXCEPT !.at = "returned", !.result = res]

To(c, f) == call' = [call EXCEPT ![c] = f]

\* The end of a failed MaterializeRuntime; SwitchRuntime then restarts the
\* previous service.
Failed(f) ==
    IF f.previous = NoVersion THEN Returned("err")
    ELSE [f EXCEPT !.at = "restartPrevious"]

Write(f, name) == [f EXCEPT !.at = "writeTemp", !.file = name, !.data = "managed"]

\* restoreFile of one of the two files.  undo tells what is left to do after
\* it: nothing (only the pool had been written) or the whole rollback.
Restore(f, name, backup, undo) ==
    [f EXCEPT !.at = IF backup = Absent THEN "remove" ELSE "writeTemp",
              !.file = name, !.data = backup, !.undo = undo]
Rollback(f) == Restore(f, "pool", f.poolBackup, "all")

Written(f) ==
    CASE f.undo = "no"   /\ f.file = "pool"     -> Write(f, "override")
      [] f.undo = "no"   /\ f.file = "override" -> [f EXCEPT !.at = "check"]
      [] f.undo = "pool"                        -> Failed(f)
      [] f.undo = "all"  /\ f.file = "pool"     ->
             Restore(f, "override", f.overrideBackup, "all")
      [] f.undo = "all"  /\ f.file = "override" -> [f EXCEPT !.at = "undoRestart"]

WriteFailed(f) ==
    CASE f.undo # "no"       -> Written(f)
      [] f.file = "pool"     -> Failed(f)
      [] f.file = "override" -> Restore(f, "pool", f.poolBackup, "pool")

Kind(f, kind) == IF f.undo = "no" THEN kind ELSE "undo"
Path(c) == <<call[c].file, call[c].version>>

-----------------------------------------------------------------------------
MaterializeRuntime(c, v) ==
    /\ call[c].at = "idle"
    /\ To(c, [Idle EXCEPT !.at = "readPool", !.version = v])

SwitchRuntime(c, previous, v) ==
    /\ call[c].at = "idle"
    /\ To(c, [Idle EXCEPT !.at = "readPool", !.version = v, !.previous = previous])

Collect(c) == call[c].at = "returned" /\ To(c, Idle)

\* The two backups.
ReadPool(c) ==
    /\ call[c].at = "readPool"
    /\ \/ /\ Works
          /\ To(c, [call[c] EXCEPT !.at = "readOverride",
                                   !.poolBackup = files[Pool(call[c].version)]])
       \/ Fails("read") /\ To(c, Failed(call[c]))
    /\ UNCHANGED <<files, temp, fpm, cancelled>>

ReadOverride(c) ==
    /\ call[c].at = "readOverride"
    /\ \/ /\ Works
          /\ LET backup == files[Override(call[c].version)]
             IN  To(c, Write([call[c] EXCEPT !.overrideBackup = backup], "pool"))
       \/ Fails("read") /\ To(c, Failed(call[c]))
    /\ UNCHANGED <<files, temp, fpm, cancelled>>

WriteTemp(c) ==
    /\ call[c].at = "writeTemp"
    /\ \/ /\ Works
          /\ temp' = [temp EXCEPT ![Path(c)] = call[c].data]
          /\ To(c, [call[c] EXCEPT !.at = "rename"])
       \/ /\ Fails(Kind(call[c], "write"))
          /\ To(c, WriteFailed(call[c]))
          /\ UNCHANGED temp
    /\ UNCHANGED <<files, fpm, cancelled>>

\* The temporary is shared, so a concurrent caller may have renamed it.
Rename(c) ==
    /\ call[c].at = "rename"
    /\ \/ /\ Works /\ temp[Path(c)] # Absent
          /\ files' = [files EXCEPT ![Path(c)] = temp[Path(c)]]
          /\ temp' = [temp EXCEPT ![Path(c)] = Absent]
          /\ To(c, Written(call[c]))
       \/ /\ (Works /\ temp[Path(c)] = Absent) \/ Fails(Kind(call[c], "rename"))
          /\ To(c, WriteFailed(call[c]))
          /\ UNCHANGED <<files, temp>>
    /\ UNCHANGED <<fpm, cancelled>>

Remove(c) ==
    /\ call[c].at = "remove"
    /\ \/ Works /\ files' = [files EXCEPT ![Path(c)] = Absent]
       \/ Fails("undo") /\ UNCHANGED files
    /\ To(c, Written(call[c]))
    /\ UNCHANGED <<temp, fpm, cancelled>>

\* systemctl daemon-reload and php-fpm -t: no effect on what is modelled.
Check(c) ==
    /\ call[c].at = "check"
    /\ \/ CommandSucceeds(c) /\ To(c, [call[c] EXCEPT !.at = "restart"])
       \/ (CommandRefused(c) \/ CommandBreaks(c, "check")) /\ To(c, Rollback(call[c]))
    /\ UNCHANGED <<files, temp, fpm>>

\* systemctl restart: one that fails may leave the service down.
RestartSucceeds(c, v) ==
    CommandSucceeds(c) /\ fpm' = [fpm EXCEPT ![v] = Started(v)]
RestartFails(c, v, kind) ==
    \/ CommandRefused(c) /\ UNCHANGED fpm
    \/ /\ CommandBreaks(c, kind)
       /\ \E s \in {fpm[v], Started(v), "down"} : fpm' = [fpm EXCEPT ![v] = s]

Restart(c) ==
    /\ call[c].at = "restart"
    /\ \/ RestartSucceeds(c, call[c].version) /\ To(c, Returned("ok"))
       \/ RestartFails(c, call[c].version, "restart") /\ To(c, Rollback(call[c]))
    /\ UNCHANGED <<files, temp>>

\* A restart whose result is ignored: the one that ends a rollback, and the
\* one of the previous service.
TryRestart(c, v) == RestartSucceeds(c, v) \/ RestartFails(c, v, "undo")

UndoRestart(c) ==
    /\ call[c].at = "undoRestart"
    /\ TryRestart(c, call[c].version)
    /\ To(c, Failed(call[c]))
    /\ UNCHANGED <<files, temp>>

RestartPrevious(c) ==
    /\ call[c].at = "restartPrevious"
    /\ TryRestart(c, call[c].previous)
    /\ To(c, Returned("err"))
    /\ UNCHANGED <<files, temp>>

\* systemctl start, by the services: nothing happens to one that runs.
StartService(v) ==
    fpm' = [fpm EXCEPT ![v] = IF fpm[v] = "down" THEN Started(v) ELSE fpm[v]]

Step(c) ==
    \/ ReadPool(c) \/ ReadOverride(c) \/ WriteTemp(c) \/ Rename(c) \/ Remove(c)
    \/ Check(c) \/ Restart(c) \/ UndoRestart(c) \/ RestartPrevious(c)

-----------------------------------------------------------------------------
Labels == {"idle", "readPool", "readOverride", "writeTemp", "rename", "remove",
           "check", "restart", "undoRestart", "restartPrevious", "returned"}

TypeOK ==
    /\ files \in [Paths -> {"managed", Absent}]
    /\ temp \in [Paths -> {"managed", Absent}]
    /\ fpm \in [Versions -> {"down", "stock", "managed"}]
    /\ call \in [Callers ->
          [at : Labels, version : Versions \cup {NoVersion},
           previous : Versions \cup {NoVersion},
           poolBackup : {"managed", Absent}, overrideBackup : {"managed", Absent},
           file : {"none", "pool", "override"}, data : {"managed", Absent},
           undo : {"no", "pool", "all"}, result : {"none", "ok", "err"}]]
=============================================================================
