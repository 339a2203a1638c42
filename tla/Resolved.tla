------------------------------ MODULE Resolved ------------------------------
(***************************************************************************)
(* The systemd-resolved manager (host/ubuntu/resolved/manager.go): the      *)
(* drop-in that routes ~test to the local resolver.  EnsureTestStub and     *)
(* RemoveManagedStub are called by concurrent requests without any lock;    *)
(* one action per file-system call or command.                              *)
(*                                                                          *)
(* The drop-in is managed (what renderStub writes), drifted (it has the     *)
(* managed marker and other content), foreign (no marker) or Absent.        *)
(***************************************************************************)
EXTENDS Host

CONSTANTS
    ExternalClaimant   \* another resolved.conf file claims ~test

ASSUME ResolvedAssumption ==
    ExternalClaimant \in BOOLEAN /\ Absent \notin {"managed", "drifted", "foreign"}

VARIABLES
    stub,          \* the drop-in Lara Nux manages
    temp,          \* its temporary
    loaded,        \* the drop-in systemd-resolved read when it last started
    call           \* the frame of each caller

vars == <<stub, temp, loaded, call, cancelled, faults>>

Stubs == {"managed", "drifted", "foreign", Absent}

Idle == [at |-> "idle", op |-> "none", previous |-> Absent, data |-> Absent,
         undo |-> FALSE, result |-> "none"]

Returned(res) == [Idle EXCEPT !.at = "returned", !.result = res]

To(c, f) == call' = [call EXCEPT ![c] = f]

\* Mutant of Undo: the drop-in stays.
UndoReloadOnly(f) == [f EXCEPT !.at = "undoReload", !.undo = TRUE]

\* restoreFile and the write-back of RemoveManagedStub, results ignored; a
\* second reload follows.
Undo(f) == [f EXCEPT !.at = IF f.previous = Absent THEN "remove" ELSE "writeTemp",
                     !.data = f.previous, !.undo = TRUE]

\* Where a call goes after it wrote or removed the drop-in.
Written(f) == [f EXCEPT !.at = IF f.undo THEN "undoReload" ELSE "reload"]
WriteFailed(f) == IF f.undo THEN Written(f) ELSE Returned("err")
Kind(f, kind) == IF f.undo THEN "undo" ELSE kind

EnsureTestStub(c) ==
    /\ call[c].at = "idle"
    /\ To(c, [Idle EXCEPT !.at = "inspect", !.op = "ensure"])

RemoveManagedStub(c) ==
    /\ call[c].at = "idle"
    /\ To(c, [Idle EXCEPT !.at = "read", !.op = "remove"])

Collect(c) == call[c].at = "returned" /\ To(c, Idle)

\* Inspect, which looks at the context itself, and the read of the backup.
Inspect(c) ==
    /\ call[c].at = "inspect"
    /\ \/ /\ Works /\ c \notin cancelled
          /\ stub # "foreign" /\ ~ExternalClaimant
          /\ To(c, [call[c] EXCEPT !.at = "writeTemp", !.previous = stub,
                                   !.data = "managed"])
       \/ /\ \/ Works /\ (c \in cancelled \/ stub = "foreign" \/ ExternalClaimant)
             \/ Fails("read")
          /\ To(c, Returned("err"))
    /\ UNCHANGED <<stub, temp, loaded, cancelled>>

WriteTemp(c) ==
    /\ call[c].at = "writeTemp"
    /\ \/ Works /\ temp' = call[c].data /\ To(c, [call[c] EXCEPT !.at = "rename"])
       \/ /\ Fails(Kind(call[c], "write"))
          /\ To(c, WriteFailed(call[c]))
          /\ UNCHANGED temp
    /\ UNCHANGED <<stub, loaded, cancelled>>

\* The temporary is shared, so a concurrent caller may have renamed it.
Rename(c) ==
    /\ call[c].at = "rename"
    /\ \/ /\ Works /\ temp # Absent
          /\ stub' = temp
          /\ temp' = Absent
          /\ To(c, Written(call[c]))
       \/ /\ (Works /\ temp = Absent) \/ Fails(Kind(call[c], "rename"))
          /\ To(c, WriteFailed(call[c]))
          /\ UNCHANGED <<stub, temp>>
    /\ UNCHANGED <<loaded, cancelled>>

\* RemoveManagedStub reads the drop-in and refuses a foreign one.
Read(c) ==
    /\ call[c].at = "read"
    /\ \/ /\ Works
          /\ To(c, CASE stub = Absent    -> Returned("ok")
                     [] stub = "foreign" -> Returned("err")
                     [] OTHER            -> [call[c] EXCEPT !.at = "remove",
                                                            !.previous = stub])
       \/ Fails("read") /\ To(c, Returned("err"))
    /\ UNCHANGED <<stub, temp, loaded, cancelled>>

Remove(c) ==
    /\ call[c].at = "remove"
    /\ \/ Works /\ stub' = Absent /\ To(c, Written(call[c]))
       \/ /\ Fails(Kind(call[c], "remove"))
          /\ To(c, WriteFailed(call[c]))
          /\ UNCHANGED stub
    /\ UNCHANGED <<temp, loaded, cancelled>>

\* Restarting systemd-resolved and flushing its caches: two commands, and the
\* restart has its effect although the flush may fail.
Reload(c) ==
    /\ call[c].at = "reload"
    /\ \/ /\ CommandSucceeds(c)
          /\ loaded' = stub
          /\ To(c, IF call[c].op = "ensure" THEN [call[c] EXCEPT !.at = "confirm"]
                   ELSE Returned("ok"))
       \/ /\ \/ CommandRefused(c) /\ UNCHANGED loaded
             \/ CommandBreaks(c, "reload") /\ loaded' \in {loaded, stub}
          /\ To(c, Undo(call[c]))
    /\ UNCHANGED <<stub, temp>>

UndoReload(c) ==
    /\ call[c].at = "undoReload"
    /\ \/ CommandSucceeds(c) /\ loaded' = stub
       \/ CommandRefused(c) /\ UNCHANGED loaded
       \/ CommandBreaks(c, "undo") /\ loaded' \in {loaded, stub}
    /\ To(c, Returned("err"))
    /\ UNCHANGED <<stub, temp>>

\* EnsureTestStub ends with another Inspect, which fails when the context is
\* done by then, with the drop-in in place and loaded.
Confirm(c) ==
    /\ call[c].at = "confirm"
    /\ \/ Works /\ To(c, Returned(IF c \in cancelled THEN "err" ELSE "ok"))
       \/ Fails("confirm") /\ To(c, Returned("err"))
    /\ UNCHANGED <<stub, temp, loaded, cancelled>>

Step(c) ==
    \/ Inspect(c) \/ WriteTemp(c) \/ Rename(c) \/ Read(c) \/ Remove(c)
    \/ Reload(c) \/ UndoReload(c) \/ Confirm(c)

-----------------------------------------------------------------------------
Labels == {"idle", "inspect", "read", "writeTemp", "rename", "remove",
           "reload", "undoReload", "confirm", "returned"}

TypeOK ==
    /\ stub \in Stubs /\ temp \in Stubs /\ loaded \in Stubs
    /\ call \in [Callers -> [at : Labels, op : {"none", "ensure", "remove"},
                             previous : Stubs, data : Stubs, undo : BOOLEAN,
                             result : {"none", "ok", "err"}]]
=============================================================================
