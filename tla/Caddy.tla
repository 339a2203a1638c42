------------------------------- MODULE Caddy --------------------------------
(***************************************************************************)
(* The Caddy manager (host/ubuntu/caddy/manager.go): ActivateSite and       *)
(* RemoveSite.  One action per file-system call or command; the local       *)
(* variables of a call are its frame call[c].  The manager has no lock:     *)
(* Spec takes the calls one at a time, Orchestration lets them overlap.     *)
(*                                                                          *)
(* The root Caddyfile is the set of its blocks: what the operator wrote and *)
(* the import block Lara Nux manages.  A site file is the configuration it  *)
(* was rendered from (domain, root, PHP version), or Foreign: a file without*)
(* the managed marker.  A temporary is shared by everyone who writes the    *)
(* same path: writeAtomically always uses path + ".tmp".  os.WriteFile is   *)
(* one step, but one that fails, or that the daemon's death interrupts, may *)
(* leave the temporary truncated.                                           *)
(***************************************************************************)
EXTENDS Host, FiniteSets

CONSTANTS
    SiteIds,       \* site identifiers: one *.caddy file each
    Configs,       \* what a site file is rendered from; has a field domain
    OperatorBlocks,\* the blocks the operator wrote in the Caddyfile
    Root,          \* the path of the root Caddyfile
    Foreign,       \* a site file without the managed marker
    InitialFiles   \* the files the daemon's first request may find

VARIABLES
    files,         \* the Caddyfile and the site files
    temp,          \* the temporary of each
    live,          \* the site configurations Caddy serves since its last reload
    call           \* the frame of each caller

vars == <<files, temp, live, call, cancelled, faults>>

Paths == {Root} \cup SiteIds
Import == "import"
RootFiles == SUBSET (OperatorBlocks \cup {Import})

ASSUME CaddyAssumption ==
    /\ Root \notin SiteIds
    /\ Import \notin OperatorBlocks
    /\ Foreign # Absent /\ Foreign \notin Configs /\ Absent \notin Configs
    /\ \A f \in RootFiles : f # Absent
    /\ \A fs \in InitialFiles :
         /\ fs = [p \in Paths |-> fs[p]]
         /\ \A i \in SiteIds : fs[i] \in {Absent, Foreign} \cup Configs
         /\ \/ fs[Root] \in RootFiles /\ fs[Root] \ {Import} = OperatorBlocks
            \/ fs[Root] = Absent /\ OperatorBlocks = {}

-----------------------------------------------------------------------------
(* What the files mean.                                                     *)

HasImport(f) == f # Absent /\ Import \in f

ensureManagedRootImport(f) == (IF f = Absent THEN {} ELSE f) \cup {Import}

\* Mutant of removeManagedRootImport: the Caddyfile is removed in any case.
RemoveRootConfig(f) == Absent

\* A Caddyfile that holds nothing but the import is removed with it.
removeManagedRootImport(f) == IF f = {Import} THEN Absent ELSE f \ {Import}

SiteFiles(fs) == {i \in SiteIds : fs[i] # Absent}
ManagedFiles(fs) == {i \in SiteFiles(fs) : fs[i] # Foreign}

\* The configurations Caddy would serve from these files.
Served(fs) ==
    IF HasImport(fs[Root]) THEN {fs[i] : i \in ManagedFiles(fs)} ELSE {}

\* caddy validate, and the adapter run of a reload: the Caddyfile exists, and
\* no two imported files define the same site.
Adapts(fs) ==
    /\ fs[Root] # Absent
    /\ HasImport(fs[Root]) =>
          \A i, j \in ManagedFiles(fs) : fs[i].domain = fs[j].domain => i = j

-----------------------------------------------------------------------------
(* Frames.  ok and err say where a call continues after the write it is     *)
(* in, as the if err := ...; err != nil around each write does.             *)

Idle == [at |-> "idle", op |-> "none", id |-> Root, want |-> Absent,
         rootPrevious |-> Absent, previous |-> Absent, rootChanged |-> FALSE,
         reloadAgain |-> FALSE, path |-> Root, data |-> Absent,
         ok |-> "none", err |-> "none", result |-> "none"]

Returned(res) == [Idle EXCEPT !.at = "returned", !.result = res]

writeAtomically(f, p, d, ok, err) ==
    [f EXCEPT !.at = "writeTemp", !.path = p, !.data = d, !.ok = ok, !.err = err]

\* restoreFile: remove a file that did not exist, write back one that did.
restoreFile(f, p, d, ok, err) ==
    [f EXCEPT !.at = IF d = Absent THEN "remove" ELSE "writeTemp",
              !.path = p, !.data = d, !.ok = ok, !.err = err]

\* Mutant of Undone: no second reload.
UndoneWithoutReload(f) == Returned("err")

\* Undoing a call: the site file, then the Caddyfile if this call changed it,
\* then, if a reload was attempted, another reload.
Undone(f) ==
    IF f.reloadAgain THEN [f EXCEPT !.at = "undoReload"] ELSE Returned("err")
\* Mutant of UndoRoot: the Caddyfile keeps what the call wrote.
UndoRootForgotten(f) == Undone(f)

UndoRoot(f) ==
    IF f.rootChanged THEN restoreFile(f, Root, f.rootPrevious, "undone", "undone")
    ELSE Undone(f)
UndoConfig(f) == restoreFile(f, f.id, f.previous, "undoRoot", "undoRoot")

\* Mutant of Continue: nobody handles a Caddyfile that cannot be restored.
ContinueUnhandled(f, l) ==
    CASE l = "fail"     -> Returned("err")
      [] l = "undoRoot" -> UndoRoot(f)
      [] l = "undone"   -> Undone(f)
      [] OTHER          -> [f EXCEPT !.at = l]

Continue(f, l) ==
    CASE l = "fail"     -> Returned("err")
      [] l = "putBack"  -> restoreFile(f, f.id, f.previous, "fail", "fail")
      [] l = "undoRoot" -> UndoRoot(f)
      [] l = "undone"   -> Undone(f)
      [] OTHER          -> [f EXCEPT !.at = l]

\* What is left of a file that was opened for writing and never filled: no
\* block and no marker.
Truncated(p) == IF p = Root THEN {} ELSE Foreign

\* A write whose result is ignored (ok and err are the same) undoes something.
Kind(f, kind) == IF f.ok = f.err THEN "undo" ELSE kind

To(c, f) == call' = [call EXCEPT ![c] = f]

-----------------------------------------------------------------------------
(* The calls.                                                               *)

ActivateSite(c, i, w) ==
    /\ call[c].at = "idle"
    /\ To(c, [Idle EXCEPT !.at = "readRoot", !.op = "activate",
                          !.id = i, !.want = w])

RemoveSite(c, i) ==
    /\ call[c].at = "idle"
    /\ To(c, [Idle EXCEPT !.at = "readRoot", !.op = "remove", !.id = i])

Collect(c) ==
    /\ call[c].at = "returned"
    /\ To(c, Idle)

-----------------------------------------------------------------------------
(* The steps of a call.                                                     *)

\* normalizeSite (whose stat may fail) and reading the Caddyfile.  An
\* activation adds the import if it is not there.
ReadRoot(c) ==
    /\ call[c].at = "readRoot"
    /\ LET f == [call[c] EXCEPT !.rootPrevious = files[Root]]
       IN  \/ /\ Works
              /\ IF f.op = "activate" /\ ~HasImport(files[Root])
                   THEN To(c, writeAtomically([f EXCEPT !.rootChanged = TRUE],
                                 Root, ensureManagedRootImport(files[Root]),
                                 "readConfig", "fail"))
                   ELSE To(c, [f EXCEPT !.at = "readConfig"])
           \/ Fails("read") /\ To(c, Returned("err"))
    /\ UNCHANGED <<files, temp, live, cancelled>>

\* Reading the site file.  RemoveSite has nothing to do when it is absent and
\* refuses a file without the managed marker.
ReadConfig(c) ==
    /\ call[c].at = "readConfig"
    /\ LET f == [call[c] EXCEPT !.previous = files[call[c].id]]
       IN  \/ /\ Works
              /\ \/ /\ f.op = "activate"
                    /\ To(c, writeAtomically(f, f.id, f.want, "validate", "undoRoot"))
                 \/ /\ f.op = "remove" /\ f.previous = Absent
                    /\ To(c, Returned("ok"))
                 \/ /\ f.op = "remove" /\ f.previous = Foreign
                    /\ To(c, Returned("err"))
                 \/ /\ f.op = "remove" /\ f.previous \notin {Absent, Foreign}
                    /\ To(c, restoreFile(f, f.id, Absent, "glob", "fail"))
           \/ /\ Fails("read")
              /\ To(c, IF f.op = "activate" THEN UndoRoot(f) ELSE Returned("err"))
    /\ UNCHANGED <<files, temp, live, cancelled>>

\* writeAtomically: os.WriteFile of the temporary (after making the
\* directory), then os.Rename, which finds no temporary when another caller
\* has just renamed it.  A failed rename removes the temporary; the chmod
\* that follows the rename may fail too, with the file already in place.
WriteTemp(c) ==
    /\ call[c].at = "writeTemp"
    /\ \/ /\ Works
          /\ temp' = [temp EXCEPT ![call[c].path] = call[c].data]
          /\ To(c, [call[c] EXCEPT !.at = "rename"])
       \/ /\ Fails(Kind(call[c], "write"))
          /\ To(c, Continue(call[c], call[c].err))
          /\ \/ UNCHANGED temp
             \/ temp' = [temp EXCEPT ![call[c].path] = Truncated(call[c].path)]
    /\ UNCHANGED <<files, live, cancelled>>

Rename(c) ==
    /\ call[c].at = "rename"
    /\ LET p == call[c].path
       IN  /\ \/ /\ temp[p] # Absent
                 /\ files' = [files EXCEPT ![p] = temp[p]]
                 /\ \/ Works /\ To(c, Continue(call[c], call[c].ok))
                    \/ Fails(Kind(call[c], "chmod")) /\ To(c, Continue(call[c], call[c].err))
              \/ /\ (temp[p] = Absent /\ Works) \/ Fails(Kind(call[c], "rename"))
                 /\ To(c, Continue(call[c], call[c].err))
                 /\ UNCHANGED files
           /\ temp' = [temp EXCEPT ![p] = Absent]
    /\ UNCHANGED <<live, cancelled>>

\* os.Remove, which does not mind that the file is gone.
Remove(c) ==
    /\ call[c].at = "remove"
    /\ \/ /\ Works
          /\ files' = [files EXCEPT ![call[c].path] = Absent]
          /\ To(c, Continue(call[c], call[c].ok))
       \/ /\ Fails(Kind(call[c], "remove"))
          /\ To(c, Continue(call[c], call[c].err))
          /\ UNCHANGED files
    /\ UNCHANGED <<temp, live, cancelled>>

\* RemoveSite drops the import when no site file is left, from the Caddyfile
\* as it was read at the start of the call.
Glob(c) ==
    /\ call[c].at = "glob"
    /\ Works
    /\ LET f == call[c]
       IN  IF SiteFiles(files) = {} /\ HasImport(f.rootPrevious)
             THEN To(c, restoreFile([f EXCEPT !.rootChanged = TRUE], Root,
                           removeManagedRootImport(f.rootPrevious),
                           "validate", "putBack"))
             ELSE To(c, [f EXCEPT !.at = "validate"])
    /\ UNCHANGED <<files, temp, live, cancelled>>

\* caddy validate has no effect, so how it fails does not matter.
Validate(c) ==
    /\ call[c].at = "validate"
    /\ \/ /\ CommandSucceeds(c) /\ Adapts(files)
          /\ To(c, [call[c] EXCEPT !.at = "reload"])
       \/ /\ \/ CommandRefused(c)
             \/ CommandBreaks(c, "validate")
             \/ CommandSucceeds(c) /\ ~Adapts(files)
          /\ To(c, UndoConfig(call[c]))
    /\ UNCHANGED <<files, temp, live>>

\* systemctl reload caddy: Caddy keeps its configuration if the new one does
\* not adapt.
Reload(c) ==
    /\ call[c].at = "reload"
    /\ \/ /\ CommandSucceeds(c) /\ Adapts(files)
          /\ live' = Served(files)
          /\ To(c, Returned("ok"))
       \/ /\ \/ (CommandRefused(c) \/ CommandBreaks(c, "reload")) /\ UNCHANGED live
             \/ CommandSucceeds(c) /\ ~Adapts(files) /\ UNCHANGED live
             \/ CommandBreaks(c, "reload") /\ Adapts(files) /\ live' = Served(files)
          /\ To(c, UndoConfig([call[c] EXCEPT !.reloadAgain = TRUE]))
    /\ UNCHANGED <<files, temp>>

\* The Validate and reload after an undo, their results ignored.
UndoReload(c) ==
    /\ call[c].at = "undoReload"
    /\ \/ CommandSucceeds(c) /\ live' = IF Adapts(files) THEN Served(files) ELSE live
       \/ (CommandRefused(c) \/ CommandBreaks(c, "undo")) /\ UNCHANGED live
       \/ CommandBreaks(c, "undo") /\ Adapts(files) /\ live' = Served(files)
    /\ To(c, Returned("err"))
    /\ UNCHANGED <<files, temp>>

Step(c) ==
    \/ ReadRoot(c) \/ ReadConfig(c) \/ WriteTemp(c) \/ Rename(c) \/ Remove(c)
    \/ Glob(c) \/ Validate(c) \/ Reload(c) \/ UndoReload(c)

-----------------------------------------------------------------------------
CaddyInit ==
    /\ files \in InitialFiles
    /\ temp = [p \in Paths |-> Absent]
    /\ live = Served(files)
    /\ call = [c \in Callers |-> Idle]

Init == HostInit /\ CaddyInit

InProgress(c) == call[c].at \notin {"idle", "returned"}

\* Callers that use the manager in any order, one at a time.
Call(c) ==
    /\ \/ /\ \A d \in Callers : ~InProgress(d)
          /\ \E i \in SiteIds : (\E w \in Configs : ActivateSite(c, i, w)) \/ RemoveSite(c, i)
       \/ Collect(c)
    /\ UNCHANGED <<files, temp, live, cancelled, faults>>

Disconnect(c) == Cancel(c) /\ UNCHANGED <<files, temp, live, call, faults>>

\* The daemon dies: frames are lost, files and Caddy itself are not, and the
\* temporary that is being written may be truncated.
Crash ==
    /\ call' = [c \in Callers |-> Idle]
    /\ \/ UNCHANGED temp
       \/ \E c \in Callers :
             /\ call[c].at = "writeTemp"
             /\ temp' = [temp EXCEPT ![call[c].path] = Truncated(call[c].path)]
    /\ UNCHANGED <<files, live, cancelled, faults>>

Serve == \E c \in Callers : Call(c) \/ Step(c) \/ Disconnect(c)

Next == Serve \/ Crash

Spec == Init /\ [][Next]_vars

-----------------------------------------------------------------------------
Labels == {"idle", "readRoot", "readConfig", "writeTemp", "rename", "remove",
           "glob", "validate", "reload", "undoReload", "returned"}
Continuations == {"none", "readConfig", "validate", "glob", "fail", "putBack",
                  "undoRoot", "undone"}
Contents(p) ==
    {Absent} \cup IF p = Root THEN RootFiles ELSE {Foreign} \cup Configs

TypeOK ==
    /\ \A p \in Paths : files[p] \in Contents(p) /\ temp[p] \in Contents(p)
    /\ live \subseteq Configs
    /\ \A c \in Callers :
         LET f == call[c]
         IN  /\ f.at \in Labels
             /\ f.op \in {"none", "activate", "remove"}
             /\ f.id \in Paths
             /\ f.want \in {Absent} \cup Configs
             /\ f.rootPrevious \in Contents(Root)
             /\ f.previous \in {Absent, Foreign} \cup Configs
             /\ f.rootChanged \in BOOLEAN /\ f.reloadAgain \in BOOLEAN
             /\ f.path \in Paths
             /\ f.data \in Contents(f.path)
             /\ f.ok \in Continuations /\ f.err \in Continuations
             /\ f.result \in {"none", "ok", "err"}
    /\ cancelled \subseteq Cancellable
    /\ faults \in 0..MaxFaults

\* What the operator wrote in a root Caddyfile.
OperatorPart(f) == IF f = Absent THEN {} ELSE f \ {Import}

\* Whatever calls fail, also while they undo what they did, are cancelled or
\* die half-way with a truncated temporary left behind, the blocks the operator
\* wrote in the Caddyfile are there and no others: adding, removing and
\* restoring the import never loses them (manager.go:71-211, 279-330, 363-387).
OperatorConfigKept == OperatorPart(files[Root]) = OperatorBlocks
=============================================================================
