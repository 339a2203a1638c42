---------------------------- MODULE DesktopShell ----------------------------
(***************************************************************************)
(* The desktop client: the shell (client/wails/app.go), its calls of the    *)
(* daemon (bridge/daemon_client.go) and a page of the user interface        *)
(* (composables/useRuntimesPage.ts, useSitesPage.ts).                       *)
(*                                                                          *)
(* Each button of the page, each snapshot that is announced and each query  *)
(* is a process of its own.  Wails serves every bound call in a goroutine,  *)
(* and the page does not stop a second load while one is awaited.  The      *)
(* daemon's data is a version that grows with every change; a process runs  *)
(* once.                                                                    *)
(***************************************************************************)
EXTENDS Naturals, FiniteSets

CONSTANTS
    Clicks,      \* what the user does, on the page or in the tray
    Emitters,    \* goroutines that run emitSnapshot
    EmitterOf,   \* the goroutine a change starts
    MaxFaults,   \* calls that fail at most
    Nobody       \* the mutex is free

ASSUME ShellAssumption ==
    /\ MaxFaults \in Nat
    /\ EmitterOf \in [Clicks -> Emitters]
    /\ Clicks \cap Emitters = {} /\ Nobody \notin Clicks \cup Emitters
    /\ \A s, t \in Clicks : EmitterOf[s] = EmitterOf[t] => s = t

Procs == Clicks \cup Emitters

VARIABLES
    data,      \* the version of the daemon's data
    faults,    \* failed calls so far
    mu,        \* the holder of the mutex of shellState
    shell,     \* shellState: connected, and the error of the last request
    frame,     \* the frame of each process
    page,      \* the page
    torn,      \* history: GetShellState returned half of a mark
    events,    \* what was announced, per emitter
    overlapped \* history: two loads for the page were under way at once

vars == <<data, faults, mu, shell, frame, page, torn, events, overlapped>>

Calls == {"health", "sites", "runtimes"}

\* kind: refresh, the button or the mount of the page; save; query, a read-only
\* call of the shell; emit.
Idle == [at |-> "idle", kind |-> "none", ok |-> TRUE, change |-> 0,
         snap |-> [c \in Calls |-> 0], since |-> 0]

\* A process has ended; what it changed is remembered.
Ended(f) == [Idle EXCEPT !.at = "done", !.change = f.change]

ForPage(p) == frame[p].kind \in {"refresh", "save"}

\* A load for the page is under way.
Loading(p) == ForPage(p) /\ frame[p].since > 0

Go(p, f) == frame' = [frame EXCEPT ![p] = f]

\* A load starts; version 1 is the first, so that since is the version it
\* started at and 0 before.
BeginLoad(f, kind) == [f EXCEPT !.at = "health", !.kind = kind, !.since = data]

Overlaps == overlapped' = (overlapped \/ \E q \in Procs : Loading(q))

Works == faults' = faults
Breaks == faults < MaxFaults /\ faults' = faults + 1

-----------------------------------------------------------------------------
(* LoadDashboard: three calls under one context, then the mark.             *)

\* Mutant of ReadPart: the sites the page shows are used again.
ReadPartFromPage(c) == IF c = "sites" THEN page.shown ELSE data

\* What the daemon answers.
ReadPart(c) == data

After == [health |-> "sites", sites |-> "runtimes", runtimes |-> "mark"]

\* One call of the daemon: an answer, or an error (a time-out, a refused
\* connection, an answer with an error), which ends the load.
Call(p) ==
    /\ frame[p].at \in Calls
    /\ LET c == frame[p].at
       IN  \/ Works /\ Go(p, [frame[p] EXCEPT !.at = After[c], !.snap[c] = ReadPart(c)])
           \/ Breaks /\ Go(p, [frame[p] EXCEPT !.at = "mark", !.ok = FALSE])
    /\ UNCHANGED <<data, mu, shell, page, torn, events, overlapped>>

\* Mutant of Lock: nobody waits.
LockAtOnce(p) == mu' = p

\* a.mu.Lock.
Lock(p) == mu = Nobody /\ mu' = p

\* The deferred a.mu.Unlock.
Unlock(p) == mu' = Nobody

\* markConnected and markDisconnected write field after field, under the mutex.
\* The time of the last request is left out: LoadDashboard puts it into the
\* snapshot without the mutex, and no page looks at it.
Mark(p) ==
    /\ frame[p].at = "mark"
    /\ Lock(p)
    /\ shell' = [shell EXCEPT !.connected = frame[p].ok, !.marked = TRUE]
    /\ Go(p, [frame[p] EXCEPT !.at = "mark2"])
    /\ UNCHANGED <<data, faults, page, torn, events, overlapped>>

\* Where a process goes when it has marked its request.
Marked(p) ==
    CASE frame[p].kind = "query" -> Ended(frame[p])
      [] frame[p].kind = "save" /\ frame[p].since = 0 -> [frame[p] EXCEPT !.at = "changed"]
      [] OTHER -> [frame[p] EXCEPT !.at = "answer"]

Mark2(p) ==
    /\ frame[p].at = "mark2"
    /\ Unlock(p)
    /\ shell' = [shell EXCEPT !.error = ~frame[p].ok]
    /\ Go(p, Marked(p))
    /\ UNCHANGED <<data, faults, page, torn, events, overlapped>>

Whole(sh) == sh.marked => sh.connected = ~sh.error

\* Mutant of GetShellState: without the mutex.
GetShellStateUnlocked ==
    /\ torn' = (torn \/ ~Whole(shell))
    /\ UNCHANGED <<data, faults, mu, shell, frame, page, events, overlapped>>

GetShellState ==
    /\ mu = Nobody
    /\ torn' = (torn \/ ~Whole(shell))
    /\ UNCHANGED <<data, faults, mu, shell, frame, page, events, overlapped>>

-----------------------------------------------------------------------------
(* emitSnapshot, started by a change, the tray's Refresh or domReady.       *)

TrayRefresh(p) ==
    /\ p \in Clicks /\ frame[p].at = "idle"
    /\ Go(p, BeginLoad(Idle, "emit"))
    /\ UNCHANGED <<data, faults, mu, shell, page, torn, events, overlapped>>

\* Mutant of Emit: a load that failed is not announced.
EmitIfOk(p) ==
    /\ frame[p].kind = "emit" /\ frame[p].at = "answer"
    /\ Go(p, Ended(frame[p]))
    /\ events' = [events EXCEPT ![p] = IF frame[p].ok THEN "snapshot" ELSE @]
    /\ UNCHANGED <<data, faults, mu, shell, page, torn, overlapped>>

Emit(p) ==
    /\ frame[p].kind = "emit" /\ frame[p].at = "answer"
    /\ Go(p, Ended(frame[p]))
    /\ events' = [events EXCEPT ![p] = IF frame[p].ok THEN "snapshot" ELSE "error"]
    /\ UNCHANGED <<data, faults, mu, shell, page, torn, overlapped>>

-----------------------------------------------------------------------------
(* The page.                                                                *)

Refresh(p) ==
    /\ p \in Clicks /\ frame[p].at = "idle"
    /\ Go(p, BeginLoad(Idle, "refresh"))
    /\ page' = [page EXCEPT !.loading = TRUE, !.error = FALSE]
    /\ Overlaps
    /\ UNCHANGED <<data, faults, mu, shell, torn, events>>

\* Mutant of Shown: the error path returns before the flag is reset.
ShownIfOk(p) ==
    IF frame[p].ok THEN [page EXCEPT !.shown = frame[p].snap["sites"], !.loading = FALSE]
    ELSE [page EXCEPT !.error = TRUE]

\* The end of refresh: the data or the error, and the flag in any case.
Shown(p) ==
    IF frame[p].ok THEN [page EXCEPT !.shown = frame[p].snap["sites"], !.loading = FALSE]
    ELSE [page EXCEPT !.error = TRUE, !.loading = FALSE]

Show(p) ==
    /\ ForPage(p) /\ frame[p].at = "answer"
    /\ Go(p, Ended(frame[p]))
    /\ page' = [Shown(p) EXCEPT !.saving = IF frame[p].kind = "save" THEN FALSE ELSE @]
    /\ UNCHANGED <<data, faults, mu, shell, torn, events, overlapped>>

\* registerSite (its button is disabled while saving), and execute with the work of
\* setDefaultRuntime, switchSiteRuntime or serviceAction (whose buttons are not).
Save(p) ==
    /\ p \in Clicks /\ frame[p].at = "idle"
    /\ Go(p, [Idle EXCEPT !.at = "change", !.kind = "save"])
    /\ page' = [page EXCEPT !.saving = TRUE, !.feedback = 0, !.error = FALSE]
    /\ UNCHANGED <<data, faults, mu, shell, torn, events, overlapped>>

\* RegisterSite, UpdateSite, SetDefaultRuntime, SwitchSiteRuntime and
\* ServiceAction of the shell: the daemon makes the change and answers; or the
\* client gets an error, and the change was made, or not.
Change(p) ==
    /\ frame[p].at = "change"
    /\ \/ /\ Works
          /\ data' = data + 1
          /\ Go(p, [frame[p] EXCEPT !.at = "mark", !.change = data + 1])
       \/ /\ Breaks
          /\ data' \in {data, data + 1}
          /\ Go(p, [frame[p] EXCEPT !.at = "mark", !.ok = FALSE])
    /\ UNCHANGED <<mu, shell, page, torn, events, overlapped>>

\* Mutant of Changed: the page is told and does not load again.
ChangedNoLoad(p) ==
    /\ frame[p].at = "changed"
    /\ Go(p, Ended(frame[p]))
    /\ page' = [page EXCEPT !.saving = FALSE, !.feedback = frame[p].change]
    /\ UNCHANGED <<data, faults, mu, shell, torn, events, overlapped>>

\* The change was made: the goroutine is started, the page is told and loads
\* again.  It failed: the page shows the error.
Changed(p) ==
    /\ frame[p].at = "changed"
    /\ \/ /\ frame[p].ok
          /\ frame' = [frame EXCEPT ![p] = BeginLoad(@, "save"),
                                    ![EmitterOf[p]] = BeginLoad(Idle, "emit")]
          /\ page' = [page EXCEPT !.feedback = frame[p].change, !.loading = TRUE,
                                  !.error = FALSE]
          /\ Overlaps
       \/ /\ ~frame[p].ok
          /\ Go(p, Ended(frame[p]))
          /\ page' = [page EXCEPT !.error = TRUE, !.saving = FALSE]
          /\ UNCHANGED overlapped
    /\ UNCHANGED <<data, faults, mu, shell, torn, events>>

\* A read-only call of the shell: one call of the daemon and its mark.
Query(p) ==
    /\ p \in Clicks /\ frame[p].at = "idle"
    /\ LET f == [Idle EXCEPT !.at = "mark", !.kind = "query"]
       IN  (Works /\ Go(p, f)) \/ (Breaks /\ Go(p, [f EXCEPT !.ok = FALSE]))
    /\ UNCHANGED <<data, mu, shell, page, torn, events, overlapped>>

-----------------------------------------------------------------------------
Blank == [connected |-> FALSE, error |-> FALSE, marked |-> FALSE]

Init ==
    /\ data = 1 /\ faults = 0
    /\ mu = Nobody /\ shell = Blank
    /\ frame = [p \in Procs |-> Idle]
    /\ page = [shown |-> 0, loading |-> FALSE, saving |-> FALSE, feedback |-> 0,
               error |-> FALSE]
    /\ torn = FALSE
    /\ events = [p \in Procs |-> "none"]
    /\ overlapped = FALSE

\* What a process does once it was started.
Step(p) ==
    \/ Call(p) \/ Mark(p) \/ Mark2(p) \/ Emit(p) \/ Show(p)
    \/ Change(p) \/ Changed(p)

Next ==
    \/ GetShellState
    \/ \E p \in Procs :
          Step(p) \/ TrayRefresh(p) \/ Refresh(p) \/ Save(p) \/ Query(p)

\* Every call of the daemon ends, within ten seconds at the latest
\* (daemon_client.go:57, app.go:99-101), and the mutex is held for three
\* assignments only.
Spec == Init /\ [][Next]_vars /\ \A p \in Procs : WF_vars(Step(p))

-----------------------------------------------------------------------------
Labels == {"idle", "mark", "mark2", "answer", "change", "changed",
           "done"} \cup Calls

\* The types of the state; the mutex belongs to the process that is between
\* the assignments of markConnected or markDisconnected.
TypeOK ==
    /\ data \in Nat /\ faults \in 0..MaxFaults
    /\ \A p \in Procs : frame[p].at \in Labels /\ (mu = p <=> frame[p].at = "mark2")
    /\ page.shown \in 0..data /\ page.feedback \in 0..data
    /\ page.loading \in BOOLEAN /\ page.saving \in BOOLEAN /\ page.error \in BOOLEAN
    /\ events \in [Procs -> {"none", "snapshot", "error"}]

\* GetShellState never returns a state between the assignments of a mark, one
\* that is connected and has an error, or neither (app.go:93-97, 251-265).
ShellReadsAreWhole == ~torn

\* The parts of a snapshot are read one after the other and none before the
\* load began: a snapshot that is announced for a change, or shown after it,
\* has the change in every part (app.go:99-133, 151-160).
SnapshotsFollowTheChange ==
    \A p \in Procs :
        frame[p].at = "answer" /\ frame[p].ok =>
            LET s == frame[p].snap
            IN  /\ frame[p].since <= s["health"] /\ frame[p].change <= s["health"]
                /\ s["health"] <= s["sites"] /\ s["sites"] <= s["runtimes"]

\* When nothing is under way the page shows the change it confirmed, or an
\* error, provided that no two loads for it were under way at once
\* (useRuntimesPage.ts:16-30, 53-66, useSitesPage.ts:21-57).
QuietPageShowsItsChanges ==
    (\A p \in Clicks : frame[p].at \in {"idle", "done"}) /\ ~overlapped =>
        page.error \/ page.shown >= page.feedback

\* A change that the daemon confirmed is announced: its snapshot, or the error
\* that kept the snapshot from being loaded (app.go:151-160, 230-241).
ChangesAreAnnounced ==
    \A s \in Clicks : frame[s].change > 0 ~> events[EmitterOf[s]] # "none"

\* The page's flags do not stay: each load and each change ends and resets
\* them, however they overlap and whichever call fails
\* (useRuntimesPage.ts:16-30, 53-66).
FlagsClear == page.loading \/ page.saving ~> ~page.loading /\ ~page.saving
=============================================================================
