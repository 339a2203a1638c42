------------------------ MODULE DesktopShell_proofs -------------------------
(***************************************************************************)
(* What GetShellState returns is whole, and a quiet page shows what it has  *)
(* confirmed, for any clicks and emitters, any number of failing calls and  *)
(* any order of the goroutines.                                             *)
(*                                                                          *)
(* ShellReadsAreWhole is not inductive: a read is whole because the mutex   *)
(* is free, and then no process is between the two assignments of a mark.   *)
(* ShellInv says so, what the state looks like while one is, and, since a   *)
(* change starts the goroutine of an emitter, that it does so only once.    *)
(*                                                                          *)
(* On top of it, a snapshot has the change it was loaded after: AllOrdered  *)
(* says what a load that is not finished has read so far.  And on top of    *)
(* that PageInv: until two loads for the page overlap, there is one at most *)
(* and it began after the change that the page confirms.                    *)
(***************************************************************************)
EXTENDS DesktopShell, TLAPS

Kinds == {"none", "refresh", "save", "query", "emit"}
Frame == [at : Labels, kind : Kinds, ok : BOOLEAN, change : Nat,
          snap : [Calls -> Nat], since : Nat]

Typed ==
    /\ data \in Nat \ {0}
    /\ frame \in [Procs -> Frame]
    /\ shell \in [connected : BOOLEAN, error : BOOLEAN, marked : BOOLEAN]

\* The mutex is free, and the state whole, or it is held by the process between
\* the assignments of a mark, which has made the first.
Guarded ==
    /\ mu \in Procs \cup {Nobody}
    /\ \A p \in Procs : mu = p <=> frame[p].at = "mark2"
    /\ mu = Nobody => Whole(shell)
    /\ mu # Nobody => shell.marked /\ shell.connected = frame[mu].ok

\* A click that has not come to its load has not started its emitter; only
\* clicks make changes.
Scheduled ==
    /\ \A s \in Clicks : frame[s].since = 0 /\ frame[s].at # "done" =>
          frame[EmitterOf[s]].at = "idle"
    /\ \A p \in Procs : frame[p].at \in {"idle", "change", "changed"} => frame[p].since = 0
    /\ \A p \in Emitters : frame[p].kind # "save" /\ frame[p].at \notin {"change", "changed"}

ShellInv == Typed /\ Guarded /\ Scheduled /\ ~torn

\* The frame f that process p goes to does not bring it back before its load.
Proceeds(p, f) ==
    /\ f \in Frame
    /\ f.since = 0 /\ f.at # "done" => frame[p].since = 0 /\ frame[p].at # "done"
    /\ f.at # "idle" /\ (f.at \in {"change", "changed"} => f.since = 0)
    /\ p \in Emitters => /\ frame[p].at # "idle"
                         /\ f.kind # "save" /\ f.at \notin {"change", "changed"}

-----------------------------------------------------------------------------
\* Nobody is no process.
LEMMA NobodyIsNoProc == Nobody \notin Procs
BY ShellAssumption DEF Procs

\* The frames of a process that has not begun and of one that has ended.
LEMMA IdleTyped ==
    Idle \in Frame /\ Idle.at = "idle" /\ Idle.ok = TRUE /\ Idle.since = 0 /\ Idle.kind = "none"
BY DEF Idle, Frame, Labels, Kinds, Calls

LEMMA EndedTyped ==
    ASSUME NEW f \in Frame
    PROVE  Ended(f) \in Frame /\ Ended(f).at = "done" /\ Ended(f).kind = "none"
<1>1. Ended(f) = [Idle EXCEPT !.at = "done", !.change = f.change] /\ f.change \in Nat
  BY DEF Ended, Frame
<1> QED BY <1>1, IdleTyped DEF Frame, Labels

\* The start of a load.
LEMMA LoadTyped ==
    ASSUME NEW f \in Frame, NEW k \in Kinds, data \in Nat
    PROVE  /\ BeginLoad(f, k) \in Frame /\ BeginLoad(f, k).at = "health"
           /\ BeginLoad(f, k).kind = k /\ BeginLoad(f, k).since = data
BY DEF BeginLoad, Frame, Labels, Calls

\* A step that leaves the mutex and the shell state alone, and takes processes
\* from labels other than mark2 to other ones, keeps the mutex guarded.
LEMMA OutsideTheMutex ==
    ASSUME ShellInv, UNCHANGED <<mu, shell, torn>>, data' \in Nat \ {0},
           frame' \in [Procs -> Frame],
           \A p \in Procs : \/ frame'[p] = frame[p]
                            \/ frame[p].at # "mark2" /\ frame'[p].at # "mark2"
    PROVE  Typed' /\ Guarded' /\ ~torn'
<1>1. Typed' /\ ~torn'
  BY DEF ShellInv, Typed
<1>2. \A p \in Procs : mu = p => frame'[p] = frame[p]
  BY DEF ShellInv, Guarded
<1>3. Guarded'
  BY <1>2 DEF ShellInv, Guarded, Whole
<1> QED BY <1>1, <1>3

\* A step of one process, forward, starts no emitter.
LEMMA StepScheduled ==
    ASSUME ShellInv, NEW p \in Procs, NEW f, Proceeds(p, f), Go(p, f)
    PROVE  Scheduled' /\ frame' \in [Procs -> Frame]
<1>1. frame \in [Procs -> Frame] /\ f \in Frame
  BY DEF ShellInv, Typed, Proceeds
<1>2. frame' \in [Procs -> Frame] /\ frame'[p] = f
      /\ \A q \in Procs \ {p} : frame'[q] = frame[q]
  BY <1>1 DEF Go
<1>3. ASSUME NEW s \in Clicks, frame'[s].since = 0, frame'[s].at # "done"
      PROVE  frame'[EmitterOf[s]].at = "idle"
  <2>1. EmitterOf[s] \in Emitters /\ EmitterOf[s] \in Procs /\ s \in Procs
    BY ShellAssumption DEF Procs
  <2>2. frame[s].since = 0 /\ frame[s].at # "done"
    BY <1>2, <1>3, <2>1 DEF Proceeds
  <2>3. frame[EmitterOf[s]].at = "idle"
    BY <2>2 DEF ShellInv, Scheduled
  <2> QED BY <1>2, <2>1, <2>3 DEF Proceeds
<1>4. \A q \in Procs : frame'[q].at \in {"idle", "change", "changed"} => frame'[q].since = 0
  BY <1>2 DEF ShellInv, Scheduled, Proceeds
<1>5. \A q \in Emitters : frame'[q].kind # "save" /\ frame'[q].at \notin {"change", "changed"}
  BY <1>2 DEF ShellInv, Scheduled, Proceeds, Procs
<1> QED BY <1>2, <1>3, <1>4, <1>5 DEF Scheduled

\* A step of one process outside the mutex.
LEMMA OneProcess ==
    ASSUME ShellInv, UNCHANGED <<mu, shell, torn>>, data' \in Nat \ {0},
           NEW p \in Procs, NEW f, Proceeds(p, f), Go(p, f),
           frame[p].at # "mark2", f.at # "mark2"
    PROVE  ShellInv'
<1>1. frame' \in [Procs -> Frame] /\ Scheduled'
  BY StepScheduled
<1>2. \A q \in Procs : \/ frame'[q] = frame[q]
                       \/ frame[q].at # "mark2" /\ frame'[q].at # "mark2"
  BY DEF Go, ShellInv, Typed
<1> QED BY <1>1, <1>2, OutsideTheMutex DEF ShellInv

-----------------------------------------------------------------------------
LEMMA InitShell == Init => ShellInv
<1> SUFFICES ASSUME Init PROVE ShellInv
  OBVIOUS
<1>1. Typed /\ ~torn
  BY IdleTyped DEF Init, Typed, Blank
<1>2. \A p \in Procs : frame[p] = Idle
  BY DEF Init
<1>3. Guarded
  BY <1>2, IdleTyped, NobodyIsNoProc DEF Init, Guarded, Whole, Blank
<1>4. Scheduled
  BY <1>2, IdleTyped, ShellAssumption DEF Scheduled, Procs
<1> QED BY <1>1, <1>3, <1>4 DEF ShellInv

LEMMA CallKeeps == ASSUME ShellInv, NEW p \in Procs, Call(p) PROVE ShellInv'
<1> DEFINE c == frame[p].at
           answer == [frame[p] EXCEPT !.at = After[c], !.snap[c] = ReadPart(c)]
           error == [frame[p] EXCEPT !.at = "mark", !.ok = FALSE]
<1>1. frame[p] \in Frame /\ c \in Calls /\ data \in Nat \ {0} /\ data' = data
  BY DEF Call, ShellInv, Typed
<1>2. c \notin {"mark2", "done", "idle"} /\ (p \in Emitters => frame[p].kind # "save")
  BY <1>1 DEF Calls, ShellInv, Scheduled
<1>3. After[c] \in {"sites", "runtimes", "mark"}
  BY <1>1 DEF After, Calls
<1>4. error \in Frame /\ error.at = "mark" /\ error.since = frame[p].since /\ error.kind = frame[p].kind
  BY <1>1 DEF Frame, Labels
<1>5. answer \in Frame /\ answer.at = After[c] /\ answer.since = frame[p].since /\ answer.kind = frame[p].kind
  BY <1>1, <1>3 DEF Frame, ReadPart, Labels, Calls
<1>6. Go(p, answer) \/ Go(p, error)
  BY DEF Call
<1>7. UNCHANGED <<mu, shell, torn>>
  BY DEF Call
<1> HIDE DEF c, answer, error
<1>8. Proceeds(p, error) /\ error.at # "mark2"
  BY <1>2, <1>4 DEF Proceeds, c
<1>9. Proceeds(p, answer) /\ answer.at # "mark2"
  BY <1>2, <1>3, <1>5 DEF Proceeds, c
<1>10. frame[p].at # "mark2"
  BY <1>2 DEF c
<1> QED BY <1>1, <1>6, <1>7, <1>8, <1>9, <1>10, OneProcess

LEMMA MarkKeeps == ASSUME ShellInv, NEW p \in Procs, Mark(p) PROVE ShellInv'
<1> DEFINE f == [frame[p] EXCEPT !.at = "mark2"]
<1>1. frame[p] \in Frame /\ frame \in [Procs -> Frame] /\ frame[p].at = "mark"
  BY DEF ShellInv, Typed, Mark
<1>2. /\ f \in Frame /\ f.at = "mark2" /\ f.ok = frame[p].ok /\ frame[p].ok \in BOOLEAN
      /\ f.since = frame[p].since /\ f.kind = frame[p].kind
  BY <1>1 DEF Frame, Labels
<1>3. Go(p, f) /\ frame' = [frame EXCEPT ![p] = f] /\ mu = Nobody /\ mu' = p
  BY DEF Mark, Go, Lock
<1>4. shell' = [shell EXCEPT !.connected = frame[p].ok, !.marked = TRUE] /\ UNCHANGED <<data, torn>>
  BY DEF Mark
<1> HIDE DEF f
<1>5. Typed' /\ ~torn'
  BY <1>1, <1>2, <1>3, <1>4 DEF ShellInv, Typed
<1>6. \A q \in Procs : frame[q].at # "mark2"
  BY <1>3, NobodyIsNoProc DEF ShellInv, Guarded
<1>7. \A q \in Procs : mu' = q <=> frame'[q].at = "mark2"
  BY <1>1, <1>2, <1>3, <1>6
<1>8. shell'.marked /\ shell'.connected = frame'[mu'].ok
  BY <1>1, <1>2, <1>3, <1>4 DEF ShellInv, Typed
<1>9. Guarded'
  BY <1>3, <1>7, <1>8, NobodyIsNoProc DEF Guarded
<1>10. Proceeds(p, f)
  BY <1>1, <1>2 DEF Proceeds, ShellInv, Scheduled
<1>11. Scheduled'
  BY <1>3, <1>10, StepScheduled
<1> QED BY <1>5, <1>9, <1>11 DEF ShellInv

\* A process that has marked its request goes on outside the mutex.
LEMMA MarkedProceeds ==
    ASSUME ShellInv, NEW p \in Procs, frame[p].at = "mark2"
    PROVE  Proceeds(p, Marked(p)) /\ Marked(p).at # "mark2"
<1> DEFINE changed == [frame[p] EXCEPT !.at = "changed"]
           answer == [frame[p] EXCEPT !.at = "answer"]
<1>1. frame[p] \in Frame /\ (p \in Emitters => frame[p].kind # "save")
  BY DEF ShellInv, Typed, Scheduled
<1>2. Proceeds(p, Ended(frame[p])) /\ Ended(frame[p]).at # "mark2"
  BY <1>1, EndedTyped DEF Proceeds
<1>3. changed \in Frame /\ changed.at = "changed" /\ changed.since = frame[p].since /\ changed.kind = frame[p].kind
  BY <1>1 DEF Frame, Labels
<1>4. answer \in Frame /\ answer.at = "answer" /\ answer.since = frame[p].since /\ answer.kind = frame[p].kind
  BY <1>1 DEF Frame, Labels
<1>5. \/ Marked(p) = Ended(frame[p])
      \/ Marked(p) = changed /\ frame[p].kind = "save" /\ frame[p].since = 0
      \/ Marked(p) = answer
  BY Zenon DEF Marked
<1> HIDE DEF changed, answer
<1>6. Proceeds(p, answer) /\ answer.at # "mark2"
  BY <1>1, <1>4 DEF Proceeds
<1>7. frame[p].kind = "save" /\ frame[p].since = 0 => Proceeds(p, changed) /\ changed.at # "mark2"
  BY <1>1, <1>3 DEF Proceeds
<1> QED BY <1>2, <1>5, <1>6, <1>7

LEMMA Mark2Keeps == ASSUME ShellInv, NEW p \in Procs, Mark2(p) PROVE ShellInv'
<1> DEFINE f == Marked(p)
<1>1. frame \in [Procs -> Frame] /\ frame[p].at = "mark2" /\ frame[p].ok \in BOOLEAN
  BY DEF ShellInv, Typed, Mark2, Frame
<1>2. Proceeds(p, f) /\ f \in Frame /\ f.at # "mark2"
  BY <1>1, MarkedProceeds DEF Proceeds
<1>3. /\ Go(p, f) /\ frame' = [frame EXCEPT ![p] = f] /\ mu' = Nobody
      /\ shell' = [shell EXCEPT !.error = ~frame[p].ok]
      /\ UNCHANGED <<data, torn>>
  BY DEF Mark2, Go, Unlock
<1>4. mu = p /\ mu # Nobody
  BY <1>1, NobodyIsNoProc DEF ShellInv, Guarded
<1> HIDE DEF f
<1>5. Typed' /\ ~torn'
  BY <1>1, <1>2, <1>3 DEF ShellInv, Typed
<1>6. \A q \in Procs : q # p => frame[q].at # "mark2"
  BY <1>4 DEF ShellInv, Guarded
<1>7. \A q \in Procs : frame'[q].at # "mark2"
  BY <1>1, <1>2, <1>3, <1>6
<1>8. shell'.connected = frame[p].ok /\ shell'.error = ~frame[p].ok
  BY <1>3, <1>4 DEF ShellInv, Typed, Guarded
<1>9. Whole(shell')
  BY <1>1, <1>8 DEF Whole
<1>10. Guarded'
  BY <1>3, <1>7, <1>9, NobodyIsNoProc DEF Guarded, Whole
<1>11. Scheduled'
  BY <1>2, <1>3, StepScheduled
<1> QED BY <1>5, <1>10, <1>11 DEF ShellInv

\* The mutex is free when the state is read.
LEMMA GetShellStateKeeps == ASSUME ShellInv, GetShellState PROVE ShellInv'
<1>1. Whole(shell) /\ ~torn'
  BY DEF GetShellState, ShellInv, Guarded
<1>2. Typed' /\ Guarded' /\ Scheduled'
  BY DEF GetShellState, ShellInv, Typed, Guarded, Scheduled, Whole
<1> QED BY <1>1, <1>2 DEF ShellInv

\* A click begins.
LEMMA BeginKeeps ==
    ASSUME ShellInv, NEW p \in Procs,
           TrayRefresh(p) \/ Refresh(p) \/ Save(p) \/ Query(p)
    PROVE  ShellInv'
<1> DEFINE change == [Idle EXCEPT !.at = "change", !.kind = "save"]
           query == [Idle EXCEPT !.at = "mark", !.kind = "query"]
           failed == [query EXCEPT !.ok = FALSE]
<1>1. /\ UNCHANGED <<mu, shell, torn, data>>
      /\ p \in Clicks /\ p \notin Emitters /\ frame[p].at = "idle"
  BY ShellAssumption DEF TrayRefresh, Refresh, Save, Query
<1>2. data \in Nat \ {0} /\ data' \in Nat \ {0} /\ frame[p].since = 0
  BY <1>1 DEF ShellInv, Typed, Scheduled
<1>3. ASSUME NEW f \in Frame, f.at \notin {"idle", "changed", "mark2"}, f.at = "change" => f.since = 0, Go(p, f)
      PROVE  ShellInv'
  <2>1. Proceeds(p, f)
    BY <1>1, <1>2, <1>3 DEF Proceeds
  <2> QED BY <1>1, <1>2, <1>3, <2>1, OneProcess
<1>4. change \in Frame /\ change.at = "change" /\ change.since = 0
  BY IdleTyped DEF Frame, Labels, Kinds
<1>5. query \in Frame /\ query.at = "mark"
  BY IdleTyped DEF Frame, Labels, Kinds
<1>6. failed \in Frame /\ failed.at = "mark"
  BY IdleTyped DEF Frame, Labels, Kinds
<1>7. \A k \in Kinds : BeginLoad(Idle, k) \in Frame /\ BeginLoad(Idle, k).at = "health"
  BY <1>2, IdleTyped, LoadTyped
<1>8. CASE TrayRefresh(p) \/ Refresh(p)
  <2>1. PICK k \in Kinds : Go(p, BeginLoad(Idle, k))
    BY <1>8 DEF TrayRefresh, Refresh, Kinds
  <2> QED BY <1>3, <1>7, <2>1
<1>9. CASE Save(p)
  <2>1. Go(p, change)
    BY <1>9 DEF Save
  <2> HIDE DEF change
  <2> QED BY <1>3, <1>4, <2>1
<1>10. CASE Query(p)
  <2>1. Go(p, query) \/ Go(p, failed)
    BY <1>10 DEF Query
  <2> HIDE DEF query, failed
  <2> QED BY <1>3, <1>5, <1>6, <2>1
<1> QED BY <1>8, <1>9, <1>10

\* A process ends.
LEMMA EndKeeps ==
    ASSUME ShellInv, NEW p \in Procs, Emit(p) \/ Show(p)
    PROVE  ShellInv'
<1>1. /\ UNCHANGED <<mu, shell, torn, data>> /\ frame[p].at = "answer"
      /\ Go(p, Ended(frame[p]))
  BY DEF Emit, Show
<1>2. frame[p] \in Frame /\ data' \in Nat \ {0}
  BY <1>1 DEF ShellInv, Typed
<1>3. Proceeds(p, Ended(frame[p])) /\ Ended(frame[p]).at # "mark2"
  BY <1>1, <1>2, EndedTyped DEF Proceeds
<1> QED BY <1>1, <1>2, <1>3, OneProcess

LEMMA ChangeKeeps == ASSUME ShellInv, NEW p \in Procs, Change(p) PROVE ShellInv'
<1> DEFINE made == [frame[p] EXCEPT !.at = "mark", !.change = data + 1]
           error == [frame[p] EXCEPT !.at = "mark", !.ok = FALSE]
<1>1. /\ frame[p] \in Frame /\ data \in Nat \ {0} /\ frame[p].at = "change"
      /\ p \notin Emitters /\ frame[p].since = 0
  BY DEF ShellInv, Typed, Scheduled, Change
<1>2. made \in Frame /\ made.at = "mark"
  <2>1. \A n \in Nat : LET m == [frame[p] EXCEPT !.at = "mark", !.change = n]
                       IN  m \in Frame /\ m.at = "mark"
    BY <1>1 DEF Frame, Labels
  <2>2. data + 1 \in Nat
    BY <1>1
  <2> QED BY <2>1, <2>2
<1>3. error \in Frame /\ error.at = "mark"
  BY <1>1 DEF Frame, Labels
<1>4. data' \in Nat \ {0} /\ UNCHANGED <<mu, shell, torn>>
  BY <1>1 DEF Change
<1>5. Go(p, made) \/ Go(p, error)
  BY DEF Change
<1> HIDE DEF made, error
<1>6. Proceeds(p, made) /\ Proceeds(p, error)
  BY <1>1, <1>2, <1>3 DEF Proceeds
<1> QED BY <1>1, <1>2, <1>3, <1>4, <1>5, <1>6, OneProcess

\* A change that was made starts its emitter, which is idle until then.
LEMMA ChangedKeeps == ASSUME ShellInv, NEW p \in Procs, Changed(p) PROVE ShellInv'
<1>1. /\ frame \in [Procs -> Frame] /\ frame[p] \in Frame /\ data \in Nat \ {0}
      /\ frame[p].at = "changed" /\ frame[p].since = 0 /\ p \in Clicks
      /\ UNCHANGED <<mu, shell, torn, data>>
  BY DEF ShellInv, Typed, Scheduled, Changed, Procs
<1>2. CASE ~frame[p].ok
  <2>1. Go(p, Ended(frame[p]))
    BY <1>2 DEF Changed
  <2>2. Proceeds(p, Ended(frame[p])) /\ Ended(frame[p]).at # "mark2"
    BY <1>1, EndedTyped DEF Proceeds
  <2> QED BY <1>1, <2>1, <2>2, OneProcess
<1>3. CASE frame[p].ok
  <2> DEFINE e == EmitterOf[p]
             f == BeginLoad(frame[p], "save")
             g == BeginLoad(Idle, "emit")
  <2>1. frame' = [frame EXCEPT ![p] = f, ![e] = g]
    BY <1>3 DEF Changed
  <2>2. e \in Emitters /\ e \in Procs /\ e # p /\ frame[e].at = "idle"
    BY <1>1, ShellAssumption DEF ShellInv, Scheduled, Procs
  <2>3. /\ f \in Frame /\ f.at = "health" /\ f.since = data
        /\ g \in Frame /\ g.at = "health" /\ g.kind = "emit"
    BY <1>1, IdleTyped, LoadTyped DEF Kinds
  <2>4. \A s \in Clicks : EmitterOf[s] \in Procs \ Clicks /\ (EmitterOf[s] = e => s = p)
    BY <1>1, ShellAssumption DEF Procs
  <2> HIDE DEF e, f, g
  <2>5. /\ frame' \in [Procs -> Frame] /\ frame'[p] = f /\ frame'[e] = g
        /\ \A q \in Procs \ {p, e} : frame'[q] = frame[q]
    BY <1>1, <2>1, <2>2, <2>3
  <2>6. Typed' /\ Guarded' /\ ~torn'
    BY <1>1, <2>2, <2>3, <2>5, OutsideTheMutex
  <2>7. \A s \in Clicks : frame'[s].since = 0 /\ frame'[s].at # "done" =>
           frame'[EmitterOf[s]].at = "idle"
    <3> SUFFICES ASSUME NEW s \in Clicks, frame'[s].since = 0, frame'[s].at # "done"
                 PROVE  frame'[EmitterOf[s]].at = "idle"
      OBVIOUS
    <3>1. s # p /\ s # e /\ s \in Procs
      BY <1>1, <2>2, <2>3, <2>5, ShellAssumption DEF Procs
    <3>2. frame[EmitterOf[s]].at = "idle"
      BY <2>5, <3>1 DEF ShellInv, Scheduled
    <3>3. EmitterOf[s] \in Procs \ {p, e}
      BY <1>1, <2>4, <3>1
    <3> QED BY <2>5, <3>2, <3>3
  <2>8. \A q \in Procs : frame'[q].at \in {"idle", "change", "changed"} => frame'[q].since = 0
    BY <2>3, <2>5 DEF ShellInv, Scheduled
  <2>9. \A q \in Emitters : frame'[q].kind # "save" /\ frame'[q].at \notin {"change", "changed"}
    <3>1. p \notin Emitters
      BY <1>1, ShellAssumption
    <3> QED BY <2>3, <2>5, <3>1 DEF ShellInv, Scheduled, Procs
  <2> QED BY <2>6, <2>7, <2>8, <2>9 DEF ShellInv, Scheduled
<1> QED BY <1>2, <1>3

LEMMA NextShell == ShellInv /\ [Next]_vars => ShellInv'
<1> SUFFICES ASSUME ShellInv, [Next]_vars PROVE ShellInv'
  OBVIOUS
<1>1. CASE UNCHANGED vars
  BY <1>1 DEF vars, ShellInv, Typed, Guarded, Scheduled, Whole
<1>2. CASE GetShellState
  BY <1>2, GetShellStateKeeps
<1>3. ASSUME NEW p \in Procs, Step(p) PROVE ShellInv'
  BY <1>3, CallKeeps, MarkKeeps, Mark2Keeps, EndKeeps, ChangeKeeps, ChangedKeeps DEF Step
<1>4. ASSUME NEW p \in Procs, TrayRefresh(p) \/ Refresh(p) \/ Save(p) \/ Query(p) PROVE ShellInv'
  BY <1>4, BeginKeeps
<1> QED BY <1>1, <1>2, <1>3, <1>4 DEF Next

\* GetShellState (app.go:93-97) never sees a state that markConnected or
\* markDisconnected (app.go:251-265) has half written.
THEOREM ShellReadsAlwaysWhole == Spec => []ShellReadsAreWhole
<1>1. ShellInv => ShellReadsAreWhole
  BY DEF ShellInv, ShellReadsAreWhole
<1> QED BY InitShell, NextShell, <1>1, PTL DEF Spec

-----------------------------------------------------------------------------
(* Snapshots.                                                               *)

\* What frame f has read so far, when the data has version d: each part was read
\* after the one before it, and all of them after the load began, which was after
\* the change.
Ordered(f, d) ==
    /\ f.since <= d /\ f.change <= d
    /\ f.since > 0 => f.change <= f.since
    /\ f.ok /\ f.at = "sites" => f.since <= f.snap["health"] /\ f.snap["health"] <= d
    /\ f.ok /\ f.at = "runtimes" =>
          /\ f.since <= f.snap["health"] /\ f.snap["health"] <= f.snap["sites"]
          /\ f.snap["sites"] <= d
    /\ f.ok /\ f.since > 0 /\ f.at \in {"mark", "mark2", "answer"} =>
          /\ f.since <= f.snap["health"] /\ f.snap["health"] <= f.snap["sites"]
          /\ f.snap["sites"] <= f.snap["runtimes"] /\ f.snap["runtimes"] <= d
    /\ f.at = "done" => f.since = 0
    /\ f.at \in Calls \cup {"answer"} => f.since > 0
    /\ f.at \in {"mark", "mark2"} => f.since > 0 \/ f.kind \in {"query", "save"}
    /\ f.at = "change" => f.kind = "save"

AllOrdered == \A p \in Procs : Ordered(frame[p], data)

\* The data only grows, and what was read before stays older.
LEMMA OrderedLater ==
    ASSUME NEW f \in Frame, NEW d \in Nat, NEW e \in Nat, d <= e, Ordered(f, d)
    PROVE  Ordered(f, e)
<1>1. /\ f.since \in Nat /\ f.change \in Nat /\ f.snap["health"] \in Nat
      /\ f.snap["sites"] \in Nat /\ f.snap["runtimes"] \in Nat
  BY DEF Frame, Calls
<1> QED BY <1>1 DEF Ordered

\* A step of one process to an ordered frame.
LEMMA GoOrdered ==
    ASSUME ShellInv, AllOrdered, NEW p \in Procs, NEW f, Go(p, f),
           data' \in Nat, data <= data', Ordered(f, data')
    PROVE  AllOrdered'
<1>1. frame \in [Procs -> Frame] /\ data \in Nat
  BY DEF ShellInv, Typed
<1>2. frame'[p] = f /\ \A q \in Procs \ {p} : frame'[q] = frame[q]
  BY <1>1 DEF Go
<1>3. \A q \in Procs : Ordered(frame[q], data')
  BY <1>1, OrderedLater DEF AllOrdered
<1> QED BY <1>2, <1>3 DEF AllOrdered

LEMMA EndedOrdered ==
    ASSUME NEW f \in Frame, NEW d \in Nat, Ordered(f, d)
    PROVE  Ordered(Ended(f), d)
<1>1. /\ Ended(f).at = "done" /\ Ended(f).since = 0 /\ Ended(f).change = f.change
  BY DEF Ended, Idle
<1>2. f.change \in Nat
  BY DEF Frame
<1> QED BY <1>1, <1>2 DEF Ordered, Calls

LEMMA LoadOrdered ==
    ASSUME NEW f \in Frame, NEW k \in Kinds, data \in Nat \ {0}, f.change <= data
    PROVE  Ordered(BeginLoad(f, k), data)
<1>1. /\ BeginLoad(f, k).at = "health" /\ BeginLoad(f, k).since = data
      /\ BeginLoad(f, k).change = f.change
  BY DEF BeginLoad, Frame
<1> QED BY <1>1 DEF Ordered, Calls

LEMMA CallOrdered ==
    ASSUME ShellInv, AllOrdered, NEW p \in Procs, Call(p)
    PROVE  AllOrdered'
<1> DEFINE c == frame[p].at
           answer == [frame[p] EXCEPT !.at = After[c], !.snap[c] = ReadPart(c)]
           error == [frame[p] EXCEPT !.at = "mark", !.ok = FALSE]
<1>1. frame[p] \in Frame /\ c \in Calls /\ data \in Nat \ {0} /\ data' = data
      /\ Ordered(frame[p], data)
  BY DEF Call, ShellInv, Typed, AllOrdered
<1>2. /\ error.at = "mark" /\ error.ok = FALSE /\ error.since = frame[p].since
      /\ error.kind = frame[p].kind /\ error.change = frame[p].change
  BY <1>1 DEF Frame
<1>3. /\ answer.at = After[c] /\ answer.ok = frame[p].ok /\ answer.since = frame[p].since
      /\ answer.kind = frame[p].kind /\ answer.change = frame[p].change
      /\ answer.snap = [frame[p].snap EXCEPT ![c] = data]
  BY <1>1 DEF Frame, ReadPart
<1>4. frame[p].snap \in [Calls -> Nat] /\ frame[p].since \in Nat /\ frame[p].change \in Nat
  BY <1>1 DEF Frame
<1>5. Go(p, answer) \/ Go(p, error)
  BY DEF Call
<1> HIDE DEF answer, error
<1>6. Ordered(error, data)
  BY <1>1, <1>2, <1>4 DEF Ordered, Calls
<1>7. Ordered(answer, data)
  <2>1. CASE c = "health"
    BY <1>1, <1>3, <1>4, <2>1 DEF Ordered, Calls, After
  <2>2. CASE c = "sites"
    BY <1>1, <1>3, <1>4, <2>2 DEF Ordered, Calls, After
  <2>3. CASE c = "runtimes"
    BY <1>1, <1>3, <1>4, <2>3 DEF Ordered, Calls, After
  <2> QED BY <1>1, <2>1, <2>2, <2>3 DEF Calls
<1> QED BY <1>1, <1>5, <1>6, <1>7, GoOrdered

LEMMA MarkOrdered ==
    ASSUME ShellInv, AllOrdered, NEW p \in Procs, Mark(p) \/ Mark2(p)
    PROVE  AllOrdered'
<1> DEFINE At(l) == [frame[p] EXCEPT !.at = l]
<1>1. frame[p] \in Frame /\ data \in Nat \ {0} /\ data' = data /\ Ordered(frame[p], data)
  BY DEF Mark, Mark2, ShellInv, Typed, AllOrdered
<1>2. \A l \in {"mark2", "answer", "changed"} :
        /\ At(l).at = l /\ At(l).ok = frame[p].ok /\ At(l).since = frame[p].since
        /\ At(l).kind = frame[p].kind /\ At(l).change = frame[p].change
        /\ At(l).snap = frame[p].snap
  BY <1>1 DEF Frame
<1>3. frame[p].at \in {"mark", "mark2"}
  BY DEF Mark, Mark2
<1>4. frame[p].since \in Nat /\ frame[p].change \in Nat
  BY <1>1 DEF Frame
<1>5. \/ Go(p, At("mark2"))
      \/ Go(p, Ended(frame[p]))
      \/ Go(p, At("changed"))
      \/ Go(p, At("answer")) /\ frame[p].kind # "query"
         /\ ~(frame[p].kind = "save" /\ frame[p].since = 0)
  BY Zenon DEF Mark, Mark2, Marked
<1> HIDE DEF At
<1>6. Ordered(At("mark2"), data)
  BY <1>1, <1>2, <1>3, <1>4 DEF Ordered, Calls
<1>7. Ordered(At("changed"), data)
  BY <1>1, <1>2, <1>3, <1>4 DEF Ordered, Calls
<1>8. frame[p].kind # "query" /\ ~(frame[p].kind = "save" /\ frame[p].since = 0) =>
        Ordered(At("answer"), data)
  BY <1>1, <1>2, <1>3, <1>4 DEF Ordered, Calls
<1>9. Ordered(Ended(frame[p]), data)
  BY <1>1, EndedOrdered
<1> QED BY <1>1, <1>5, <1>6, <1>7, <1>8, <1>9, GoOrdered

LEMMA EdgesOrdered ==
    ASSUME ShellInv, AllOrdered, NEW p \in Procs,
           TrayRefresh(p) \/ Refresh(p) \/ Save(p) \/ Query(p) \/ Emit(p) \/ Show(p)
    PROVE  AllOrdered'
<1> DEFINE change == [Idle EXCEPT !.at = "change", !.kind = "save"]
           query == [Idle EXCEPT !.at = "mark", !.kind = "query"]
           failed == [query EXCEPT !.ok = FALSE]
<1>1. data \in Nat \ {0} /\ data' = data /\ frame[p] \in Frame /\ Ordered(frame[p], data)
  BY DEF ShellInv, Typed, AllOrdered, TrayRefresh, Refresh, Save, Query, Emit, Show
<1>2. change.at = "change" /\ change.kind = "save" /\ change.since = 0 /\ change.change = 0
  BY DEF Idle
<1>3. query.at = "mark" /\ query.kind = "query" /\ query.since = 0 /\ query.change = 0
  BY DEF Idle
<1>4. failed.at = "mark" /\ failed.kind = "query" /\ failed.since = 0 /\ failed.change = 0
  BY DEF Idle
<1>5. \A k \in Kinds : Ordered(BeginLoad(Idle, k), data)
  <2>1. Idle \in Frame /\ Idle.change <= data
    BY <1>1, IdleTyped DEF Idle
  <2> QED BY <1>1, <2>1, LoadOrdered
<1>6. Ordered(Ended(frame[p]), data)
  BY <1>1, EndedOrdered
<1>7. \/ Go(p, change) \/ Go(p, query) \/ Go(p, failed) \/ Go(p, Ended(frame[p]))
      \/ Go(p, BeginLoad(Idle, "emit")) \/ Go(p, BeginLoad(Idle, "refresh"))
  BY Zenon DEF TrayRefresh, Refresh, Save, Query, Emit, Show
<1> HIDE DEF change, query, failed
<1>8. Ordered(change, data) /\ Ordered(query, data) /\ Ordered(failed, data)
  BY <1>1, <1>2, <1>3, <1>4 DEF Ordered, Calls
<1> QED BY <1>1, <1>5, <1>6, <1>7, <1>8, GoOrdered DEF Kinds

LEMMA ChangeOrdered ==
    ASSUME ShellInv, AllOrdered, NEW p \in Procs, Change(p)
    PROVE  AllOrdered'
<1> DEFINE made == [frame[p] EXCEPT !.at = "mark", !.change = data + 1]
           error == [frame[p] EXCEPT !.at = "mark", !.ok = FALSE]
<1>1. /\ data \in Nat \ {0} /\ frame[p] \in Frame /\ Ordered(frame[p], data)
      /\ frame[p].at = "change" /\ frame[p].since = 0
  BY DEF Change, ShellInv, Typed, Scheduled, AllOrdered
<1>2. /\ made.at = "mark" /\ made.since = frame[p].since /\ made.kind = frame[p].kind
      /\ made.change = data + 1
  BY <1>1 DEF Frame
<1>3. /\ error.at = "mark" /\ error.since = frame[p].since /\ error.kind = frame[p].kind
      /\ error.change = frame[p].change
  BY <1>1 DEF Frame
<1>4. frame[p].change \in Nat
  BY <1>1 DEF Frame
<1>5. \/ Go(p, made) /\ data' = data + 1
      \/ Go(p, error) /\ data' \in {data, data + 1}
  BY DEF Change
<1> HIDE DEF made, error
<1>6. data' \in Nat /\ data <= data'
  BY <1>1, <1>5
<1>7. data' = data + 1 => Ordered(made, data')
  BY <1>1, <1>2 DEF Ordered, Calls
<1>8. Ordered(error, data')
  BY <1>1, <1>3, <1>4, <1>6 DEF Ordered, Calls
<1> QED BY <1>5, <1>6, <1>7, <1>8, GoOrdered

LEMMA ChangedOrdered ==
    ASSUME ShellInv, AllOrdered, NEW p \in Procs, Changed(p)
    PROVE  AllOrdered'
<1>1. /\ frame \in [Procs -> Frame] /\ frame[p] \in Frame /\ Ordered(frame[p], data)
      /\ data \in Nat \ {0} /\ data' = data /\ frame[p].at = "changed" /\ p \in Clicks
  BY DEF ShellInv, Typed, Scheduled, AllOrdered, Changed, Procs
<1>2. CASE ~frame[p].ok
  <2>1. Go(p, Ended(frame[p]))
    BY <1>2 DEF Changed
  <2>2. Ordered(Ended(frame[p]), data)
    BY <1>1, EndedOrdered
  <2> QED BY <1>1, <2>1, <2>2, GoOrdered
<1>3. CASE frame[p].ok
  <2> DEFINE e == EmitterOf[p]
             f == BeginLoad(frame[p], "save")
             g == BeginLoad(Idle, "emit")
  <2>1. frame' = [frame EXCEPT ![p] = f, ![e] = g]
    BY <1>3 DEF Changed
  <2>2. e \in Procs /\ e # p
    BY <1>1, ShellAssumption DEF Procs
  <2>3. Ordered(f, data)
    BY <1>1, LoadOrdered DEF Kinds, Ordered
  <2>4. Ordered(g, data)
    <3>1. Idle \in Frame /\ Idle.change <= data
      BY <1>1, IdleTyped DEF Idle
    <3> QED BY <1>1, <3>1, LoadOrdered DEF Kinds
  <2> HIDE DEF e, f, g
  <2>5. /\ frame'[p] = f /\ frame'[e] = g
        /\ \A q \in Procs \ {p, e} : frame'[q] = frame[q]
    BY <1>1, <2>1, <2>2
  <2> QED BY <1>1, <2>3, <2>4, <2>5 DEF AllOrdered
<1> QED BY <1>2, <1>3

LEMMA NextOrdered == ShellInv /\ AllOrdered /\ [Next]_vars => AllOrdered'
<1> SUFFICES ASSUME ShellInv, AllOrdered, [Next]_vars PROVE AllOrdered'
  OBVIOUS
<1>1. CASE UNCHANGED vars \/ GetShellState
  BY <1>1 DEF vars, GetShellState, AllOrdered
<1>2. ASSUME NEW p \in Procs, Step(p) PROVE AllOrdered'
  BY <1>2, CallOrdered, MarkOrdered, EdgesOrdered, ChangeOrdered, ChangedOrdered DEF Step
<1>3. ASSUME NEW p \in Procs, TrayRefresh(p) \/ Refresh(p) \/ Save(p) \/ Query(p) PROVE AllOrdered'
  BY <1>3, EdgesOrdered
<1> QED BY <1>1, <1>2, <1>3 DEF Next

LEMMA InitOrdered == Init => AllOrdered
<1> SUFFICES ASSUME Init PROVE AllOrdered
  OBVIOUS
<1>1. Idle.at = "idle" /\ Idle.since = 0 /\ Idle.change = 0
  BY DEF Idle
<1>2. data = 1 /\ \A p \in Procs : frame[p] = Idle
  BY DEF Init
<1> QED BY <1>1, <1>2 DEF AllOrdered, Ordered, Calls

\* A snapshot that LoadDashboard returns (app.go:99-133) has, in every part, the
\* change it was loaded after, and no part older than the one before it.
THEOREM SnapshotsAlwaysFollow == Spec => []SnapshotsFollowTheChange
<1>1. ShellInv /\ AllOrdered => SnapshotsFollowTheChange
  <2> SUFFICES ASSUME ShellInv, AllOrdered, NEW p \in Procs, frame[p].at = "answer", frame[p].ok
               PROVE  LET s == frame[p].snap
                      IN  /\ frame[p].since <= s["health"] /\ frame[p].change <= s["health"]
                          /\ s["health"] <= s["sites"] /\ s["sites"] <= s["runtimes"]
    BY DEF SnapshotsFollowTheChange
  <2>1. frame[p] \in Frame /\ Ordered(frame[p], data)
    BY DEF ShellInv, Typed, AllOrdered
  <2>2. /\ frame[p].since \in Nat /\ frame[p].change \in Nat
        /\ frame[p].snap["health"] \in Nat
    BY <2>1 DEF Frame, Calls
  <2> QED BY <2>1, <2>2 DEF Ordered
<1> QED BY InitShell, InitOrdered, NextShell, NextOrdered, <1>1, PTL DEF Spec

-----------------------------------------------------------------------------
(* The page.  A change is confirmed on the page when the load that follows  *)
(* it begins, so a load that is under way alone shows what was confirmed.   *)

PageTyped ==
    /\ page \in [shown : Nat, loading : BOOLEAN, saving : BOOLEAN, feedback : Nat,
                 error : BOOLEAN]
    /\ page.shown <= data /\ page.feedback <= data

CountersTyped ==
    /\ faults \in Nat /\ faults <= MaxFaults
    /\ events \in [Procs -> {"none", "snapshot", "error"}]
    /\ overlapped \in BOOLEAN

Solo == \A p, q \in Procs : Loading(p) /\ Loading(q) => p = q
Current == \A p \in Procs : Loading(p) => page.feedback <= frame[p].since
Shows == page.error \/ page.feedback <= page.shown \/ \E p \in Clicks : Loading(p)

PageInv == PageTyped /\ CountersTyped /\ (~overlapped => Solo /\ Current /\ Shows)

\* A frame of a load for the page.
Loads(f) == f.kind \in {"refresh", "save"} /\ f.since > 0

\* A step of a process that neither begins nor ends a load for the page.
SameLoads ==
    \A q \in Procs : /\ Loading(q)' <=> Loading(q)
                     /\ Loading(q) => frame'[q].since = frame[q].since

LEMMA GoSameLoads ==
    ASSUME ShellInv, NEW p \in Procs, NEW f, Go(p, f),
           \/ f.kind = frame[p].kind /\ f.since = frame[p].since
           \/ ~Loads(f) /\ ~Loads(frame[p])
    PROVE  SameLoads
<1>1. frame'[p] = f /\ \A q \in Procs \ {p} : frame'[q] = frame[q]
  BY DEF Go, ShellInv, Typed
<1> QED BY <1>1 DEF SameLoads, Loading, ForPage, Loads

LEMMA SameLoadsKeep ==
    ASSUME ShellInv, PageInv, SameLoads, UNCHANGED overlapped, CountersTyped', PageTyped',
           page'.feedback \in {0, page.feedback}, page'.shown = page.shown,
           page'.feedback = 0 \/ page'.error = page.error \/ page'.error
    PROVE  PageInv'
<1>0. /\ page.shown \in Nat /\ page.feedback \in Nat /\ page'.feedback \in Nat
      /\ \A p \in Procs : frame[p].since \in Nat
  BY DEF ShellInv, Typed, Frame, PageInv, PageTyped
<1>1. ASSUME ~overlapped' PROVE Solo' /\ Current' /\ Shows'
  <2>1. Solo /\ Current /\ Shows
    BY <1>1 DEF PageInv
  <2>2. Solo'
    BY <2>1 DEF Solo, SameLoads
  <2>3. Current'
    BY <1>0, <2>1 DEF Current, SameLoads
  <2>4. Shows'
    <3>1. CASE page'.feedback = 0
      BY <1>0, <3>1 DEF Shows
    <3>2. CASE page'.feedback = page.feedback /\ (page'.error = page.error \/ page'.error)
      BY <2>1, <3>2 DEF Shows, SameLoads, Procs
    <3> QED BY <3>1, <3>2
  <2> QED BY <2>2, <2>3, <2>4
<1> QED BY <1>1 DEF PageInv

\* Calls, marks, queries, announcements and changes leave the page alone.
LEMMA QuietPage ==
    ASSUME ShellInv, PageInv, SameLoads, UNCHANGED <<page, overlapped>>, CountersTyped',
           data' \in Nat, data <= data'
    PROVE  PageInv'
<1>1. data \in Nat
  BY DEF ShellInv, Typed
<1>2. PageTyped'
  BY <1>1 DEF PageInv, PageTyped
<1> QED BY <1>2, SameLoadsKeep DEF PageInv, PageTyped

LEMMA CallPage ==
    ASSUME ShellInv, PageInv, NEW p \in Procs, Call(p) \/ Mark(p) \/ Mark2(p)
    PROVE  PageInv'
<1>0. frame[p] \in Frame /\ data \in Nat /\ data' = data /\ UNCHANGED <<page, overlapped>>
  BY DEF ShellInv, Typed, Call, Mark, Mark2
<1>1. CountersTyped'
  BY ShellAssumption DEF PageInv, CountersTyped, Call, Mark, Mark2, Works, Breaks
<1> DEFINE Same(f) == f.kind = frame[p].kind /\ f.since = frame[p].since
<1>2. CASE Call(p)
  <2> DEFINE c == frame[p].at
             answer == [frame[p] EXCEPT !.at = After[c], !.snap[c] = ReadPart(c)]
             error == [frame[p] EXCEPT !.at = "mark", !.ok = FALSE]
  <2>1. Same(answer) /\ Same(error)
    BY <1>0 DEF Frame
  <2>2. Go(p, answer) \/ Go(p, error)
    BY <1>2 DEF Call
  <2> HIDE DEF answer, error
  <2>3. SameLoads
    BY <2>1, <2>2, GoSameLoads
  <2> QED BY <1>0, <1>1, <2>3, QuietPage
<1>3. CASE Mark(p)
  <2> DEFINE f == [frame[p] EXCEPT !.at = "mark2"]
  <2>1. Same(f) /\ Go(p, f)
    BY <1>0, <1>3 DEF Frame, Mark
  <2> HIDE DEF f
  <2>2. SameLoads
    BY <2>1, GoSameLoads
  <2> QED BY <1>0, <1>1, <2>2, QuietPage
<1>4. CASE Mark2(p)
  <2>1. \/ Marked(p) = Ended(frame[p]) /\ frame[p].kind = "query"
        \/ Marked(p) = [frame[p] EXCEPT !.at = "changed"]
        \/ Marked(p) = [frame[p] EXCEPT !.at = "answer"]
    BY Zenon DEF Marked
  <2>2. Ended(frame[p]).kind = "none"
    BY <1>0, EndedTyped
  <2>3. Same(Marked(p)) \/ (~Loads(Marked(p)) /\ ~Loads(frame[p]))
    BY <1>0, <2>1, <2>2 DEF Frame, Loads
  <2>4. SameLoads
    BY <1>4, <2>3, GoSameLoads DEF Mark2
  <2> QED BY <1>0, <1>1, <2>4, QuietPage
<1> QED BY <1>2, <1>3, <1>4

\* The steps of processes that load nothing for the page.
LEMMA ElsewherePage ==
    ASSUME ShellInv, PageInv, NEW p \in Procs,
           TrayRefresh(p) \/ Query(p) \/ Emit(p) \/ Change(p)
    PROVE  PageInv'
<1>0. /\ frame[p] \in Frame /\ data \in Nat /\ data' \in Nat /\ data <= data'
      /\ UNCHANGED <<page, overlapped>>
  BY DEF ShellInv, Typed, TrayRefresh, Query, Emit, Change
<1>1. CountersTyped'
  BY ShellAssumption DEF PageInv, CountersTyped, TrayRefresh, Query, Emit, Change, Works, Breaks
<1>2. ~Loads(frame[p])
  <2>1. frame[p].kind = "emit" \/ frame[p].at \in {"idle", "change"}
    BY DEF TrayRefresh, Query, Emit, Change
  <2> QED BY <2>1 DEF ShellInv, Scheduled, Loads
<1>3. PICK f : Go(p, f) /\ ~Loads(f)
  <2>1. CASE TrayRefresh(p)
    <3>1. BeginLoad(Idle, "emit").kind = "emit"
      BY <1>0, IdleTyped, LoadTyped DEF Kinds
    <3> QED BY <2>1, <3>1 DEF TrayRefresh, Loads
  <2>2. CASE Query(p)
    <3> DEFINE query == [Idle EXCEPT !.at = "mark", !.kind = "query"]
               failed == [query EXCEPT !.ok = FALSE]
    <3>1. query.kind = "query" /\ failed.kind = "query"
      BY DEF Idle
    <3>2. Go(p, query) \/ Go(p, failed)
      BY <2>2 DEF Query
    <3> HIDE DEF query, failed
    <3> QED BY <3>1, <3>2 DEF Loads
  <2>3. CASE Emit(p)
    BY <1>0, <2>3, EndedTyped DEF Emit, Loads
  <2>4. CASE Change(p)
    <3> DEFINE made == [frame[p] EXCEPT !.at = "mark", !.change = data + 1]
               error == [frame[p] EXCEPT !.at = "mark", !.ok = FALSE]
    <3>1. frame[p].since = 0
      BY <2>4 DEF Change, ShellInv, Scheduled
    <3>2. made.since = 0 /\ error.since = 0
      BY <1>0, <3>1 DEF Frame
    <3>3. Go(p, made) \/ Go(p, error)
      BY <2>4 DEF Change
    <3> HIDE DEF made, error
    <3> QED BY <3>2, <3>3 DEF Loads
  <2> QED BY <2>1, <2>2, <2>3, <2>4
<1>4. SameLoads
  BY <1>2, <1>3, GoSameLoads
<1> QED BY <1>0, <1>1, <1>4, QuietPage

\* The button that makes a change clears what the last one said.
LEMMA SavePage ==
    ASSUME ShellInv, PageInv, NEW p \in Procs, Save(p)
    PROVE  PageInv'
<1> DEFINE f == [Idle EXCEPT !.at = "change", !.kind = "save"]
<1>1. Go(p, f) /\ f.since = 0 /\ frame[p].since = 0
  BY DEF Save, Idle, ShellInv, Scheduled
<1> HIDE DEF f
<1>2. SameLoads
  BY <1>1, GoSameLoads DEF Loads
<1>3. page' = [page EXCEPT !.saving = TRUE, !.feedback = 0, !.error = FALSE]
      /\ UNCHANGED <<data, faults, events, overlapped>>
  BY DEF Save
<1>4. CountersTyped'
  BY <1>3 DEF PageInv, CountersTyped
<1>5. PageTyped' /\ page'.feedback = 0 /\ page'.shown = page.shown
  <2>1. data \in Nat /\ PageTyped
    BY DEF PageInv, ShellInv, Typed
  <2>2. page'.feedback = 0 /\ page'.shown = page.shown
    BY <1>3, <2>1 DEF PageTyped
  <2>3. page' \in [shown : Nat, loading : BOOLEAN, saving : BOOLEAN, feedback : Nat, error : BOOLEAN]
    BY <1>3, <2>1 DEF PageTyped
  <2> QED BY <1>3, <2>1, <2>2, <2>3 DEF PageTyped
<1> QED BY <1>2, <1>3, <1>4, <1>5, SameLoadsKeep

\* A load begins: it is alone, or overlapped says that it is not, and it is
\* younger than everything the page has confirmed.
LEMMA LoadPage ==
    ASSUME ShellInv, PageInv, NEW p \in Clicks, NEW f, Loads(f), f.since = data,
           frame'[p] = f,
           \A q \in Procs \ {p} : frame'[q] = frame[q] \/ ~Loads(frame'[q]),
           Overlaps, PageTyped', UNCHANGED <<data, faults, events>>
    PROVE  PageInv'
<1>1. CountersTyped'
  BY DEF PageInv, CountersTyped, Overlaps
<1>2. ASSUME ~overlapped' PROVE Solo' /\ Current' /\ Shows'
  <2>1. \A q \in Procs : ~Loading(q)
    BY <1>2 DEF Overlaps
  <2>2. Loading(p)' /\ p \in Procs
    BY DEF Loads, Loading, ForPage, Procs
  <2>3. \A q \in Procs \ {p} : ~Loading(q)'
    BY <2>1 DEF Loads, Loading, ForPage
  <2>4. page'.feedback <= frame'[p].since
    BY DEF PageTyped
  <2> QED BY <2>2, <2>3, <2>4 DEF Solo, Current, Shows
<1> QED BY <1>1, <1>2 DEF PageInv

LEMMA RefreshPage ==
    ASSUME ShellInv, PageInv, NEW p \in Procs, Refresh(p)
    PROVE  PageInv'
<1> DEFINE f == BeginLoad(Idle, "refresh")
<1>1. /\ Go(p, f) /\ p \in Clicks /\ Overlaps /\ UNCHANGED <<data, faults, events>>
      /\ page' = [page EXCEPT !.loading = TRUE, !.error = FALSE]
  BY DEF Refresh
<1>2. data \in Nat \ {0} /\ frame \in [Procs -> Frame]
  BY DEF ShellInv, Typed
<1>3. f.kind = "refresh" /\ f.since = data
  BY <1>2, IdleTyped, LoadTyped DEF Kinds
<1> HIDE DEF f
<1>4. frame'[p] = f /\ \A q \in Procs \ {p} : frame'[q] = frame[q]
  BY <1>1, <1>2 DEF Go
<1>5. PageTyped'
  BY <1>1 DEF PageInv, PageTyped
<1>6. Loads(f)
  BY <1>2, <1>3 DEF Loads
<1> QED BY <1>1, <1>3, <1>4, <1>5, <1>6, LoadPage

LEMMA ChangedPage ==
    ASSUME ShellInv, AllOrdered, PageInv, NEW p \in Procs, Changed(p)
    PROVE  PageInv'
<1>1. /\ frame \in [Procs -> Frame] /\ frame[p] \in Frame /\ data \in Nat \ {0}
      /\ frame[p].since = 0 /\ p \in Clicks /\ UNCHANGED <<data, faults, events>>
      /\ Ordered(frame[p], data)
  BY DEF ShellInv, Typed, Scheduled, Changed, Procs, AllOrdered
<1>2. frame[p].change \in Nat /\ frame[p].change <= data
  BY <1>1 DEF Frame, Ordered
<1>3. CASE ~frame[p].ok
  <2>1. /\ Go(p, Ended(frame[p])) /\ UNCHANGED overlapped
        /\ page' = [page EXCEPT !.error = TRUE, !.saving = FALSE]
    BY <1>3 DEF Changed
  <2>2. SameLoads
    BY <1>1, <2>1, EndedTyped, GoSameLoads DEF Loads
  <2>3. CountersTyped'
    BY <1>1, <2>1 DEF PageInv, CountersTyped
  <2>4. PageTyped' /\ page'.feedback = page.feedback /\ page'.shown = page.shown /\ page'.error
    BY <1>1, <2>1 DEF PageInv, PageTyped
  <2> QED BY <2>1, <2>2, <2>3, <2>4, SameLoadsKeep
<1>4. CASE frame[p].ok
  <2> DEFINE e == EmitterOf[p]
             f == BeginLoad(frame[p], "save")
             g == BeginLoad(Idle, "emit")
  <2>1. /\ frame' = [frame EXCEPT ![p] = f, ![e] = g] /\ Overlaps
        /\ page' = [page EXCEPT !.feedback = frame[p].change, !.loading = TRUE, !.error = FALSE]
    BY <1>4 DEF Changed
  <2>2. e \in Procs /\ e # p
    BY <1>1, ShellAssumption DEF Procs
  <2>3. f.kind = "save" /\ f.since = data /\ g.kind = "emit"
    BY <1>1, IdleTyped, LoadTyped DEF Kinds
  <2> HIDE DEF e, f, g
  <2>4. /\ frame'[p] = f /\ frame'[e] = g
        /\ \A q \in Procs \ {p, e} : frame'[q] = frame[q]
    BY <1>1, <2>1, <2>2
  <2>5. Loads(f) /\ ~Loads(g)
    BY <1>1, <2>3 DEF Loads
  <2>6. PageTyped'
    BY <1>1, <1>2, <2>1 DEF PageInv, PageTyped
  <2>7. \A q \in Procs \ {p} : frame'[q] = frame[q] \/ ~Loads(frame'[q])
    BY <2>4, <2>5
  <2> QED BY <1>1, <2>1, <2>3, <2>4, <2>5, <2>6, <2>7, LoadPage
<1> QED BY <1>3, <1>4

\* A load ends: the page shows what it brought, which is at least as young as
\* the load, or an error.
LEMMA ShowPage ==
    ASSUME ShellInv, AllOrdered, PageInv, NEW p \in Procs, Show(p)
    PROVE  PageInv'
<1> DEFINE s == frame[p].snap["sites"]
<1>1. /\ frame \in [Procs -> Frame] /\ frame[p] \in Frame /\ data \in Nat /\ data' = data
      /\ Ordered(frame[p], data) /\ frame[p].at = "answer" /\ ForPage(p)
      /\ UNCHANGED <<faults, events, overlapped>> /\ Go(p, Ended(frame[p]))
      /\ page' = [Shown(p) EXCEPT !.saving = IF frame[p].kind = "save" THEN FALSE ELSE @]
  BY DEF ShellInv, Typed, AllOrdered, Show
<1>2. /\ frame[p].since \in Nat /\ frame[p].snap["health"] \in Nat /\ s \in Nat
      /\ frame[p].snap["runtimes"] \in Nat /\ frame[p].ok \in BOOLEAN
  BY <1>1 DEF Frame, Calls
<1>3. Loading(p) /\ (frame[p].ok => frame[p].since <= s /\ s <= data)
  BY <1>1, <1>2 DEF Ordered, Loading
<1>4. /\ page \in [shown : Nat, loading : BOOLEAN, saving : BOOLEAN, feedback : Nat, error : BOOLEAN]
      /\ page.shown <= data /\ page.feedback <= data
  BY DEF PageInv, PageTyped
<1>5. /\ PageTyped' /\ page'.feedback = page.feedback
      /\ frame[p].ok => page'.shown = s
      /\ ~frame[p].ok => page'.error
  BY <1>1, <1>2, <1>3, <1>4 DEF Shown, PageTyped
<1>6. CountersTyped'
  BY <1>1 DEF PageInv, CountersTyped
<1>7. frame'[p] = Ended(frame[p]) /\ \A q \in Procs \ {p} : frame'[q] = frame[q]
  BY <1>1 DEF Go
<1>8. ~Loading(p)' /\ \A q \in Procs \ {p} : Loading(q)' <=> Loading(q)
  BY <1>1, <1>7, EndedTyped DEF Loading, ForPage
<1>9. ASSUME ~overlapped' PROVE Solo' /\ Current' /\ Shows'
  <2>1. Solo /\ Current
    BY <1>1, <1>9 DEF PageInv
  <2>2. \A q \in Procs : ~Loading(q)'
    BY <1>3, <1>8, <2>1 DEF Solo
  <2>3. page.feedback <= frame[p].since
    BY <1>3, <2>1 DEF Current
  <2>4. page'.error \/ page'.feedback <= page'.shown
    BY <1>2, <1>3, <1>4, <1>5, <2>3
  <2> QED BY <2>2, <2>4 DEF Solo, Current, Shows
<1> QED BY <1>5, <1>6, <1>9 DEF PageInv

LEMMA NextPage == ShellInv /\ AllOrdered /\ PageInv /\ [Next]_vars => PageInv'
<1> SUFFICES ASSUME ShellInv, AllOrdered, PageInv, [Next]_vars PROVE PageInv'
  OBVIOUS
<1>1. CASE UNCHANGED vars \/ GetShellState
  <2>1. UNCHANGED <<data, faults, frame, page, events, overlapped>>
    BY <1>1 DEF vars, GetShellState
  <2>2. SameLoads /\ CountersTyped' /\ data \in Nat
    BY <2>1 DEF SameLoads, Loading, ForPage, PageInv, CountersTyped, ShellInv, Typed
  <2> QED BY <2>1, <2>2, QuietPage
<1>2. ASSUME NEW p \in Procs, Step(p) PROVE PageInv'
  BY <1>2, CallPage, ElsewherePage, ShowPage, ChangedPage DEF Step
<1>3. ASSUME NEW p \in Procs, TrayRefresh(p) \/ Refresh(p) \/ Save(p) \/ Query(p) PROVE PageInv'
  BY <1>3, ElsewherePage, RefreshPage, SavePage
<1> QED BY <1>1, <1>2, <1>3 DEF Next

LEMMA InitPage == Init => PageInv
<1> SUFFICES ASSUME Init PROVE PageInv
  OBVIOUS
<1>1. PageTyped
  BY DEF Init, PageTyped
<1>2. CountersTyped
  <2>0. faults = 0 /\ overlapped \in BOOLEAN
    BY Zenon DEF Init
  <2>1. faults \in Nat /\ faults <= MaxFaults
    BY <2>0, ShellAssumption
  <2>2. events \in [Procs -> {"none", "snapshot", "error"}]
    BY DEF Init
  <2> QED BY <2>0, <2>1, <2>2 DEF CountersTyped
<1>3. \A p \in Procs : ~Loading(p)
  BY IdleTyped DEF Init, Loading
<1>4. page.shown = 0 /\ page.feedback = 0
  BY DEF Init
<1> QED BY <1>1, <1>2, <1>3, <1>4 DEF PageInv, Solo, Current, Shows

LEMMA PageAlways == Spec => [](ShellInv /\ AllOrdered /\ PageInv)
BY InitShell, InitOrdered, InitPage, NextShell, NextOrdered, NextPage, PTL DEF Spec

\* The types, and the mutex is held by a process between the assignments of
\* markConnected or markDisconnected (app.go:251-265) and by no other.
THEOREM ShellAlwaysTyped == Spec => []TypeOK
<1>1. ShellInv /\ AllOrdered /\ PageInv => TypeOK
  <2> SUFFICES ASSUME ShellInv, PageInv PROVE TypeOK
    OBVIOUS
  <2>1. data \in Nat /\ \A p \in Procs : frame[p].at \in Labels /\ (mu = p <=> frame[p].at = "mark2")
    BY DEF ShellInv, Typed, Guarded, Frame
  <2>2. faults \in 0..MaxFaults /\ events \in [Procs -> {"none", "snapshot", "error"}]
    BY ShellAssumption DEF PageInv, CountersTyped
  <2>3. /\ page.shown \in 0..data /\ page.feedback \in 0..data
        /\ page.loading \in BOOLEAN /\ page.saving \in BOOLEAN /\ page.error \in BOOLEAN
    BY <2>1 DEF PageInv, PageTyped
  <2> QED BY <2>1, <2>2, <2>3 DEF TypeOK
<1> QED BY <1>1, PageAlways, PTL

\* A page that waits for nothing shows the change it has confirmed or an error,
\* for any number of clicks, unless two loads for it were under way at once
\* (useRuntimesPage.ts:16-30, 53-66, useSitesPage.ts:21-57).
THEOREM QuietPageAlwaysShows == Spec => []QuietPageShowsItsChanges
<1>1. ShellInv /\ AllOrdered /\ PageInv => QuietPageShowsItsChanges
  <2> SUFFICES ASSUME ShellInv, AllOrdered, PageInv, ~overlapped,
                      \A p \in Clicks : frame[p].at \in {"idle", "done"}
               PROVE  page.error \/ page.shown >= page.feedback
    BY DEF QuietPageShowsItsChanges
  <2>1. \A p \in Clicks : frame[p].since = 0
    BY DEF ShellInv, Scheduled, AllOrdered, Ordered, Procs
  <2>2. Shows /\ page.shown \in Nat /\ page.feedback \in Nat
    BY DEF PageInv, PageTyped
  <2> QED BY <2>1, <2>2 DEF Shows, Loading
<1> QED BY <1>1, PageAlways, PTL
=============================================================================
