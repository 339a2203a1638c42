---------------------------- MODULE Caddy_proofs ----------------------------
(***************************************************************************)
(* Theorems about Caddy, for any sites, configurations, operator's blocks,  *)
(* callers and failures, any number of them, and a daemon that may die at   *)
(* every step.  The operator's blocks are kept (IInv) and the files are     *)
(* well formed (CaddyTyped) even if an undo fails; a failed call has no     *)
(* effect if its undo works (Stands, UndosWork), and one that succeeds has  *)
(* exactly the effect it was asked for (Ahead).                             *)
(***************************************************************************)
EXTENDS CaddyCall, TLAPS

-----------------------------------------------------------------------------
(* The inductive invariant.                                                 *)

Anything == {Absent, Foreign} \cup Configs \cup RootFiles

Frames ==
    [at : Labels \cup {"none"}, op : {"none", "activate", "remove"}, id : Paths,
     want : {Absent} \cup Configs, rootPrevious : Anything, previous : Anything,
     rootChanged : BOOLEAN, reloadAgain : BOOLEAN, path : Paths, data : Anything,
     ok : Continuations, err : Continuations, result : {"none", "ok", "err"}]

Types ==
    /\ files \in [Paths -> Anything]
    /\ temp \in [Paths -> Anything]
    /\ call \in [Callers -> Frames]

\* A root Caddyfile, or none, that has the operator's blocks and no others.
Good(f) == OperatorPart(f) = OperatorBlocks

\* What is true of the frame of a call in progress.  What was read from the
\* Caddyfile is good, and so is what is going to be written to it; a file is
\* removed only in place of one that did not exist.
GoodFrame(f) ==
    /\ f.at \notin {"idle", "returned"} => f.id \in SiteIds
    /\ f.at \notin {"idle", "returned", "readRoot"} => Good(f.rootPrevious)
    /\ f.at \in {"writeTemp", "rename", "remove"} /\ f.path = Root => Good(f.data)
    /\ f.at = "remove" => f.data = Absent

GoodFrames == \A c \in Callers : GoodFrame(call[c])

\* One call at a time, and the temporary that is about to be renamed is the
\* one this call has written.
OneAtATime == \A c, d \in Callers : InProgress(c) /\ InProgress(d) => c = d
OwnTemporary ==
    \A c \in Callers : call[c].at = "rename" => temp[call[c].path] = call[c].data

IInv == Types /\ GoodFrames /\ OneAtATime /\ OwnTemporary /\ OperatorConfigKept

-----------------------------------------------------------------------------
(* The Caddyfile with and without the import.                               *)

\* Adding the import to a good Caddyfile gives a good one, which exists.
LEMMA EnsureIsGood ==
    ASSUME NEW f, Good(f)
    PROVE  /\ Good(ensureManagedRootImport(f))
           /\ ensureManagedRootImport(f) \in RootFiles
<1>1. CASE f = Absent
  <2>1. OperatorBlocks = {}  BY <1>1 DEF Good, OperatorPart
  <2>2. ensureManagedRootImport(f) = {Import}  BY <1>1 DEF ensureManagedRootImport
  <2>3. {Import} \in RootFiles  BY DEF RootFiles
  <2> QED  BY <2>1, <2>2, <2>3, CaddyAssumption DEF Good, OperatorPart
<1>2. CASE f # Absent
  <2>1. f \ {Import} = OperatorBlocks  BY <1>2 DEF Good, OperatorPart
  <2>2. ensureManagedRootImport(f) = f \cup {Import}
    BY <1>2 DEF ensureManagedRootImport
  <2>3. f \cup {Import} \in RootFiles  BY <2>1 DEF RootFiles
  <2>4. (f \cup {Import}) \ {Import} = OperatorBlocks  BY <2>1
  <2> QED  BY <2>2, <2>3, <2>4, CaddyAssumption DEF Good, OperatorPart
<1> QED  BY <1>1, <1>2

\* Taking the import out of a good Caddyfile gives a good one, or none.
LEMMA RemoveIsGood ==
    ASSUME NEW f, Good(f), HasImport(f)
    PROVE  /\ Good(removeManagedRootImport(f))
           /\ removeManagedRootImport(f) \in {Absent} \cup RootFiles
<1>1. f # Absent /\ f \ {Import} = OperatorBlocks
  BY DEF HasImport, Good, OperatorPart
<1>2. CASE f = {Import}
  <2>1. OperatorBlocks = {}  BY <1>1, <1>2
  <2> QED  BY <1>2, <2>1 DEF removeManagedRootImport, Good, OperatorPart
<1>3. CASE f # {Import}
  <2>1. removeManagedRootImport(f) = OperatorBlocks
    BY <1>1, <1>3 DEF removeManagedRootImport
  <2>2. OperatorBlocks \in RootFiles  BY DEF RootFiles
  <2>3. OperatorBlocks \ {Import} = OperatorBlocks  BY CaddyAssumption
  <2> QED  BY <2>1, <2>2, <2>3, CaddyAssumption DEF Good, OperatorPart
<1> QED  BY <1>2, <1>3

-----------------------------------------------------------------------------
(* Frames.                                                                  *)

\* A caller that has no call in progress.
LEMMA IdleIsGood ==
    /\ Idle \in Frames /\ GoodFrame(Idle)
    /\ \A res \in {"ok", "err"} : Returned(res) \in Frames /\ GoodFrame(Returned(res))
BY DEF Idle, Returned, Frames, GoodFrame, Anything, Paths, Continuations, Labels

\* A write and a restore of good content, to the Caddyfile or to a site file.
LEMMA WriteIsGood ==
    ASSUME NEW f \in Frames, NEW p \in Paths, NEW d \in Anything,
           NEW ok \in Continuations, NEW err \in Continuations,
           f.id \in SiteIds, Good(f.rootPrevious), p = Root => Good(d)
    PROVE  /\ restoreFile(f, p, d, ok, err) \in Frames
           /\ GoodFrame(restoreFile(f, p, d, ok, err))
           /\ restoreFile(f, p, d, ok, err).at # "rename"
           /\ writeAtomically(f, p, d, ok, err) \in Frames
           /\ GoodFrame(writeAtomically(f, p, d, ok, err))
           /\ writeAtomically(f, p, d, ok, err).at # "rename"
<1>1. writeAtomically(f, p, d, ok, err) =
        [f EXCEPT !.at = "writeTemp", !.path = p, !.data = d, !.ok = ok, !.err = err]
  BY DEF writeAtomically
<1>2. /\ writeAtomically(f, p, d, ok, err) \in Frames
      /\ GoodFrame(writeAtomically(f, p, d, ok, err))
      /\ writeAtomically(f, p, d, ok, err).at # "rename"
  BY <1>1 DEF Frames, GoodFrame, Labels
<1>3. CASE d = Absent
  <2>1. restoreFile(f, p, d, ok, err) =
          [f EXCEPT !.at = "remove", !.path = p, !.data = d, !.ok = ok, !.err = err]
    BY <1>3 DEF restoreFile
  <2> DEFINE g == restoreFile(f, p, d, ok, err)
  <2>2. g \in Frames  BY <2>1 DEF Frames, Labels
  <2>3. g.at = "remove" /\ g.path = p /\ g.data = d /\ g.id = f.id
        /\ g.rootPrevious = f.rootPrevious
    BY <2>1 DEF Frames
  <2>4. GoodFrame(g)  BY <1>3, <2>3 DEF GoodFrame
  <2> QED  BY <1>2, <2>2, <2>3, <2>4
<1>4. CASE d # Absent
  <2>1. restoreFile(f, p, d, ok, err) = writeAtomically(f, p, d, ok, err)
    BY <1>1, <1>4 DEF restoreFile
  <2> QED  BY <1>2, <2>1
<1> QED  BY <1>2, <1>3, <1>4

\* The undo of a call, from each of its stages.
LEMMA UndoIsGood ==
    ASSUME NEW f \in Frames, f.id \in SiteIds, Good(f.rootPrevious)
    PROVE  /\ Undone(f) \in Frames /\ GoodFrame(Undone(f)) /\ Undone(f).at # "rename"
           /\ UndoRoot(f) \in Frames /\ GoodFrame(UndoRoot(f)) /\ UndoRoot(f).at # "rename"
           /\ UndoConfig(f) \in Frames /\ GoodFrame(UndoConfig(f))
           /\ UndoConfig(f).at # "rename"
<1>1. Undone(f) \in Frames /\ GoodFrame(Undone(f)) /\ Undone(f).at # "rename"
  <2>1. CASE f.reloadAgain
    BY <2>1 DEF Undone, Frames, GoodFrame, Labels
  <2>2. CASE ~f.reloadAgain
    <3>1. Undone(f) = Returned("err")  BY <2>2 DEF Undone
    <3>2. Returned("err").at = "returned"  BY DEF Returned, Idle
    <3> QED  BY <3>1, <3>2, IdleIsGood
  <2> QED  BY <2>1, <2>2
<1>2. /\ f.rootPrevious \in Anything /\ f.previous \in Anything
      /\ f.rootChanged \in BOOLEAN
      /\ f.id \in Paths /\ Root \in Paths /\ f.id # Root
      /\ "undone" \in Continuations /\ "undoRoot" \in Continuations
  BY CaddyAssumption DEF Frames, Paths, Continuations
<1>3. UndoRoot(f) \in Frames /\ GoodFrame(UndoRoot(f)) /\ UndoRoot(f).at # "rename"
  <2>1. CASE f.rootChanged
    <3>1. UndoRoot(f) = restoreFile(f, Root, f.rootPrevious, "undone", "undone")
      BY <2>1 DEF UndoRoot
    <3> QED  BY <3>1, <1>2, WriteIsGood
  <2>2. CASE ~f.rootChanged
    BY <1>1, <2>2 DEF UndoRoot
  <2> QED  BY <2>1, <2>2
<1>4. UndoConfig(f) \in Frames /\ GoodFrame(UndoConfig(f)) /\ UndoConfig(f).at # "rename"
  BY <1>2, WriteIsGood DEF UndoConfig
<1> QED  BY <1>1, <1>3, <1>4

\* Wherever a call continues after a write.
LEMMA ContinueIsGood ==
    ASSUME NEW f \in Frames, f.id \in SiteIds, Good(f.rootPrevious),
           NEW l \in Continuations
    PROVE  /\ Continue(f, l) \in Frames /\ GoodFrame(Continue(f, l))
           /\ Continue(f, l).at # "rename"
<1>1. CASE l = "fail"
  <2>1. Continue(f, l) = Returned("err")  BY <1>1 DEF Continue
  <2>2. Returned("err").at = "returned"  BY DEF Returned, Idle
  <2> QED  BY <2>1, <2>2, IdleIsGood
<1>2. CASE l = "putBack"
  <2>1. Continue(f, l) = restoreFile(f, f.id, f.previous, "fail", "fail")
    BY <1>2 DEF Continue
  <2>2. f.previous \in Anything /\ f.id \in Paths /\ f.id # Root /\ "fail" \in Continuations
    BY CaddyAssumption DEF Frames, Continuations
  <2> QED  BY <2>1, <2>2, WriteIsGood
<1>3. CASE l = "undoRoot"
  <2>1. Continue(f, l) = UndoRoot(f)  BY <1>3 DEF Continue
  <2> QED  BY <2>1, UndoIsGood
<1>4. CASE l = "undone"
  <2>1. Continue(f, l) = Undone(f)  BY <1>4 DEF Continue
  <2> QED  BY <2>1, UndoIsGood
<1>5. CASE l \in {"none", "readConfig", "validate", "glob"}
  <2>1. Continue(f, l) = [f EXCEPT !.at = l]  BY <1>5 DEF Continue
  <2>2. l \notin {"writeTemp", "rename", "remove"} /\ l \in Labels \cup {"none"}
    BY <1>5 DEF Labels
  <2> QED  BY <2>1, <2>2 DEF Frames, GoodFrame, Labels
<1> QED  BY <1>1, <1>2, <1>3, <1>4, <1>5 DEF Continuations

-----------------------------------------------------------------------------
(* Init and the actions.                                                    *)

\* A fresh daemon: no call in progress, and a Caddyfile as the operator left it.
LEMMA InitIInv == Init => IInv
<1> SUFFICES ASSUME Init PROVE IInv  OBVIOUS
<1>1. files \in InitialFiles /\ temp = [p \in Paths |-> Absent]
      /\ call = [c \in Callers |-> Idle]
  BY DEF Init, CaddyInit
<1>2. OperatorConfigKept
  <2>1. \/ files[Root] \in RootFiles /\ files[Root] \ {Import} = OperatorBlocks
        \/ files[Root] = Absent /\ OperatorBlocks = {}
    BY <1>1, CaddyAssumption
  <2> QED  BY <2>1, CaddyAssumption DEF OperatorConfigKept, OperatorPart
<1>3. Types
  <2>1. \A p \in Paths : files[p] \in Anything
    BY <1>1, CaddyAssumption DEF Paths, Anything
  <2>2. files \in [Paths -> Anything]  BY <1>1, <2>1, CaddyAssumption
  <2>3. temp \in [Paths -> Anything]  BY <1>1 DEF Anything
  <2> QED  BY <1>1, <2>2, <2>3, IdleIsGood DEF Types
<1>4. GoodFrames /\ OneAtATime /\ OwnTemporary
  BY <1>1, IdleIsGood DEF GoodFrames, OneAtATime, OwnTemporary, InProgress, Idle
<1> QED  BY <1>2, <1>3, <1>4 DEF IInv

\* A step of the call of c, which is in progress, that ends in a good frame
\* and leaves the Caddyfile as it was.
LEMMA FrameStep ==
    ASSUME IInv, NEW c \in Callers, InProgress(c), NEW f \in Frames, To(c, f),
           GoodFrame(f), f.at # "rename" \/ temp'[f.path] = f.data,
           files' \in [Paths -> Anything], temp' \in [Paths -> Anything],
           OperatorConfigKept'
    PROVE  IInv'
<1>1. call' = [call EXCEPT ![c] = f]  BY DEF To
<1>2. call \in [Callers -> Frames]  BY DEF IInv, Types
<1>3. call'[c] = f /\ \A d \in Callers : d # c => call'[d] = call[d]  BY <1>1, <1>2
<1>4. \A d \in Callers : d # c => call[d].at \in {"idle", "returned"}
  BY DEF IInv, OneAtATime, InProgress
<1>5. Types'  BY <1>1, <1>2 DEF Types
<1>6. GoodFrames'
  <2>1. \A d \in Callers : GoodFrame(call'[d])
    BY <1>3 DEF IInv, GoodFrames
  <2> QED  BY <2>1 DEF GoodFrames, GoodFrame, Good, OperatorPart
<1>7. OneAtATime'  BY <1>3, <1>4 DEF OneAtATime, InProgress
<1>8. OwnTemporary'  BY <1>3, <1>4 DEF OwnTemporary
<1> QED  BY <1>5, <1>6, <1>7, <1>8 DEF IInv

\* What the invariant says of the frame of a call in progress.
LEMMA FrameFacts ==
    ASSUME IInv, NEW c \in Callers
    PROVE  /\ call[c] \in Frames /\ GoodFrame(call[c])
           /\ files \in [Paths -> Anything] /\ temp \in [Paths -> Anything]
           /\ Root \in Paths /\ Good(files[Root])
BY DEF IInv, Types, GoodFrames, OperatorConfigKept, Good, Paths

\* Reading the Caddyfile, and planning to add the import (ActivateSite).
LEMMA ReadRootStep ==
    ASSUME IInv, NEW c \in Callers, ReadRoot(c)
    PROVE  IInv'
<1> DEFINE f == [call[c] EXCEPT !.rootPrevious = files[Root]]
<1>1. call[c].at = "readRoot" /\ UNCHANGED <<files, temp>>  BY DEF ReadRoot
<1>2. f \in Frames /\ f.id \in SiteIds /\ Good(f.rootPrevious) /\ f.at = "readRoot"
  BY <1>1, FrameFacts DEF Frames, GoodFrame
<1>3. InProgress(c)  BY <1>1 DEF InProgress
<1>4. OperatorConfigKept' /\ files' \in [Paths -> Anything] /\ temp' \in [Paths -> Anything]
  BY <1>1, FrameFacts DEF IInv, OperatorConfigKept
<1> HIDE DEF f
<1>5. CASE To(c, Returned("err"))
  BY <1>3, <1>4, <1>5, IdleIsGood, FrameStep DEF Returned, Idle
<1>6. CASE To(c, [f EXCEPT !.at = "readConfig"])
  <2>1. [f EXCEPT !.at = "readConfig"] \in Frames  BY <1>2 DEF Frames, Labels
  <2>2. GoodFrame([f EXCEPT !.at = "readConfig"])  BY <1>2 DEF Frames, GoodFrame
  <2>3. [f EXCEPT !.at = "readConfig"].at # "rename"  BY <1>2 DEF Frames
  <2> QED  BY <1>3, <1>4, <1>6, <2>1, <2>2, <2>3, FrameStep
<1>7. CASE To(c, writeAtomically([f EXCEPT !.rootChanged = TRUE], Root,
                    ensureManagedRootImport(files[Root]), "readConfig", "fail"))
  <2> DEFINE g == [f EXCEPT !.rootChanged = TRUE]
  <2>1. g \in Frames /\ g.id \in SiteIds /\ Good(g.rootPrevious)
    BY <1>2 DEF Frames
  <2>2. ensureManagedRootImport(files[Root]) \in Anything
        /\ Good(ensureManagedRootImport(files[Root]))
    BY FrameFacts, EnsureIsGood DEF Anything
  <2>3. "readConfig" \in Continuations /\ "fail" \in Continuations /\ Root \in Paths
    BY DEF Continuations, Paths
  <2> HIDE DEF g
  <2> QED  BY <1>3, <1>4, <1>7, <2>1, <2>2, <2>3, WriteIsGood, FrameStep DEF g
<1> QED  BY <1>5, <1>6, <1>7 DEF ReadRoot, f

\* The same for the steps that leave the files alone.
LEMMA QuietStep ==
    ASSUME IInv, NEW c \in Callers, InProgress(c), NEW f \in Frames, To(c, f),
           GoodFrame(f), f.at # "rename", UNCHANGED <<files, temp>>
    PROVE  IInv'
<1>1. OperatorConfigKept' /\ files' \in [Paths -> Anything] /\ temp' \in [Paths -> Anything]
  BY FrameFacts DEF IInv, OperatorConfigKept
<1> QED  BY <1>1, FrameStep

\* A frame that only moves on to a step that writes nothing.
LEMMA MoveIsGood ==
    ASSUME NEW f \in Frames, f.id \in SiteIds, Good(f.rootPrevious),
           NEW l \in Labels \ {"writeTemp", "rename", "remove"}
    PROVE  /\ [f EXCEPT !.at = l] \in Frames
           /\ GoodFrame([f EXCEPT !.at = l])
           /\ [f EXCEPT !.at = l].at # "rename"
BY DEF Frames, GoodFrame

\* Reading the site file, and what each call does next.
LEMMA ReadConfigStep ==
    ASSUME IInv, NEW c \in Callers, ReadConfig(c)
    PROVE  IInv'
<1> DEFINE f == [call[c] EXCEPT !.previous = files[call[c].id]]
<1>1. call[c].at = "readConfig" /\ UNCHANGED <<files, temp>>  BY DEF ReadConfig
<1>2. /\ f \in Frames /\ f.id \in SiteIds /\ Good(f.rootPrevious)
      /\ f.want \in Anything /\ f.id \in Paths /\ f.id # Root
  BY <1>1, FrameFacts, CaddyAssumption DEF Frames, GoodFrame, Anything
<1>3. InProgress(c)  BY <1>1 DEF InProgress
<1>4. /\ "validate" \in Continuations /\ "undoRoot" \in Continuations
      /\ "glob" \in Continuations /\ "fail" \in Continuations /\ Absent \in Anything
  BY DEF Continuations, Anything
<1> HIDE DEF f
<1>5. CASE To(c, Returned("ok")) \/ To(c, Returned("err"))
  BY <1>1, <1>3, <1>5, IdleIsGood, QuietStep DEF Returned, Idle
<1>6. CASE To(c, UndoRoot(f))
  BY <1>1, <1>2, <1>3, <1>6, UndoIsGood, QuietStep
<1>7. CASE To(c, writeAtomically(f, f.id, f.want, "validate", "undoRoot"))
  BY <1>1, <1>2, <1>3, <1>4, <1>7, WriteIsGood, QuietStep
<1>8. CASE To(c, restoreFile(f, f.id, Absent, "glob", "fail"))
  BY <1>1, <1>2, <1>3, <1>4, <1>8, WriteIsGood, QuietStep
<1> QED  BY <1>5, <1>6, <1>7, <1>8 DEF ReadConfig, f

\* The os.WriteFile of writeAtomically.
LEMMA WriteTempStep ==
    ASSUME IInv, NEW c \in Callers, WriteTemp(c)
    PROVE  IInv'
<1> DEFINE f == call[c]
<1>1. f.at = "writeTemp" /\ UNCHANGED files  BY DEF WriteTemp
<1>2. /\ f \in Frames /\ f.id \in SiteIds /\ Good(f.rootPrevious)
      /\ f.path = Root => Good(f.data)
      /\ f.path \in Paths /\ f.data \in Anything /\ f.err \in Continuations
  BY <1>1, FrameFacts DEF Frames, GoodFrame
<1>3. InProgress(c)  BY <1>1 DEF InProgress
<1>4. OperatorConfigKept' /\ files' \in [Paths -> Anything]
  BY <1>1, FrameFacts DEF IInv, OperatorConfigKept
<1>5. CASE temp' = [temp EXCEPT ![f.path] = f.data] /\ To(c, [f EXCEPT !.at = "rename"])
  <2> DEFINE g == [f EXCEPT !.at = "rename"]
  <2>1. g \in Frames  BY <1>2 DEF Frames, Labels
  <2>2. GoodFrame(g)  BY <1>2 DEF Frames, GoodFrame
  <2>3. g.path = f.path /\ g.data = f.data  BY <1>2 DEF Frames
  <2>4. temp' \in [Paths -> Anything] /\ temp'[g.path] = g.data
    BY <1>2, <1>5, <2>3, FrameFacts
  <2> HIDE DEF g
  <2> QED  BY <1>3, <1>4, <1>5, <2>1, <2>2, <2>4, FrameStep DEF g
<1>6. CASE To(c, Continue(f, f.err))
           /\ (UNCHANGED temp \/ temp' = [temp EXCEPT ![f.path] = Truncated(f.path)])
  <2>1. Truncated(f.path) \in Anything  BY DEF Truncated, Anything, RootFiles
  <2>2. temp' \in [Paths -> Anything]  BY <1>2, <1>6, <2>1, FrameFacts
  <2> QED  BY <1>2, <1>3, <1>4, <1>6, <2>2, ContinueIsGood, FrameStep
<1> QED  BY <1>5, <1>6 DEF WriteTemp

\* The temporary has what this call wrote, so a Caddyfile that is put in place
\* is good.
LEMMA RenameStep ==
    ASSUME IInv, NEW c \in Callers, Rename(c)
    PROVE  IInv'
<1> DEFINE f == call[c]
<1>1. f.at = "rename" /\ temp' = [temp EXCEPT ![f.path] = Absent]  BY DEF Rename
<1>2. /\ f \in Frames /\ f.id \in SiteIds /\ Good(f.rootPrevious)
      /\ f.path = Root => Good(f.data)
      /\ f.path \in Paths /\ f.ok \in Continuations /\ f.err \in Continuations
  BY <1>1, FrameFacts DEF Frames, GoodFrame
<1>3. InProgress(c)  BY <1>1 DEF InProgress
<1>4. temp[f.path] = f.data  BY <1>1 DEF IInv, OwnTemporary
<1>5. temp' \in [Paths -> Anything]
  BY <1>1, FrameFacts DEF Anything
<1>6. files' \in [Paths -> Anything] /\ OperatorConfigKept'
  <2>1. CASE UNCHANGED files
    BY <2>1, FrameFacts DEF IInv, OperatorConfigKept
  <2>2. CASE files' = [files EXCEPT ![f.path] = temp[f.path]]
    <3>1. files' \in [Paths -> Anything]  BY <1>2, <2>2, FrameFacts
    <3>2. Good(files'[Root])
      BY <1>2, <1>4, <2>2, FrameFacts
    <3> QED  BY <3>1, <3>2 DEF Good, OperatorConfigKept
  <2> QED  BY <2>1, <2>2 DEF Rename
<1>7. To(c, Continue(f, f.ok)) \/ To(c, Continue(f, f.err))  BY DEF Rename
<1> HIDE DEF f
<1> QED  BY <1>2, <1>3, <1>5, <1>6, <1>7, ContinueIsGood, FrameStep

\* The os.Remove of restoreFile and RemoveSite.
LEMMA RemoveStep ==
    ASSUME IInv, NEW c \in Callers, Remove(c)
    PROVE  IInv'
<1> DEFINE f == call[c]
<1>1. f.at = "remove" /\ UNCHANGED temp  BY DEF Remove
<1>2. /\ f \in Frames /\ f.id \in SiteIds /\ Good(f.rootPrevious)
      /\ f.path = Root => Good(f.data)
      /\ f.data = Absent
      /\ f.path \in Paths /\ f.ok \in Continuations /\ f.err \in Continuations
  BY <1>1, FrameFacts DEF Frames, GoodFrame
<1>3. InProgress(c)  BY <1>1 DEF InProgress
<1>4. files' \in [Paths -> Anything] /\ OperatorConfigKept'
  <2>1. CASE UNCHANGED files
    BY <2>1, FrameFacts DEF IInv, OperatorConfigKept
  <2>2. CASE files' = [files EXCEPT ![f.path] = Absent]
    <3>1. files' \in [Paths -> Anything]  BY <1>2, <2>2, FrameFacts DEF Anything
    <3>2. Good(files'[Root])  BY <1>2, <2>2, FrameFacts
    <3> QED  BY <3>1, <3>2 DEF Good, OperatorConfigKept
  <2> QED  BY <2>1, <2>2 DEF Remove
<1>5. temp' \in [Paths -> Anything]  BY <1>1, FrameFacts
<1>6. To(c, Continue(f, f.ok)) \/ To(c, Continue(f, f.err))  BY DEF Remove
<1> HIDE DEF f
<1> QED  BY <1>2, <1>3, <1>4, <1>5, <1>6, ContinueIsGood, FrameStep

\* Planning to drop the import after the last site (RemoveSite).
LEMMA GlobStep ==
    ASSUME IInv, NEW c \in Callers, Glob(c)
    PROVE  IInv'
<1> DEFINE f == call[c]
<1>1. f.at = "glob" /\ UNCHANGED <<files, temp>>  BY DEF Glob
<1>2. f \in Frames /\ f.id \in SiteIds /\ Good(f.rootPrevious)
  BY <1>1, FrameFacts DEF GoodFrame
<1>3. InProgress(c)  BY <1>1 DEF InProgress
<1>4. CASE To(c, [f EXCEPT !.at = "validate"])
  <2>1. "validate" \in Labels \ {"writeTemp", "rename", "remove"}  BY DEF Labels
  <2> QED  BY <1>1, <1>2, <1>3, <1>4, <2>1, MoveIsGood, QuietStep
<1>5. CASE /\ HasImport(f.rootPrevious)
           /\ To(c, restoreFile([f EXCEPT !.rootChanged = TRUE], Root,
                      removeManagedRootImport(f.rootPrevious), "validate", "putBack"))
  <2> DEFINE g == [f EXCEPT !.rootChanged = TRUE]
             d == removeManagedRootImport(f.rootPrevious)
  <2>1. g \in Frames /\ g.id \in SiteIds /\ Good(g.rootPrevious)  BY <1>2 DEF Frames
  <2>2. d \in Anything /\ Good(d)  BY <1>2, <1>5, RemoveIsGood DEF Anything
  <2>3. "validate" \in Continuations /\ "putBack" \in Continuations /\ Root \in Paths
    BY DEF Continuations, Paths
  <2>4. To(c, restoreFile(g, Root, d, "validate", "putBack"))  BY <1>5
  <2> HIDE DEF g, d
  <2> QED  BY <1>1, <1>3, <2>1, <2>2, <2>3, <2>4, WriteIsGood, QuietStep
<1> QED  BY <1>4, <1>5 DEF Glob

\* The commands: none of them touches a file.
LEMMA CommandStep ==
    ASSUME IInv, NEW c \in Callers, Validate(c) \/ Reload(c) \/ UndoReload(c)
    PROVE  IInv'
<1> DEFINE f == call[c]
           g == [f EXCEPT !.reloadAgain = TRUE]
<1>1. f.at \in {"validate", "reload", "undoReload"} /\ UNCHANGED <<files, temp>>
  BY DEF Validate, Reload, UndoReload
<1>2. f \in Frames /\ f.id \in SiteIds /\ Good(f.rootPrevious)
  BY <1>1, FrameFacts DEF GoodFrame
<1>3. g \in Frames /\ g.id \in SiteIds /\ Good(g.rootPrevious)  BY <1>2 DEF Frames
<1>4. InProgress(c)  BY <1>1 DEF InProgress
<1>5. \/ To(c, [f EXCEPT !.at = "reload"]) \/ To(c, UndoConfig(f)) \/ To(c, UndoConfig(g))
      \/ To(c, Returned("ok")) \/ To(c, Returned("err"))
  BY DEF Validate, Reload, UndoReload
<1>6. "reload" \in Labels \ {"writeTemp", "rename", "remove"}  BY DEF Labels
<1> HIDE DEF f, g
<1>7. CASE To(c, [f EXCEPT !.at = "reload"])
  BY <1>1, <1>2, <1>4, <1>6, <1>7, MoveIsGood, QuietStep
<1>8. CASE To(c, UndoConfig(f)) \/ To(c, UndoConfig(g))
  BY <1>1, <1>2, <1>3, <1>4, <1>8, UndoIsGood, QuietStep
<1>9. CASE To(c, Returned("ok")) \/ To(c, Returned("err"))
  BY <1>1, <1>4, <1>9, IdleIsGood, QuietStep DEF Returned, Idle
<1> QED  BY <1>5, <1>7, <1>8, <1>9

\* A call begins when no other is in progress, or its answer is taken.
LEMMA CallStep ==
    ASSUME IInv, NEW c \in Callers, Call(c)
    PROVE  IInv'
<1>1. UNCHANGED <<files, temp>> /\ call \in [Callers -> Frames] /\ GoodFrames
  BY DEF Call, IInv, Types
<1>2. PICK f \in Frames : /\ To(c, f) /\ GoodFrame(f) /\ f.at # "rename"
                          /\ \/ f.at = "idle"
                             \/ \A d \in Callers : ~InProgress(d)
  <2>1. CASE \E i \in SiteIds, w \in Configs : ActivateSite(c, i, w)
             /\ \A d \in Callers : ~InProgress(d)
    <3>1. PICK i \in SiteIds, w \in Configs : ActivateSite(c, i, w)  BY <2>1
    <3> DEFINE f == [Idle EXCEPT !.at = "readRoot", !.op = "activate", !.id = i, !.want = w]
    <3>2. f \in Frames /\ f.at = "readRoot" /\ f.id = i
      BY <3>1 DEF Idle, Frames, Anything, Paths, Continuations, Labels
    <3>3. GoodFrame(f)  BY <3>2 DEF GoodFrame
    <3> QED  BY <2>1, <3>1, <3>2, <3>3 DEF ActivateSite
  <2>2. CASE \E i \in SiteIds : RemoveSite(c, i)
             /\ \A d \in Callers : ~InProgress(d)
    <3>1. PICK i \in SiteIds : RemoveSite(c, i)  BY <2>2
    <3> DEFINE f == [Idle EXCEPT !.at = "readRoot", !.op = "remove", !.id = i]
    <3>2. f \in Frames /\ f.at = "readRoot" /\ f.id = i
      BY <3>1 DEF Idle, Frames, Anything, Paths, Continuations, Labels
    <3>3. GoodFrame(f)  BY <3>2 DEF GoodFrame
    <3> QED  BY <2>2, <3>1, <3>2, <3>3 DEF RemoveSite
  <2>3. CASE Collect(c)
    BY <2>3, IdleIsGood DEF Collect, Idle
  <2> QED  BY <2>1, <2>2, <2>3 DEF Call
<1>3. call' = [call EXCEPT ![c] = f]  BY <1>2 DEF To
<1>4. call'[c] = f /\ \A d \in Callers : d # c => call'[d] = call[d]  BY <1>1, <1>3
<1>5. Types'  BY <1>1, <1>3 DEF IInv, Types
<1>6. GoodFrames'
  <2>1. \A d \in Callers : GoodFrame(call'[d])  BY <1>1, <1>2, <1>4 DEF GoodFrames
  <2> QED  BY <2>1 DEF GoodFrames, GoodFrame, Good, OperatorPart
<1>7. OneAtATime'  BY <1>2, <1>4 DEF IInv, OneAtATime, InProgress
<1>8. OwnTemporary'  BY <1>1, <1>2, <1>4 DEF IInv, OwnTemporary
<1>9. OperatorConfigKept'  BY <1>1 DEF IInv, OperatorConfigKept
<1> QED  BY <1>5, <1>6, <1>7, <1>8, <1>9 DEF IInv

\* The daemon dies.
LEMMA CrashStep ==
    ASSUME IInv, Crash
    PROVE  IInv'
<1>1. call' = [c \in Callers |-> Idle] /\ UNCHANGED files  BY DEF Crash
<1>2. temp' \in [Paths -> Anything]
  <2>1. \A p \in Paths : Truncated(p) \in Anything  BY DEF Truncated, Anything, RootFiles
  <2>2. temp \in [Paths -> Anything] /\ \A c \in Callers : call[c].path \in Paths
    BY FrameFacts DEF IInv, Types, Frames
  <2> QED  BY <2>1, <2>2 DEF Crash
<1>3. Types'  BY <1>1, <1>2, IdleIsGood DEF IInv, Types
<1>4. \A c \in Callers : call'[c] = Idle  BY <1>1
<1>5. GoodFrames'
  <2>1. \A c \in Callers : GoodFrame(call'[c])  BY <1>4, IdleIsGood
  <2> QED  BY <2>1 DEF GoodFrames, GoodFrame, Good, OperatorPart
<1>6. OneAtATime' /\ OwnTemporary'
  BY <1>4 DEF OneAtATime, OwnTemporary, InProgress, Idle
<1>7. OperatorConfigKept'  BY <1>1 DEF IInv, OperatorConfigKept
<1> QED  BY <1>3, <1>5, <1>6, <1>7 DEF IInv

\* Steps that change neither the files nor the frames.
LEMMA Stuttering ==
    ASSUME IInv, UNCHANGED <<files, temp, call>>
    PROVE  IInv'
BY DEF IInv, Types, GoodFrames, GoodFrame, Good, OperatorPart, OneAtATime, OwnTemporary,
       InProgress, OperatorConfigKept

\* Every step keeps the invariant.
LEMMA IInvStep == IInv /\ [Next]_vars => IInv'
<1> SUFFICES ASSUME IInv, [Next]_vars PROVE IInv'  OBVIOUS
<1>1. CASE UNCHANGED vars
  BY <1>1, Stuttering DEF vars
<1>2. CASE Crash
  BY <1>2, CrashStep
<1>3. ASSUME NEW c \in Callers, Call(c) \/ Step(c) \/ Disconnect(c)
      PROVE  IInv'
  <2>1. CASE Call(c)  BY <2>1, CallStep
  <2>2. CASE Disconnect(c)  BY <2>2, Stuttering DEF Disconnect
  <2>3. CASE ReadRoot(c)  BY <2>3, ReadRootStep
  <2>4. CASE ReadConfig(c)  BY <2>4, ReadConfigStep
  <2>5. CASE WriteTemp(c)  BY <2>5, WriteTempStep
  <2>6. CASE Rename(c)  BY <2>6, RenameStep
  <2>7. CASE Remove(c)  BY <2>7, RemoveStep
  <2>8. CASE Glob(c)  BY <2>8, GlobStep
  <2>9. CASE Validate(c) \/ Reload(c) \/ UndoReload(c)  BY <2>9, CommandStep
  <2> QED  BY <1>3, <2>1, <2>2, <2>3, <2>4, <2>5, <2>6, <2>7, <2>8, <2>9 DEF Step
<1> QED  BY <1>1, <1>2, <1>3 DEF Next, Serve

-----------------------------------------------------------------------------
\* The operator's blocks of the Caddyfile are never lost, by calls made one at
\* a time, whatever fails, is cancelled, or is cut short by the daemon's death
\* (ActivateSite, RemoveSite, restoreFile and writeAtomically of manager.go).
THEOREM OperatorConfigAlwaysKept == Spec => []OperatorConfigKept
<1>1. IInv => OperatorConfigKept  BY DEF IInv
<1> QED  BY <1>1, InitIInv, IInvStep, PTL DEF Spec

\* What is renamed is what was written: with calls one at a time no call puts
\* another's temporary, or a truncated one, in the place of a file.
THEOREM RenamesOwnTemporary == Spec => []OwnTemporary
<1>1. IInv => OwnTemporary  BY DEF IInv
<1> QED  BY <1>1, InitIInv, IInvStep, PTL DEF Spec

-----------------------------------------------------------------------------
(* A call that fails puts the files back.  That the files are as they were  *)
(* found when the call returns is not inductive: a call that is half done   *)
(* has changed some of them, and what it does next must undo just that.     *)
(* Stands says, for each stage of a call, which files differ from the ones  *)
(* that were found, b, and that the frame remembers those.                  *)

Same(fs, b, S) == \A p \in Paths \ S : fs[p] = b[p]
RootDirt(f) == IF f.rootChanged THEN {Root} ELSE {}

\* The writes of a call: the import and the site file of an activation, the
\* site file and the import of a removal, and what takes each of them back.
AddImport(f) ==
    /\ f.ok = "readConfig" /\ f.err = "fail" /\ f.path = Root /\ f.rootChanged
    /\ f.op = "activate" /\ f.want # Absent
PutConfig(f) == f.ok = "validate" /\ f.err = "undoRoot" /\ f.path = f.id
DropConfig(f) == f.ok = "glob" /\ f.err = "fail" /\ f.path = f.id /\ ~f.rootChanged
DropImport(f) == f.ok = "validate" /\ f.err = "putBack" /\ f.path = Root /\ f.rootChanged
PutBack(f) == f.ok = "fail" /\ f.err = "fail" /\ f.path = f.id
BackConfig(f) == f.ok = "undoRoot" /\ f.err = "undoRoot" /\ f.path = f.id
BackRoot(f) == f.ok = "undone" /\ f.err = "undone" /\ f.path = Root /\ f.rootChanged

\* A write that goes on with the call, and one that takes something back.
Forward(f, fs, b) ==
    /\ ~f.reloadAgain
    /\ \/ AddImport(f) /\ Same(fs, b, {})
       \/ PutConfig(f) /\ f.previous = b[f.id] /\ Same(fs, b, RootDirt(f))
       \/ DropConfig(f) /\ f.previous = b[f.id] /\ f.data = Absent /\ Same(fs, b, {})
       \/ DropImport(f) /\ f.previous = b[f.id] /\ Same(fs, b, {f.id})
Back(f, fs, b) ==
    \/ /\ PutBack(f) /\ f.data = b[f.id] /\ ~f.reloadAgain
       /\ Same(fs, b, {f.id})
    \/ /\ BackConfig(f) /\ f.data = b[f.id]
       /\ Same(fs, b, {f.id} \cup RootDirt(f))
    \/ BackRoot(f) /\ f.data = b[Root] /\ Same(fs, b, {Root})

Writes == {"writeTemp", "rename", "remove"}

Stands(f, fs, b) ==
    /\ f.at \notin {"readRoot", "returned"} => f.rootPrevious = b[Root]
    /\ f.at \in {"readRoot", "readConfig"} /\ f.op = "activate" => f.want # Absent
    /\ f.at = "readRoot" => ~f.rootChanged /\ ~f.reloadAgain /\ Same(fs, b, {})
    /\ f.at = "readConfig" =>
          /\ ~f.reloadAgain /\ (f.rootChanged => f.op = "activate")
          /\ Same(fs, b, RootDirt(f))
    /\ f.at = "glob" =>
          /\ ~f.reloadAgain /\ ~f.rootChanged /\ f.previous = b[f.id]
          /\ Same(fs, b, {f.id})
    /\ f.at \in {"validate", "reload"} =>
          /\ ~f.reloadAgain /\ f.previous = b[f.id]
          /\ Same(fs, b, {f.id} \cup RootDirt(f))
    /\ f.at \in Writes => Forward(f, fs, b) \/ Back(f, fs, b)
    /\ f.at \in {"writeTemp", "rename"} => f.data # Absent
    /\ f.at = "undoReload" => f.reloadAgain /\ Same(fs, b, {})
    /\ f.at = "returned" /\ f.result = "err" => Same(fs, b, {})

\* The last call stands where its frame says, and, if Caddy served what was
\* found, it does so until a reload, and again when the call has returned.
CallStands ==
    /\ before.files \in [Paths -> Anything]
    /\ before.inSync => Adapts(before.files)
    /\ \A c \in Callers : InProgress(c) => before.by = c
    /\ \A c \in Callers : before.by = c /\ call[c].at # "idle" =>
          Stands(call[c], files, before.files)
    /\ \A c \in Callers : before.by = c /\ InProgress(c) /\ before.inSync =>
          (~call[c].reloadAgain => live = Served(before.files))
    /\ \A c \in Callers : Answered(c) /\ before.inSync =>
          (c \notin cancelled => live = Served(files))

\* The condition: nothing fails while a call takes something back, and no chmod
\* fails with the file already in place.
UndosWork == "undo" \notin FaultKinds /\ "chmod" \notin FaultKinds

LEMMA SameIsEqual ==
    ASSUME NEW fs \in [Paths -> Anything], NEW b \in [Paths -> Anything], Same(fs, b, {})
    PROVE  fs = b
BY DEF Same

\* Taking back what a call did, from where it stands.
LEMMA UndoneStands ==
    ASSUME NEW f \in Frames, NEW fs, NEW b, f.rootPrevious = b[Root], Same(fs, b, {})
    PROVE  /\ Stands(Undone(f), fs, b)
           /\ Undone(f).at = "returned" => ~f.reloadAgain
           /\ Undone(f).at # "returned" => Undone(f).reloadAgain = f.reloadAgain
<1>1. CASE f.reloadAgain
  BY <1>1 DEF Undone, Stands, Frames, Writes
<1>2. CASE ~f.reloadAgain
  BY <1>2 DEF Undone, Stands, Returned, Idle, Writes
<1> QED BY <1>1, <1>2

LEMMA UndoRootStands ==
    ASSUME NEW f \in Frames, f.id \in SiteIds, NEW fs, NEW b, f.rootPrevious = b[Root],
           Same(fs, b, RootDirt(f))
    PROVE  /\ Stands(UndoRoot(f), fs, b)
           /\ UndoRoot(f).at = "returned" => ~f.reloadAgain
           /\ UndoRoot(f).at # "returned" => UndoRoot(f).reloadAgain = f.reloadAgain
<1>1. CASE f.rootChanged
  <2>1. UndoRoot(f) = restoreFile(f, Root, f.rootPrevious, "undone", "undone")
    BY <1>1 DEF UndoRoot
  <2> DEFINE g == UndoRoot(f)
  <2>2. /\ g.at = IF b[Root] = Absent THEN "remove" ELSE "writeTemp"
        /\ g.path = Root /\ g.data = b[Root] /\ g.ok = "undone" /\ g.err = "undone"
        /\ g.rootChanged /\ g.rootPrevious = b[Root] /\ g.reloadAgain = f.reloadAgain
    BY <1>1, <2>1 DEF restoreFile, Frames
  <2>3. Same(fs, b, {Root})
    BY <1>1 DEF RootDirt
  <2> HIDE DEF g
  <2>4. Back(g, fs, b)
    BY <2>2, <2>3 DEF Back, BackRoot
  <2>5. Stands(g, fs, b) /\ g.at # "returned"
    BY <2>2, <2>4 DEF Stands, Writes
  <2> QED BY <2>2, <2>5 DEF g
<1>2. CASE ~f.rootChanged
  BY <1>2, UndoneStands DEF UndoRoot, RootDirt
<1> QED BY <1>1, <1>2

\* Putting the site file back, before the Caddyfile (next is "undoRoot") or
\* after it could not be changed ("fail").
LEMMA ConfigBackStands ==
    ASSUME NEW f \in Frames, f.id \in SiteIds, NEW fs, NEW b,
           f.rootPrevious = b[Root], f.previous = b[f.id],
           NEW l \in {"undoRoot", "fail"},
           l = "undoRoot" => Same(fs, b, {f.id} \cup RootDirt(f)),
           l = "fail" => Same(fs, b, {f.id}) /\ ~f.reloadAgain
    PROVE  LET g == restoreFile(f, f.id, f.previous, l, l)
           IN  /\ Stands(g, fs, b)
               /\ g.at # "returned" /\ g.reloadAgain = f.reloadAgain
<1> DEFINE g == restoreFile(f, f.id, f.previous, l, l)
<1>1. /\ g.at = IF b[f.id] = Absent THEN "remove" ELSE "writeTemp"
      /\ g.path = f.id /\ g.id = f.id /\ g.data = b[f.id] /\ g.ok = l /\ g.err = l
      /\ g.rootChanged = f.rootChanged /\ g.rootPrevious = b[Root]
      /\ g.previous = b[f.id] /\ g.reloadAgain = f.reloadAgain
  BY DEF restoreFile, Frames
<1>2. RootDirt(g) = RootDirt(f)
  BY <1>1 DEF RootDirt
<1> HIDE DEF g
<1>3. Back(g, fs, b)
  BY <1>1, <1>2 DEF Back, BackConfig, PutBack
<1>4. Stands(g, fs, b)
  BY <1>1, <1>3 DEF Stands, Writes
<1> QED BY <1>1, <1>4 DEF g

\* A write that is done, fs being the files after it.
LEMMA DoneStands ==
    ASSUME NEW f \in Frames, f.id \in SiteIds, f.at \in Writes,
           NEW fs \in [Paths -> Anything], NEW b, Stands(f, fs, b),
           NEW new, new = [fs EXCEPT ![f.path] = f.data]
    PROVE  /\ Stands(Continue(f, f.ok), new, b)
           /\ Continue(f, f.ok).at = "returned" => ~f.reloadAgain
           /\ Continue(f, f.ok).at # "returned" => Continue(f, f.ok).reloadAgain = f.reloadAgain
<1>1. f.rootPrevious = b[Root] /\ (Forward(f, fs, b) \/ Back(f, fs, b))
  BY DEF Stands, Writes
<1>2. f.id # Root /\ f.id \in Paths /\ Root \in Paths /\ f.path \in Paths
  BY CaddyAssumption DEF Paths, Frames
<1>3. \A p \in Paths : new[p] = IF p = f.path THEN f.data ELSE fs[p]
  BY <1>2
<1>4. CASE AddImport(f) /\ Same(fs, b, {}) /\ ~f.reloadAgain
  <2>1. Continue(f, f.ok) = [f EXCEPT !.at = "readConfig"]
    BY <1>4 DEF Continue, AddImport
  <2>2. Same(new, b, RootDirt(f)) /\ RootDirt([f EXCEPT !.at = "readConfig"]) = RootDirt(f)
    BY <1>3, <1>4 DEF Same, AddImport, RootDirt, Frames
  <2> QED BY <1>1, <1>4, <2>1, <2>2 DEF Stands, Frames, Writes, AddImport
<1>5. CASE (PutConfig(f) /\ f.previous = b[f.id] /\ Same(fs, b, RootDirt(f)) /\ ~f.reloadAgain)
           \/ (DropImport(f) /\ f.previous = b[f.id] /\ Same(fs, b, {f.id}) /\ ~f.reloadAgain)
  <2>1. Continue(f, f.ok) = [f EXCEPT !.at = "validate"]
    BY <1>5 DEF Continue, PutConfig, DropImport
  <2>2. /\ Same(new, b, {f.id} \cup RootDirt(f))
        /\ RootDirt([f EXCEPT !.at = "validate"]) = RootDirt(f)
    BY <1>3, <1>5 DEF Same, PutConfig, DropImport, RootDirt, Frames
  <2> QED BY <1>1, <1>5, <2>1, <2>2 DEF Stands, Frames, Writes
<1>6. CASE DropConfig(f) /\ f.previous = b[f.id] /\ Same(fs, b, {}) /\ ~f.reloadAgain
  <2>1. Continue(f, f.ok) = [f EXCEPT !.at = "glob"]
    BY <1>6 DEF Continue, DropConfig
  <2>2. Same(new, b, {f.id})
    BY <1>3, <1>6 DEF Same, DropConfig
  <2> QED BY <1>1, <1>6, <2>1, <2>2 DEF Stands, Frames, Writes, DropConfig
<1>7. CASE PutBack(f) /\ f.data = b[f.id] /\ ~f.reloadAgain /\ Same(fs, b, {f.id})
  <2>1. Continue(f, f.ok) = Returned("err")
    BY <1>7 DEF Continue, PutBack
  <2>2. Same(new, b, {})
    BY <1>3, <1>7 DEF Same, PutBack
  <2> QED BY <1>7, <2>1, <2>2 DEF Stands, Returned, Idle, Writes
<1>8. CASE BackConfig(f) /\ f.data = b[f.id] /\ Same(fs, b, {f.id} \cup RootDirt(f))
  <2>1. Continue(f, f.ok) = UndoRoot(f)
    BY <1>8 DEF Continue, BackConfig
  <2>2. Same(new, b, RootDirt(f))
    BY <1>3, <1>8 DEF Same, BackConfig
  <2> QED BY <1>1, <2>1, <2>2, UndoRootStands
<1>9. CASE BackRoot(f) /\ f.data = b[Root] /\ Same(fs, b, {Root})
  <2>1. Continue(f, f.ok) = Undone(f)
    BY <1>9 DEF Continue, BackRoot
  <2>2. Same(new, b, {})
    BY <1>3, <1>9 DEF Same, BackRoot
  <2> QED BY <1>1, <2>1, <2>2, UndoneStands
<1> QED BY <1>1, <1>4, <1>5, <1>6, <1>7, <1>8, <1>9 DEF Forward, Back

\* A write that fails and changes no file.
LEMMA FailedStands ==
    ASSUME NEW f \in Frames, f.id \in SiteIds, NEW fs, NEW b,
           f.rootPrevious = b[Root], Forward(f, fs, b)
    PROVE  /\ Stands(Continue(f, f.err), fs, b)
           /\ Continue(f, f.err).at = "returned" => ~f.reloadAgain
           /\ Continue(f, f.err).at # "returned" => Continue(f, f.err).reloadAgain = f.reloadAgain
<1>1. ~f.reloadAgain
  BY DEF Forward
<1>2. CASE (AddImport(f) \/ DropConfig(f)) /\ Same(fs, b, {})
  <2>1. Continue(f, f.err) = Returned("err")
    BY <1>2 DEF Continue, AddImport, DropConfig
  <2> QED BY <1>1, <1>2, <2>1 DEF Stands, Returned, Idle, Writes
<1>3. CASE PutConfig(f) /\ Same(fs, b, RootDirt(f))
  <2>1. Continue(f, f.err) = UndoRoot(f)
    BY <1>3 DEF Continue, PutConfig
  <2> QED BY <1>3, <2>1, UndoRootStands
<1>4. CASE DropImport(f) /\ f.previous = b[f.id] /\ Same(fs, b, {f.id})
  <2>1. Continue(f, f.err) = restoreFile(f, f.id, f.previous, "fail", "fail")
    BY <1>4 DEF Continue, DropImport
  <2> QED BY <1>1, <1>4, <2>1, ConfigBackStands
<1> QED BY <1>2, <1>3, <1>4 DEF Forward

-----------------------------------------------------------------------------
(* The steps of a call.                                                     *)

\* What CallStands says of the call in progress.
LEMMA StandsFacts ==
    ASSUME IInv, CallStands, NEW c \in Callers, InProgress(c)
    PROVE  /\ call[c] \in Frames /\ call[c].id \in SiteIds /\ before.by = c
           /\ Stands(call[c], files, before.files)
           /\ files \in [Paths -> Anything] /\ before.files \in [Paths -> Anything]
           /\ before.inSync /\ ~call[c].reloadAgain => live = Served(before.files)
BY FrameFacts DEF CallStands, InProgress, GoodFrame

\* A step of the call in progress that ends in a frame that stands.
LEMMA StandingStep ==
    ASSUME IInv, CallStands, NEW c \in Callers, InProgress(c), UNCHANGED before,
           NEW g \in Frames, To(c, g), g.at # "idle",
           files' \in [Paths -> Anything], Stands(g, files', before.files),
           g.at # "returned" /\ before.inSync /\ ~g.reloadAgain => live' = Served(before.files),
           g.at = "returned" /\ before.inSync /\ c \notin cancelled' => live' = Served(files')
    PROVE  CallStands'
<1>1. call' = [call EXCEPT ![c] = g] /\ call \in [Callers -> Frames]
  BY DEF To, IInv, Types
<1>2. call'[c] = g /\ \A d \in Callers : d # c => call'[d] = call[d]
  BY <1>1
<1>3. before.by = c /\ before'.by = c
  BY DEF CallStands
<1>4. \A d \in Callers : d # c => ~InProgress(d) /\ ~InProgress(d)'
  BY <1>2 DEF IInv, OneAtATime, InProgress
<1>5. /\ before'.files \in [Paths -> Anything]
      /\ before'.inSync => Adapts(before'.files)
  BY DEF CallStands
<1>6. Stands(call'[c], files', before'.files)
  BY <1>2
<1>7. \A d \in Callers : before'.by = d => d = c
  BY <1>3
<1>8. /\ InProgress(c)' /\ before'.inSync =>
            (~call'[c].reloadAgain => live' = Served(before'.files))
      /\ Answered(c)' /\ before'.inSync =>
            (c \notin cancelled' => live' = Served(files'))
  BY <1>2 DEF InProgress, Answered
<1> QED BY <1>3, <1>4, <1>5, <1>6, <1>7, <1>8 DEF CallStands, Answered

\* The end of a call that returns without a reload, with the files as found.
LEMMA ReturnStands ==
    ASSUME IInv, CallStands, NEW c \in Callers, InProgress(c), UNCHANGED <<before, live, files>>,
           NEW res \in {"ok", "err"}, To(c, Returned(res)),
           ~call[c].reloadAgain, Same(files, before.files, {})
    PROVE  CallStands'
<1>1. Returned(res) \in Frames /\ Returned(res).at = "returned"
  BY IdleIsGood DEF Returned, Idle
<1>2. Stands(Returned(res), files', before.files)
  BY DEF Stands, Returned, Idle, Writes
<1>3. files = before.files /\ (before.inSync => live = Served(before.files))
  BY StandsFacts, SameIsEqual
<1> HIDE DEF Returned
<1> QED BY <1>1, <1>2, <1>3, StandsFacts, StandingStep

\* ReadRoot: nothing has changed yet.
LEMMA ReadRootStands ==
    ASSUME IInv, CallStands, NEW c \in Callers, ReadRoot(c), UNCHANGED before
    PROVE  CallStands'
<1> DEFINE f == [call[c] EXCEPT !.rootPrevious = files[Root]]
           b == before.files
<1>1. call[c].at = "readRoot" /\ UNCHANGED <<files, live>>
  BY DEF ReadRoot
<1>2. InProgress(c)
  BY <1>1 DEF InProgress
<1>3. /\ Same(files, b, {}) /\ ~call[c].rootChanged /\ ~call[c].reloadAgain
      /\ call[c].op = "activate" => call[c].want # Absent
  BY <1>1, <1>2, StandsFacts DEF Stands
<1>4. /\ f \in Frames /\ f.id \in SiteIds /\ f.rootPrevious = b[Root]
      /\ ~f.rootChanged /\ ~f.reloadAgain /\ files = b
      /\ f.op = "activate" => f.want # Absent
  BY <1>2, <1>3, StandsFacts, FrameFacts, SameIsEqual DEF Frames
<1> HIDE DEF f
<1>5. CASE To(c, Returned("err"))
  BY <1>1, <1>2, <1>3, <1>5, ReturnStands
<1>6. CASE To(c, [f EXCEPT !.at = "readConfig"])
  <2> DEFINE g == [f EXCEPT !.at = "readConfig"]
  <2>1. /\ g \in Frames /\ g.at = "readConfig" /\ ~g.reloadAgain /\ g.rootPrevious = b[Root]
        /\ ~g.rootChanged /\ (g.op = "activate" => g.want # Absent)
    BY <1>4 DEF Frames, Labels
  <2>2. Stands(g, files', b)
    BY <1>1, <1>3, <2>1 DEF Stands, Same, Writes
  <2> HIDE DEF g
  <2> QED BY <1>1, <1>2, <1>3, <1>6, <2>1, <2>2, StandsFacts, StandingStep DEF g
<1>7. CASE /\ f.op = "activate"
           /\ To(c, writeAtomically([f EXCEPT !.rootChanged = TRUE], Root,
                      ensureManagedRootImport(files[Root]), "readConfig", "fail"))
  <2> DEFINE d == ensureManagedRootImport(files[Root])
             h == [f EXCEPT !.rootChanged = TRUE]
             g == writeAtomically(h, Root, d, "readConfig", "fail")
  <2>1. d \in Anything /\ d # Absent
    BY FrameFacts, EnsureIsGood, CaddyAssumption DEF Anything
  <2> HIDE DEF d
  <2>2. /\ h \in Frames /\ h.rootChanged /\ ~h.reloadAgain /\ h.rootPrevious = b[Root]
        /\ h.op = "activate" /\ h.want # Absent
    BY <1>4, <1>7 DEF Frames
  <2> HIDE DEF h
  <2>3. /\ g.at = "writeTemp" /\ g.ok = "readConfig" /\ g.err = "fail" /\ g.path = Root
        /\ g.data = d /\ g.rootChanged /\ ~g.reloadAgain /\ g.rootPrevious = b[Root]
        /\ g.op = "activate" /\ g.want # Absent
    BY <2>2 DEF writeAtomically, Frames
  <2>4. g \in Frames
    BY <2>1, <2>2 DEF writeAtomically, Frames, Paths, Continuations, Labels
  <2> HIDE DEF g
  <2>5. Stands(g, files', b)
    BY <1>1, <1>3, <2>1, <2>3 DEF Stands, Forward, AddImport, Writes
  <2>6. To(c, g)
    BY <1>7 DEF g, h, d
  <2> QED BY <1>1, <1>2, <1>3, <2>3, <2>4, <2>5, <2>6, StandsFacts, StandingStep
<1> QED BY <1>5, <1>6, <1>7 DEF ReadRoot, f

\* ReadConfig.
LEMMA ReadConfigStands ==
    ASSUME IInv, CallStands, NEW c \in Callers, ReadConfig(c), UNCHANGED before
    PROVE  CallStands'
<1> DEFINE f == [call[c] EXCEPT !.previous = files[call[c].id]]
           b == before.files
<1>1. call[c].at = "readConfig" /\ UNCHANGED <<files, live>>
  BY DEF ReadConfig
<1>2. InProgress(c)
  BY <1>1 DEF InProgress
<1>3. /\ Same(files, b, RootDirt(call[c])) /\ ~call[c].reloadAgain
      /\ call[c].rootPrevious = b[Root] /\ call[c].id \in Paths /\ call[c].id # Root
      /\ call[c].op = "activate" => call[c].want # Absent
      /\ call[c].rootChanged => call[c].op = "activate"
  BY <1>1, <1>2, StandsFacts, CaddyAssumption DEF Stands, Paths
<1>4. files[call[c].id] = b[call[c].id]
  BY <1>3 DEF Same, RootDirt
<1>5. /\ f \in Frames /\ f.id = call[c].id /\ f.id \in SiteIds /\ f.id \in Paths
      /\ f.rootPrevious = b[Root] /\ f.previous = b[f.id] /\ ~f.reloadAgain
      /\ f.rootChanged = call[c].rootChanged /\ f.op = call[c].op /\ f.want = call[c].want
      /\ f.want \in Anything
  BY <1>2, <1>3, <1>4, StandsFacts, FrameFacts DEF Frames, Anything
<1>6. Same(files, b, RootDirt(f)) /\ (~f.rootChanged => Same(files, b, {}))
  BY <1>3, <1>5 DEF RootDirt
<1> HIDE DEF f
<1>7. CASE f.op # "activate" /\ \E res \in {"ok", "err"} : To(c, Returned(res))
  BY <1>1, <1>2, <1>3, <1>5, <1>6, <1>7, ReturnStands
<1>8. CASE To(c, UndoRoot(f))
  <2>1. UndoRoot(f) \in Frames
    BY <1>1, <1>2, <1>5, FrameFacts, UndoIsGood DEF GoodFrame, Good, f, Frames
  <2>2. /\ Stands(UndoRoot(f), files, b)
        /\ UndoRoot(f).at # "returned" => ~UndoRoot(f).reloadAgain
    BY <1>5, <1>6, UndoRootStands
  <2>3. UndoRoot(f).at = "returned" => ~f.rootChanged
    BY <1>5 DEF UndoRoot, restoreFile, Frames
  <2>4. UndoRoot(f).at # "idle"
    BY <1>5 DEF UndoRoot, Undone, restoreFile, Frames, Returned, Idle
  <2>5. UndoRoot(f).at = "returned" => files = b
    BY <1>2, <1>6, <2>3, StandsFacts, SameIsEqual
  <2> QED BY <1>1, <1>2, <1>3, <1>8, <2>1, <2>2, <2>4, <2>5, StandsFacts, StandingStep
<1>9. CASE f.op = "activate" /\ To(c, writeAtomically(f, f.id, f.want, "validate", "undoRoot"))
  <2> DEFINE g == writeAtomically(f, f.id, f.want, "validate", "undoRoot")
  <2>1. /\ g.at = "writeTemp" /\ g.ok = "validate" /\ g.err = "undoRoot" /\ g.path = g.id
        /\ g.data = f.want /\ ~g.reloadAgain /\ g.rootPrevious = b[Root]
        /\ g.previous = b[g.id] /\ g.rootChanged = f.rootChanged
    BY <1>5 DEF writeAtomically, Frames
  <2>2. g \in Frames
    BY <1>5 DEF writeAtomically, Frames, Continuations, Labels
  <2> HIDE DEF g
  <2>3. Stands(g, files', b)
    BY <1>1, <1>3, <1>5, <1>6, <1>9, <2>1 DEF Stands, Forward, PutConfig, RootDirt, Writes
  <2>4. To(c, g)
    BY <1>9 DEF g
  <2> QED BY <1>1, <1>2, <1>3, <2>1, <2>2, <2>3, <2>4, StandsFacts, StandingStep
<1>10. CASE f.op = "remove" /\ To(c, restoreFile(f, f.id, Absent, "glob", "fail"))
  <2> DEFINE g == restoreFile(f, f.id, Absent, "glob", "fail")
  <2>1. /\ g.at = "remove" /\ g.ok = "glob" /\ g.err = "fail" /\ g.path = g.id
        /\ g.data = Absent /\ ~g.reloadAgain /\ g.rootPrevious = b[Root]
        /\ g.previous = b[g.id] /\ g.rootChanged = f.rootChanged
    BY <1>5 DEF restoreFile, Frames
  <2>2. g \in Frames
    <3>1. Absent \in Anything /\ "glob" \in Continuations /\ "fail" \in Continuations
      BY DEF Anything, Continuations
    <3>2. Good(f.rootPrevious)
      BY <1>1, FrameFacts DEF GoodFrame, f, Frames
    <3> QED BY <1>5, <3>1, <3>2, WriteIsGood, CaddyAssumption
  <2> HIDE DEF g
  <2>3. Stands(g, files', b)
    BY <1>1, <1>3, <1>5, <1>6, <1>10, <2>1 DEF Stands, Forward, DropConfig, Writes
  <2>4. To(c, g)
    BY <1>10 DEF g
  <2> QED BY <1>1, <1>2, <1>3, <2>1, <2>2, <2>3, <2>4, StandsFacts, StandingStep
<1>11. \/ f.op # "activate" /\ (\E res \in {"ok", "err"} : To(c, Returned(res)))
       \/ To(c, UndoRoot(f))
       \/ f.op = "activate" /\ To(c, writeAtomically(f, f.id, f.want, "validate", "undoRoot"))
       \/ f.op = "remove" /\ To(c, restoreFile(f, f.id, Absent, "glob", "fail"))
  BY DEF ReadConfig, f
<1> QED BY <1>7, <1>8, <1>9, <1>10, <1>11

\* With UndosWork a step that takes something back does not fail.
LEMMA UndoNeverFails ==
    ASSUME UndosWork, NEW f, NEW kind, Fails(Kind(f, kind)), NEW fs, NEW b,
           Forward(f, fs, b) \/ Back(f, fs, b)
    PROVE  Forward(f, fs, b) /\ kind # "chmod"
<1>1. f.ok # f.err /\ Kind(f, kind) = kind
  BY DEF Fails, Kind, UndosWork
<1>2. ~Back(f, fs, b)
  BY <1>1 DEF Back, PutBack, BackConfig, BackRoot
<1> QED BY <1>1, <1>2 DEF Fails, UndosWork

\* Continuing after a write, whether it was done or has failed.
LEMMA ContinueStep ==
    ASSUME IInv, CallStands, NEW c \in Callers, InProgress(c), UNCHANGED <<before, live>>,
           call[c].at \in Writes, NEW l \in Continuations, l # "none",
           To(c, Continue(call[c], l)), files' \in [Paths -> Anything],
           Stands(Continue(call[c], l), files', before.files),
           Continue(call[c], l).at = "returned" => ~call[c].reloadAgain,
           Continue(call[c], l).at # "returned" =>
               Continue(call[c], l).reloadAgain = call[c].reloadAgain
    PROVE  CallStands'
<1> DEFINE g == Continue(call[c], l)
<1>1. call[c].id \in SiteIds /\ Good(call[c].rootPrevious) /\ call[c] \in Frames
  BY FrameFacts DEF GoodFrame, Writes
<1>2. g \in Frames
  BY <1>1, ContinueIsGood
<1>3. g.at # "idle" /\ (g.at = "returned" => g.result = "err")
  BY <1>1 DEF Continue, UndoRoot, Undone, restoreFile, Returned, Idle, Frames, Continuations
<1> HIDE DEF g
<1>4. g.at = "returned" => files' = before.files
  <2> SUFFICES ASSUME g.at = "returned" PROVE files' = before.files  OBVIOUS
  <2>1. Same(files', before.files, {})
    BY <1>3 DEF Stands, g
  <2> QED BY <2>1, StandsFacts, SameIsEqual
<1>5. before.inSync /\ ~call[c].reloadAgain => live' = Served(before.files)
  BY StandsFacts
<1> QED BY <1>2, <1>3, <1>4, <1>5, StandingStep DEF g

\* What is known of the frame of a write.
LEMMA WriteFacts ==
    ASSUME IInv, CallStands, NEW c \in Callers, call[c].at \in Writes
    PROVE  /\ InProgress(c) /\ call[c] \in Frames /\ call[c].id \in SiteIds
           /\ call[c].path \in Paths /\ call[c].data \in Anything
           /\ Stands(call[c], files, before.files) /\ call[c].rootPrevious = before.files[Root]
           /\ Forward(call[c], files, before.files) \/ Back(call[c], files, before.files)
           /\ call[c].ok \in Continuations /\ call[c].ok # "none"
           /\ call[c].err \in Continuations /\ call[c].err # "none"
           /\ files \in [Paths -> Anything]
<1>1. InProgress(c)
  BY DEF InProgress, Writes
<1>2. Forward(call[c], files, before.files) \/ Back(call[c], files, before.files)
  BY <1>1, StandsFacts DEF Stands
<1>3. call[c].ok # "none" /\ call[c].err # "none"
  BY <1>2 DEF Forward, Back, AddImport, PutConfig, DropConfig, DropImport, PutBack,
             BackConfig, BackRoot
<1>4. call[c].rootPrevious = before.files[Root]
  BY <1>1, StandsFacts DEF Stands, Writes
<1> QED BY <1>1, <1>2, <1>3, <1>4, StandsFacts DEF Frames

\* A write that fails and changes no file; one that is done.
LEMMA FailedWriteStands ==
    ASSUME UndosWork, IInv, CallStands, NEW c \in Callers, call[c].at \in Writes, NEW kind,
           Fails(Kind(call[c], kind)), UNCHANGED <<before, live, files>>,
           To(c, Continue(call[c], call[c].err))
    PROVE  CallStands'
<1> DEFINE f == call[c]
<1>1. Forward(f, files, before.files)
  BY WriteFacts, UndoNeverFails
<1>2. /\ Stands(Continue(f, f.err), files', before.files)
      /\ Continue(f, f.err).at = "returned" => ~f.reloadAgain
      /\ Continue(f, f.err).at # "returned" => Continue(f, f.err).reloadAgain = f.reloadAgain
  BY <1>1, WriteFacts, FailedStands
<1> QED BY <1>2, WriteFacts, ContinueStep

LEMMA DoneWriteStands ==
    ASSUME IInv, CallStands, NEW c \in Callers, call[c].at \in Writes,
           files' = [files EXCEPT ![call[c].path] = call[c].data],
           UNCHANGED <<before, live>>, To(c, Continue(call[c], call[c].ok))
    PROVE  CallStands'
<1> DEFINE f == call[c]
<1>1. /\ Stands(Continue(f, f.ok), files', before.files)
      /\ Continue(f, f.ok).at = "returned" => ~f.reloadAgain
      /\ Continue(f, f.ok).at # "returned" => Continue(f, f.ok).reloadAgain = f.reloadAgain
  BY WriteFacts, DoneStands
<1>2. files' \in [Paths -> Anything]
  BY WriteFacts
<1> QED BY <1>1, <1>2, WriteFacts, ContinueStep

\* WriteTemp.
LEMMA WriteTempStands ==
    ASSUME UndosWork, IInv, CallStands, NEW c \in Callers, WriteTemp(c), UNCHANGED before
    PROVE  CallStands'
<1> DEFINE f == call[c]
           g == [f EXCEPT !.at = "rename"]
<1>1. f.at = "writeTemp" /\ f.at \in Writes /\ UNCHANGED <<files, live>>
  BY DEF WriteTemp, Writes
<1>2. CASE To(c, g)
  <2>1. /\ g \in Frames /\ g.at = "rename" /\ g.data = f.data /\ g.path = f.path /\ g.id = f.id
        /\ g.ok = f.ok /\ g.err = f.err /\ g.rootChanged = f.rootChanged /\ g.op = f.op
        /\ g.reloadAgain = f.reloadAgain /\ g.previous = f.previous /\ g.want = f.want
        /\ g.rootPrevious = f.rootPrevious
    BY <1>1, WriteFacts DEF Frames, Labels
  <2> HIDE DEF g
  <2>2. Forward(g, files, before.files) \/ Back(g, files, before.files)
    BY <1>1, <2>1, WriteFacts DEF Forward, Back, AddImport, PutConfig, DropConfig, DropImport,
       PutBack, BackConfig, BackRoot, RootDirt
  <2>3. f.data # Absent /\ f.rootPrevious = before.files[Root]
    BY <1>1, WriteFacts DEF Stands
  <2>4. Stands(g, files', before.files)
    BY <1>1, <2>1, <2>2, <2>3 DEF Stands, Writes
  <2> QED BY <1>1, <1>2, <2>1, <2>4, WriteFacts, StandsFacts, StandingStep
<1>3. CASE Fails(Kind(f, "write")) /\ To(c, Continue(f, f.err))
  BY <1>1, <1>3, FailedWriteStands
<1> QED BY <1>2, <1>3 DEF WriteTemp

\* Rename: the temporary is this call's own, so it is there.
LEMMA RenameStands ==
    ASSUME UndosWork, IInv, CallStands, NEW c \in Callers, Rename(c), UNCHANGED before
    PROVE  CallStands'
<1> DEFINE f == call[c]
<1>1. f.at = "rename" /\ f.at \in Writes /\ UNCHANGED live
  BY DEF Rename, Writes
<1>2. temp[f.path] = f.data /\ f.data # Absent
  BY <1>1, WriteFacts DEF IInv, OwnTemporary, Stands
<1>3. ~Fails(Kind(f, "chmod"))
  BY <1>1, WriteFacts, UndoNeverFails
<1>4. CASE files' = [files EXCEPT ![f.path] = f.data] /\ To(c, Continue(f, f.ok))
  BY <1>1, <1>4, DoneWriteStands
<1>5. CASE Fails(Kind(f, "rename")) /\ To(c, Continue(f, f.err)) /\ UNCHANGED files
  BY <1>1, <1>5, FailedWriteStands
<1> QED BY <1>2, <1>3, <1>4, <1>5 DEF Rename

\* Remove.
LEMMA RemoveStands ==
    ASSUME UndosWork, IInv, CallStands, NEW c \in Callers, Remove(c), UNCHANGED before
    PROVE  CallStands'
<1> DEFINE f == call[c]
<1>1. f.at = "remove" /\ f.at \in Writes /\ UNCHANGED live
  BY DEF Remove, Writes
<1>2. f.data = Absent
  BY <1>1, FrameFacts DEF GoodFrame
<1>3. CASE files' = [files EXCEPT ![f.path] = f.data] /\ To(c, Continue(f, f.ok))
  BY <1>1, <1>3, DoneWriteStands
<1>4. CASE Fails(Kind(f, "remove")) /\ To(c, Continue(f, f.err)) /\ UNCHANGED files
  BY <1>1, <1>4, FailedWriteStands
<1> QED BY <1>2, <1>3, <1>4 DEF Remove

\* Glob.
LEMMA GlobStands ==
    ASSUME IInv, CallStands, NEW c \in Callers, Glob(c), UNCHANGED before
    PROVE  CallStands'
<1> DEFINE f == call[c]
           b == before.files
<1>1. f.at = "glob" /\ UNCHANGED <<files, live>>
  BY DEF Glob
<1>2. InProgress(c)
  BY <1>1 DEF InProgress
<1>3. /\ f \in Frames /\ f.rootPrevious = b[Root] /\ ~f.reloadAgain /\ ~f.rootChanged
      /\ f.previous = b[f.id] /\ Same(files, b, {f.id}) /\ Good(f.rootPrevious)
      /\ f.id \in SiteIds
  BY <1>1, <1>2, StandsFacts, FrameFacts DEF Stands, GoodFrame
<1>4. CASE To(c, [f EXCEPT !.at = "validate"])
  <2> DEFINE g == [f EXCEPT !.at = "validate"]
  <2>1. /\ g \in Frames /\ g.at = "validate" /\ g.id = f.id /\ ~g.rootChanged /\ ~g.reloadAgain
        /\ g.previous = f.previous /\ g.rootPrevious = f.rootPrevious
    BY <1>3 DEF Frames, Labels
  <2> HIDE DEF g
  <2>2. Stands(g, files', b)
    BY <1>1, <1>3, <2>1 DEF Stands, Writes, RootDirt
  <2> QED BY <1>1, <1>2, <1>3, <1>4, <2>1, <2>2, StandsFacts, StandingStep DEF g
<1>5. CASE /\ HasImport(f.rootPrevious)
           /\ To(c, restoreFile([f EXCEPT !.rootChanged = TRUE], Root,
                      removeManagedRootImport(f.rootPrevious), "validate", "putBack"))
  <2> DEFINE d == removeManagedRootImport(f.rootPrevious)
             h == [f EXCEPT !.rootChanged = TRUE]
             g == restoreFile(h, Root, d, "validate", "putBack")
  <2>1. d \in Anything /\ Good(d)
    BY <1>3, <1>5, RemoveIsGood DEF Anything
  <2> HIDE DEF d
  <2>2. /\ h \in Frames /\ h.rootChanged /\ ~h.reloadAgain /\ h.rootPrevious = b[Root]
        /\ h.id = f.id /\ h.previous = f.previous
    BY <1>3 DEF Frames
  <2> HIDE DEF h
  <2>3. /\ g.at = IF d = Absent THEN "remove" ELSE "writeTemp"
        /\ g.ok = "validate" /\ g.err = "putBack" /\ g.path = Root
        /\ g.data = d /\ g.rootChanged /\ ~g.reloadAgain /\ g.rootPrevious = b[Root]
        /\ g.id = f.id /\ g.previous = f.previous
    BY <2>2 DEF restoreFile, Frames
  <2>4. g \in Frames
    <3>1. "validate" \in Continuations /\ "putBack" \in Continuations /\ Root \in Paths
      BY DEF Continuations, Paths
    <3> QED BY <1>3, <2>1, <2>2, <3>1, WriteIsGood
  <2> HIDE DEF g
  <2>5. Stands(g, files', b)
    BY <1>1, <1>3, <2>3 DEF Stands, Forward, DropImport, Writes
  <2>6. To(c, g)
    BY <1>5 DEF g, h, d
  <2> QED BY <1>1, <1>2, <1>3, <2>3, <2>4, <2>5, <2>6, StandsFacts, StandingStep
<1> QED BY <1>4, <1>5 DEF Glob

\* Taking the site file back, after a validation or a reload that failed.
LEMMA UndoConfigStands ==
    ASSUME IInv, CallStands, NEW c \in Callers, call[c].at \in {"validate", "reload"},
           UNCHANGED <<before, files>>, NEW f,
           \/ f = call[c] /\ UNCHANGED live
           \/ f = [call[c] EXCEPT !.reloadAgain = TRUE],
           To(c, UndoConfig(f))
    PROVE  CallStands'
<1> DEFINE b == before.files
           g == UndoConfig(f)
<1>1. InProgress(c)
  BY DEF InProgress
<1>2. /\ call[c] \in Frames /\ call[c].id \in SiteIds /\ Good(call[c].rootPrevious)
      /\ call[c].rootPrevious = b[Root] /\ ~call[c].reloadAgain
      /\ call[c].previous = b[call[c].id] /\ Same(files, b, {call[c].id} \cup RootDirt(call[c]))
  BY <1>1, StandsFacts, FrameFacts DEF Stands, GoodFrame
<1>3. /\ f \in Frames /\ f.id \in SiteIds /\ Good(f.rootPrevious)
      /\ f.rootPrevious = b[Root] /\ f.previous = b[f.id]
      /\ Same(files, b, {f.id} \cup RootDirt(f))
      /\ f.reloadAgain \/ UNCHANGED live
  BY <1>2 DEF Frames, RootDirt
<1>4. Stands(g, files, b) /\ g.at # "returned" /\ g.reloadAgain = f.reloadAgain
  BY <1>3, ConfigBackStands DEF UndoConfig
<1>5. g \in Frames
  BY <1>3, UndoIsGood
<1>6. g.at # "idle"
  BY <1>3 DEF UndoConfig, restoreFile, Frames
<1> HIDE DEF g
<1>7. g.at # "returned" /\ before.inSync /\ ~g.reloadAgain => live' = Served(before.files)
  BY <1>1, <1>2, <1>3, <1>4, StandsFacts
<1>8. Stands(g, files', before.files) /\ files' \in [Paths -> Anything]
  BY <1>1, <1>4, StandsFacts
<1> QED BY <1>1, <1>4, <1>5, <1>6, <1>7, <1>8, StandingStep DEF g

\* Validate.
LEMMA ValidateStands ==
    ASSUME IInv, CallStands, NEW c \in Callers, Validate(c), UNCHANGED before
    PROVE  CallStands'
<1> DEFINE f == call[c]
           b == before.files
<1>1. f.at = "validate" /\ UNCHANGED <<files, live>>
  BY DEF Validate
<1>2. InProgress(c)
  BY <1>1 DEF InProgress
<1>3. CASE To(c, [f EXCEPT !.at = "reload"])
  <2> DEFINE g == [f EXCEPT !.at = "reload"]
  <2>1. /\ g \in Frames /\ g.at = "reload" /\ g.id = f.id /\ g.rootChanged = f.rootChanged
        /\ g.reloadAgain = f.reloadAgain
        /\ g.previous = f.previous /\ g.rootPrevious = f.rootPrevious
    BY <1>2, StandsFacts DEF Frames, Labels
  <2>2. RootDirt(g) = RootDirt(f)
    BY <2>1 DEF RootDirt
  <2> HIDE DEF g
  <2>3. Stands(g, files', b)
    BY <1>1, <1>2, <2>1, <2>2, StandsFacts DEF Stands, Writes
  <2> QED BY <1>1, <1>2, <1>3, <2>1, <2>3, StandsFacts, StandingStep DEF g
<1>4. CASE To(c, UndoConfig(f))
  BY <1>1, <1>4, UndoConfigStands
<1> QED BY <1>3, <1>4 DEF Validate

\* Reload.
LEMMA ReloadStands ==
    ASSUME IInv, CallStands, NEW c \in Callers, Reload(c), UNCHANGED before
    PROVE  CallStands'
<1>1. call[c].at = "reload" /\ UNCHANGED files
  BY DEF Reload
<1>2. InProgress(c)
  BY <1>1 DEF InProgress
<1>3. CASE live' = Served(files) /\ To(c, Returned("ok"))
  <2> DEFINE g == Returned("ok")
  <2>1. g \in Frames /\ g.at = "returned" /\ g.result = "ok"
    BY IdleIsGood DEF Returned, Idle
  <2> HIDE DEF g
  <2>2. Stands(g, files', before.files)
    BY <2>1 DEF Stands, Writes
  <2>3. live' = Served(files')
    BY <1>1, <1>3
  <2> QED BY <1>1, <1>2, <1>3, <2>1, <2>2, <2>3, StandsFacts, StandingStep DEF g
<1>4. CASE To(c, UndoConfig([call[c] EXCEPT !.reloadAgain = TRUE]))
  BY <1>1, <1>4, UndoConfigStands
<1> QED BY <1>3, <1>4 DEF Reload

\* UndoReload: with the files as found, which adapt if Caddy served them.
LEMMA UndoReloadStands ==
    ASSUME UndosWork, IInv, CallStands, NEW c \in Callers, UndoReload(c), UNCHANGED before
    PROVE  CallStands'
<1> DEFINE g == Returned("err")
<1>1. call[c].at = "undoReload" /\ UNCHANGED files /\ To(c, g)
  BY DEF UndoReload
<1>2. InProgress(c)
  BY <1>1 DEF InProgress
<1>3. Same(files, before.files, {}) /\ files = before.files
  BY <1>1, <1>2, StandsFacts, SameIsEqual DEF Stands
<1>4. g \in Frames /\ g.at = "returned"
  BY IdleIsGood DEF Returned, Idle
<1>5. Stands(g, files', before.files)
  BY <1>1, <1>3, <1>4 DEF Stands, Writes, Same
<1>6. before.inSync /\ c \notin cancelled' => live' = Served(files')
  <2> SUFFICES ASSUME before.inSync, c \notin cancelled' PROVE live' = Served(files)
    BY <1>1
  <2>1. Adapts(files)
    BY <1>3 DEF CallStands
  <2>2. ~CommandRefused(c) /\ ~CommandBreaks(c, "undo")
    BY DEF CommandRefused, CommandBreaks, Fails, Cancel, UndosWork
  <2> QED BY <2>1, <2>2 DEF UndoReload
<1> HIDE DEF g
<1> QED BY <1>1, <1>2, <1>4, <1>5, <1>6, StandsFacts, StandingStep

\* A call that is in progress does not begin, nor does any other.
LEMMA StepBeginsNothing ==
    ASSUME IInv, CallNext, NEW c \in Callers, Step(c)
    PROVE  UNCHANGED before
<1>1. call[c].at # "idle" /\ \E g : To(c, g)
  BY DEF Step, ReadRoot, ReadConfig, WriteTemp, Rename, Remove, Glob, Validate, Reload,
         UndoReload
<1>2. PICK g : call' = [call EXCEPT ![c] = g]
  BY <1>1 DEF To
<1>3. \A d \in Callers : d # c => call'[d] = call[d]
  BY <1>2 DEF IInv, Types
<1>4. \A d \in Callers : ~Begins(d)
  BY <1>1, <1>3 DEF Begins
<1> QED BY <1>4 DEF CallNext

\* A call begins: what it finds is remembered, and nothing has changed yet.
LEMMA BeginStands ==
    ASSUME IInv, CallStands, CallNext, NEW c \in Callers, call[c].at = "idle",
           \A d \in Callers : ~InProgress(d), NEW g \in Frames, To(c, g),
           g.at = "readRoot", ~g.rootChanged, ~g.reloadAgain,
           g.op = "activate" => g.want # Absent, UNCHANGED <<files, live>>
    PROVE  CallStands'
<1>1. call' = [call EXCEPT ![c] = g] /\ call \in [Callers -> Frames]
  BY DEF To, IInv, Types
<1>2. call'[c] = g /\ \A d \in Callers : d # c => call'[d] = call[d]
  BY <1>1
<1>3. Begins(c) /\ \A d \in Callers : d # c => ~Begins(d)
  BY <1>2 DEF Begins
<1>4. before' = Found(c, g.op, g.id)
  BY <1>2, <1>3 DEF CallNext
<1>5. before'.by = c /\ before'.files = files
      /\ (before'.inSync => Adapts(files) /\ live = Served(files))
  BY <1>4 DEF Found
<1>6. \A d \in Callers : InProgress(d)' => d = c
  BY <1>2 DEF InProgress
<1>7. Stands(call'[c], files', before'.files)
  BY <1>2, <1>5 DEF Stands, Same, Writes
<1>8. ~Answered(c)'
  BY <1>2 DEF Answered
<1>9. files \in [Paths -> Anything]
  BY FrameFacts
<1>10. Served(before'.files) = Served(files) /\ (before'.inSync => Adapts(before'.files))
  BY <1>5
<1> QED BY <1>5, <1>6, <1>7, <1>8, <1>9, <1>10 DEF CallStands, Answered

\* A request comes, or its answer is taken.
LEMMA CallStandsCall ==
    ASSUME IInv, CallStands, CallNext, NEW c \in Callers, Call(c)
    PROVE  CallStands'
<1>1. UNCHANGED <<files, temp, live, cancelled>>
  BY DEF Call
<1>2. CASE Collect(c)
  <2>1. call' = [call EXCEPT ![c] = Idle] /\ call \in [Callers -> Frames]
    BY <1>2 DEF Collect, To, IInv, Types
  <2>2. call'[c] = Idle /\ \A d \in Callers : d # c => call'[d] = call[d]
    BY <2>1
  <2>3. call'[c].at = "idle"
    BY <2>2 DEF Idle
  <2>4. UNCHANGED before
    BY <1>2, <2>2, <2>3 DEF CallNext, Begins, Collect
  <2>5. \A d \in Callers : d # c => /\ InProgress(d)' = InProgress(d)
                                   /\ Answered(d)' = Answered(d)
    BY <2>2, <2>4 DEF InProgress, Answered
  <2>6. ~InProgress(c)' /\ ~Answered(c)'
    BY <2>3 DEF InProgress, Answered
  <2> QED BY <1>1, <2>2, <2>3, <2>4, <2>5, <2>6 DEF CallStands
<1>3. ASSUME \A d \in Callers : ~InProgress(d), NEW i \in SiteIds, NEW w \in Configs,
             ActivateSite(c, i, w)
      PROVE  CallStands'
  <2> DEFINE g == [Idle EXCEPT !.at = "readRoot", !.op = "activate", !.id = i, !.want = w]
  <2>1. /\ g \in Frames /\ g.at = "readRoot" /\ ~g.rootChanged /\ ~g.reloadAgain
        /\ g.op = "activate" /\ g.want = w
    BY DEF Idle, Frames, Anything, Paths, Continuations, Labels
  <2>2. w # Absent
    BY CaddyAssumption
  <2>3. call[c].at = "idle" /\ To(c, g)
    BY <1>3 DEF ActivateSite
  <2> HIDE DEF g
  <2> QED BY <1>1, <1>3, <2>1, <2>2, <2>3, BeginStands
<1>4. ASSUME \A d \in Callers : ~InProgress(d), NEW i \in SiteIds, RemoveSite(c, i)
      PROVE  CallStands'
  <2> DEFINE g == [Idle EXCEPT !.at = "readRoot", !.op = "remove", !.id = i]
  <2>1. /\ g \in Frames /\ g.at = "readRoot" /\ ~g.rootChanged /\ ~g.reloadAgain
        /\ g.op = "remove"
    BY DEF Idle, Frames, Anything, Paths, Continuations, Labels
  <2>2. call[c].at = "idle" /\ To(c, g)
    BY <1>4 DEF RemoveSite
  <2> HIDE DEF g
  <2> QED BY <1>1, <1>4, <2>1, <2>2, BeginStands
<1> QED BY <1>2, <1>3, <1>4 DEF Call

\* The client goes away; the daemon dies.
LEMMA DisconnectStands ==
    ASSUME IInv, CallStands, CallNext, NEW c \in Callers, Disconnect(c)
    PROVE  CallStands'
<1>1. UNCHANGED <<files, live, call>> /\ cancelled \subseteq cancelled'
  BY DEF Disconnect, Cancel
<1>2. UNCHANGED before
  BY <1>1 DEF CallNext, Begins
<1> QED BY <1>1, <1>2 DEF CallStands, InProgress, Answered

LEMMA CrashStands ==
    ASSUME IInv, CallStands, CallNext, Crash
    PROVE  CallStands'
<1>1. \A c \in Callers : call'[c].at = "idle"
  BY DEF Crash, Idle
<1>2. UNCHANGED before
  BY <1>1 DEF CallNext, Begins
<1>3. \A c \in Callers : ~InProgress(c)' /\ ~Answered(c)'
  BY <1>1 DEF InProgress, Answered
<1> QED BY <1>1, <1>2, <1>3 DEF CallStands

LEMMA InitStands == CallInit => IInv /\ CallStands
<1> SUFFICES ASSUME CallInit PROVE IInv /\ CallStands  OBVIOUS
<1>1. IInv
  BY InitIInv DEF CallInit
<1>2. files \in [Paths -> Anything]
  BY <1>1 DEF IInv, Types
<1>3. before.files = files /\ (before.inSync => Adapts(files))
  BY DEF CallInit, Found
<1>4. \A c \in Callers : call[c].at = "idle"
  BY DEF CallInit, Init, CaddyInit, Idle
<1>5. \A c \in Callers : ~InProgress(c) /\ ~Answered(c)
  BY <1>4 DEF InProgress, Answered
<1>6. before.inSync => Adapts(before.files)
  BY <1>3
<1> QED BY <1>1, <1>2, <1>3, <1>4, <1>5, <1>6 DEF CallStands

LEMMA StepStands ==
    ASSUME UndosWork, IInv, CallStands, NEW c \in Callers, Step(c), UNCHANGED before
    PROVE  CallStands'
<1>1. CASE ReadRoot(c)  BY <1>1, ReadRootStands
<1>2. CASE ReadConfig(c)  BY <1>2, ReadConfigStands
<1>3. CASE WriteTemp(c)  BY <1>3, WriteTempStands
<1>4. CASE Rename(c)  BY <1>4, RenameStands
<1>5. CASE Remove(c)  BY <1>5, RemoveStands
<1>6. CASE Glob(c)  BY <1>6, GlobStands
<1>7. CASE Validate(c)  BY <1>7, ValidateStands
<1>8. CASE Reload(c)  BY <1>8, ReloadStands
<1>9. CASE UndoReload(c)  BY <1>9, UndoReloadStands
<1> QED BY <1>1, <1>2, <1>3, <1>4, <1>5, <1>6, <1>7, <1>8, <1>9 DEF Step

LEMMA StandsStep ==
    ASSUME UndosWork
    PROVE  IInv /\ CallStands /\ [CallNext]_<<vars, before>> => (IInv /\ CallStands)'
<1> SUFFICES ASSUME IInv, CallStands, [CallNext]_<<vars, before>> PROVE IInv' /\ CallStands'
  OBVIOUS
<1>1. IInv'
  BY IInvStep DEF CallNext, vars
<1>2. CASE UNCHANGED <<vars, before>>
  <2>1. UNCHANGED <<files, live, call, cancelled, before>>
    BY <1>2 DEF vars
  <2> QED BY <1>1, <2>1 DEF CallStands, InProgress, Answered
<1>3. CASE CallNext /\ Crash
  BY <1>3, CrashStands, <1>1
<1>4. ASSUME NEW c \in Callers, CallNext, Call(c) \/ Step(c) \/ Disconnect(c)
      PROVE  CallStands'
  <2>1. CASE Call(c)  BY <1>4, <2>1, CallStandsCall
  <2>2. CASE Disconnect(c)  BY <1>4, <2>2, DisconnectStands
  <2>3. CASE Step(c)
    BY <1>4, <2>3, StepBeginsNothing, StepStands
  <2> QED BY <1>4, <2>1, <2>2, <2>3
<1> QED BY <1>1, <1>2, <1>3, <1>4 DEF CallNext, Next, Serve

\* A call that fails has put every file back, whatever failed before the undo,
\* whether its client has gone away or the daemon died in a call before it
\* (the restoreFile calls of ActivateSite and RemoveSite, manager.go:71-211),
\* as long as nothing fails in the undo itself and no chmod fails with the
\* file already in place.
THEOREM FailedCallsAlwaysRestore ==
    ASSUME UndosWork
    PROVE  CallSpec => []FailedCallRestoresFiles
<1>1. IInv /\ CallStands => FailedCallRestoresFiles
  <2> SUFFICES ASSUME IInv, CallStands, NEW c \in Callers, Answered(c), call[c].result = "err"
               PROVE  files = before.files
    BY DEF FailedCallRestoresFiles
  <2>1. Same(files, before.files, {})
    BY DEF CallStands, Answered, Stands
  <2> QED BY <2>1, SameIsEqual DEF CallStands, IInv, Types
<1>2. IInv /\ CallStands /\ [CallNext]_<<vars, before>> => (IInv /\ CallStands)'
  BY StandsStep
<1> QED BY <1>1, <1>2, InitStands, PTL DEF CallSpec

\* When a call has ended Caddy serves what the files say, if it did so when the
\* call began: a failed call's configuration never stays live, but for a client
\* that has gone away, whose undo cannot reload (manager.go:118-127, 194-203).
THEOREM LiveAlwaysMatchesFiles ==
    ASSUME UndosWork
    PROVE  CallSpec => []LiveMatchesFiles
<1>1. IInv /\ CallStands => LiveMatchesFiles
  BY DEF CallStands, LiveMatchesFiles
<1>2. IInv /\ CallStands /\ [CallNext]_<<vars, before>> => (IInv /\ CallStands)'
  BY StandsStep
<1> QED BY <1>1, <1>2, InitStands, PTL DEF CallSpec

-----------------------------------------------------------------------------
(* Types.  They do not depend on the order of the calls: a call never puts   *)
(* a site file's content in the Caddyfile, nor the other way round.          *)

TypedFrame(f) ==
    /\ f \in Frames /\ f.at \in Labels
    /\ f.at \notin {"idle", "returned"} => f.id \in SiteIds
    /\ f.rootPrevious \in Contents(Root)
    /\ f.previous \in {Absent, Foreign} \cup Configs
    /\ f.data \in Contents(f.path)
    /\ f.at \in Writes => f.ok # "none" /\ f.err # "none"

FilesTyped ==
    /\ files \in [Paths -> Anything] /\ temp \in [Paths -> Anything]
    /\ \A p \in Paths : files[p] \in Contents(p) /\ temp[p] \in Contents(p)

FramesTyped == call \in [Callers -> Frames] /\ \A c \in Callers : TypedFrame(call[c])

HostTyped ==
    /\ cancelled \subseteq Cancellable
    /\ faults \in Nat /\ faults <= MaxFaults

CaddyTyped == FilesTyped /\ live \subseteq Configs /\ FramesTyped /\ HostTyped

LEMMA ContentsAre ==
    /\ Root \in Paths /\ Contents(Root) = {Absent} \cup RootFiles
    /\ \A i \in SiteIds : /\ i \in Paths /\ i # Root
                          /\ Contents(i) = {Absent, Foreign} \cup Configs
    /\ \A p \in Paths : /\ Contents(p) \subseteq Anything
                        /\ Truncated(p) \in Contents(p) /\ Absent \in Contents(p)
BY CaddyAssumption DEF Contents, Paths, Anything, Truncated, RootFiles

LEMMA IdleFrameTyped ==
    /\ TypedFrame(Idle) /\ \A res \in {"ok", "err"} : TypedFrame(Returned(res))
<1>1. Absent \in Contents(Root)
  BY DEF Contents
<1> QED BY <1>1, IdleIsGood DEF TypedFrame, Idle, Returned, Labels, Writes

\* A frame that only moves on to a step that writes nothing.
LEMMA MoveTyped ==
    ASSUME NEW f, TypedFrame(f), f.id \in SiteIds, NEW l \in Labels \ Writes
    PROVE  TypedFrame([f EXCEPT !.at = l])
BY DEF TypedFrame, Frames, Writes

LEMMA WriteTyped ==
    ASSUME NEW f, TypedFrame(f), f.id \in SiteIds, NEW p \in Paths, NEW d \in Contents(p),
           NEW ok \in Continuations \ {"none"}, NEW err \in Continuations \ {"none"}
    PROVE  TypedFrame(writeAtomically(f, p, d, ok, err)) /\ TypedFrame(restoreFile(f, p, d, ok, err))
<1>1. f \in Frames /\ d \in Anything
  BY ContentsAre DEF TypedFrame
<1>2. \A l \in {"writeTemp", "remove"} :
        TypedFrame([f EXCEPT !.at = l, !.path = p, !.data = d, !.ok = ok, !.err = err])
  <2> TAKE l \in {"writeTemp", "remove"}
  <2> DEFINE g == [f EXCEPT !.at = l, !.path = p, !.data = d, !.ok = ok, !.err = err]
  <2>1. /\ g \in Frames /\ g.at = l /\ g.path = p /\ g.data = d /\ g.ok = ok /\ g.err = err
        /\ g.id = f.id /\ g.rootPrevious = f.rootPrevious /\ g.previous = f.previous
    BY <1>1 DEF Frames, Labels
  <2>2. l \in Labels
    BY DEF Labels
  <2>3. /\ f.id \in SiteIds /\ f.rootPrevious \in Contents(Root)
        /\ f.previous \in {Absent, Foreign} \cup Configs
    BY DEF TypedFrame
  <2> HIDE DEF g
  <2>4. g.data \in Contents(g.path)
    BY <2>1
  <2>5. TypedFrame(g)
    BY <2>1, <2>2, <2>3, <2>4 DEF TypedFrame
  <2> QED BY <2>5 DEF g
<1> QED BY <1>2 DEF writeAtomically, restoreFile

LEMMA UndoTyped ==
    ASSUME NEW f, TypedFrame(f), f.id \in SiteIds
    PROVE  TypedFrame(Undone(f)) /\ TypedFrame(UndoRoot(f)) /\ TypedFrame(UndoConfig(f))
<1>1. TypedFrame(Undone(f))
  BY MoveTyped, IdleFrameTyped DEF Undone, Labels, Writes
<1>2. /\ f.rootPrevious \in Contents(Root) /\ f.previous \in Contents(f.id)
      /\ Root \in Paths /\ f.id \in Paths
      /\ {"undone", "undoRoot"} \subseteq Continuations \ {"none"}
  BY ContentsAre DEF TypedFrame, Continuations
<1>3. TypedFrame(UndoRoot(f))
  BY <1>1, <1>2, WriteTyped DEF UndoRoot
<1>4. TypedFrame(UndoConfig(f))
  BY <1>2, WriteTyped DEF UndoConfig
<1> QED BY <1>1, <1>3, <1>4

LEMMA ContinueTyped ==
    ASSUME NEW f, TypedFrame(f), f.id \in SiteIds, NEW l \in Continuations \ {"none"}
    PROVE  TypedFrame(Continue(f, l))
<1>1. CASE l = "fail"
  BY <1>1, IdleFrameTyped DEF Continue
<1>2. CASE l = "putBack"
  <2>1. Continue(f, l) = restoreFile(f, f.id, f.previous, "fail", "fail")
    BY <1>2 DEF Continue
  <2>2. f.previous \in Contents(f.id) /\ f.id \in Paths /\ "fail" \in Continuations \ {"none"}
    BY ContentsAre DEF TypedFrame, Continuations
  <2> QED BY <2>1, <2>2, WriteTyped
<1>3. CASE l = "undoRoot"
  <2>1. Continue(f, l) = UndoRoot(f)  BY <1>3 DEF Continue
  <2> QED BY <2>1, UndoTyped
<1>4. CASE l = "undone"
  <2>1. Continue(f, l) = Undone(f)  BY <1>4 DEF Continue
  <2> QED BY <2>1, UndoTyped
<1>5. CASE l \in {"readConfig", "validate", "glob"}
  <2>1. Continue(f, l) = [f EXCEPT !.at = l]  BY <1>5 DEF Continue
  <2>2. l \in Labels \ Writes  BY <1>5 DEF Labels, Writes
  <2> QED BY <2>1, <2>2, MoveTyped
<1> QED BY <1>1, <1>2, <1>3, <1>4, <1>5 DEF Continuations

\* The frames after a step of c, and the host after any step.
LEMMA FrameTypedStep ==
    ASSUME FramesTyped, NEW c \in Callers, NEW f, TypedFrame(f), To(c, f)
    PROVE  FramesTyped'
<1>1. f \in Frames  BY DEF TypedFrame
<1>2. call' \in [Callers -> Frames]  BY <1>1 DEF FramesTyped, To
<1>3. \A d \in Callers : TypedFrame(call'[d])
  BY <1>1 DEF FramesTyped, To
<1> QED BY <1>2, <1>3 DEF FramesTyped, TypedFrame

LEMMA HostTypedStep ==
    ASSUME HostTyped, NEW c,
           \/ Works /\ UNCHANGED cancelled
           \/ (\E kind : Fails(kind)) /\ UNCHANGED cancelled
           \/ CommandSucceeds(c) \/ CommandRefused(c) \/ \E kind : CommandBreaks(c, kind)
    PROVE  HostTyped'
<1>1. cancelled' \subseteq Cancellable
  BY DEF HostTyped, CommandSucceeds, CommandRefused, CommandBreaks, Cancel
<1>2. faults' = faults \/ (faults < MaxFaults /\ faults' = faults + 1)
  BY DEF Works, Fails, CommandSucceeds, CommandRefused, CommandBreaks
<1>3. faults' \in Nat /\ faults' <= MaxFaults
  BY <1>2, HostAssumption DEF HostTyped
<1> QED BY <1>1, <1>3 DEF HostTyped

LEMMA ServedTyped ==
    ASSUME FilesTyped
    PROVE  Served(files) \subseteq Configs
<1>1. \A i \in ManagedFiles(files) : files[i] \in Configs
  BY ContentsAre DEF ManagedFiles, SiteFiles, FilesTyped
<1> QED BY <1>1 DEF Served

LEMMA ReadRootTyped ==
    ASSUME CaddyTyped, NEW c \in Callers, ReadRoot(c)
    PROVE  CaddyTyped'
<1> USE DEF CaddyTyped
<1> DEFINE f == [call[c] EXCEPT !.rootPrevious = files[Root]]
           g == [f EXCEPT !.rootChanged = TRUE]
           new == ensureManagedRootImport(files[Root])
<1>1. TypedFrame(call[c]) /\ call[c].at = "readRoot" /\ UNCHANGED <<files, temp, live>>
  BY DEF FramesTyped, ReadRoot
<1>2. TypedFrame(f) /\ f.id \in SiteIds
  <2>1. files[Root] \in Contents(Root) /\ files[Root] \in Anything
    BY ContentsAre DEF FilesTyped
  <2> QED BY <1>1, <2>1 DEF TypedFrame, Frames, Writes
<1>3. TypedFrame(g) /\ g.id \in SiteIds
  BY <1>2 DEF TypedFrame, Frames
<1>4. new \in Contents(Root)
  <2>1. files[Root] \in {Absent} \cup RootFiles
    BY ContentsAre DEF FilesTyped
  <2>2. new \in RootFiles
    BY <2>1 DEF ensureManagedRootImport, RootFiles
  <2> QED BY <2>2, ContentsAre
<1>5. \/ To(c, writeAtomically(g, Root, new, "readConfig", "fail"))
      \/ To(c, [f EXCEPT !.at = "readConfig"]) \/ To(c, Returned("err"))
  BY DEF ReadRoot
<1> HIDE DEF f, g, new
<1>6. TypedFrame(writeAtomically(g, Root, new, "readConfig", "fail"))
  BY <1>3, <1>4, WriteTyped, ContentsAre DEF Continuations
<1>7. TypedFrame([f EXCEPT !.at = "readConfig"])
  BY <1>2, MoveTyped DEF Labels, Writes
<1>8. FramesTyped'
  BY <1>5, <1>6, <1>7, IdleFrameTyped, FrameTypedStep
<1>9. HostTyped'
  BY HostTypedStep DEF ReadRoot
<1> QED BY <1>1, <1>8, <1>9 DEF FilesTyped

LEMMA ReadConfigTyped ==
    ASSUME CaddyTyped, NEW c \in Callers, ReadConfig(c)
    PROVE  CaddyTyped'
<1> USE DEF CaddyTyped
<1> DEFINE f == [call[c] EXCEPT !.previous = files[call[c].id]]
<1>1. TypedFrame(call[c]) /\ call[c].at = "readConfig" /\ UNCHANGED <<files, temp, live>>
      /\ call[c].id \in SiteIds
  BY DEF FramesTyped, ReadConfig, TypedFrame
<1>2. TypedFrame(f) /\ f.id \in SiteIds /\ f.want \in {Absent} \cup Configs
  <2>1. files[call[c].id] \in {Absent, Foreign} \cup Configs /\ files[call[c].id] \in Anything
    BY <1>1, ContentsAre DEF FilesTyped
  <2> QED BY <1>1, <2>1 DEF TypedFrame, Frames, Writes
<1>3. \/ To(c, writeAtomically(f, f.id, f.want, "validate", "undoRoot"))
      \/ To(c, restoreFile(f, f.id, Absent, "glob", "fail"))
      \/ To(c, UndoRoot(f)) \/ To(c, Returned("err")) \/ To(c, Returned("ok"))
  BY DEF ReadConfig
<1> HIDE DEF f
<1>4. f.want \in Contents(f.id) /\ Absent \in Contents(f.id) /\ f.id \in Paths
      /\ {"validate", "undoRoot", "glob", "fail"} \subseteq Continuations \ {"none"}
  BY <1>2, ContentsAre DEF Continuations
<1>5. /\ TypedFrame(writeAtomically(f, f.id, f.want, "validate", "undoRoot"))
      /\ TypedFrame(restoreFile(f, f.id, Absent, "glob", "fail"))
  BY <1>2, <1>4, WriteTyped
<1>6. FramesTyped'
  BY <1>2, <1>3, <1>5, IdleFrameTyped, UndoTyped, FrameTypedStep
<1>7. HostTyped'
  BY HostTypedStep DEF ReadConfig
<1> QED BY <1>1, <1>6, <1>7 DEF FilesTyped

\* The three steps of a write: what is written has the type of its path.
LEMMA WritesTyped ==
    ASSUME CaddyTyped, NEW c \in Callers, WriteTemp(c) \/ Rename(c) \/ Remove(c)
    PROVE  CaddyTyped'
<1> USE DEF CaddyTyped
<1> DEFINE f == call[c]
           p == f.path
<1>1. TypedFrame(f) /\ f.at \in Writes /\ UNCHANGED live /\ f.id \in SiteIds /\ p \in Paths
      /\ f.ok \in Continuations \ {"none"} /\ f.err \in Continuations \ {"none"}
      /\ f.data \in Contents(p)
  BY DEF FramesTyped, WriteTemp, Rename, Remove, Writes, TypedFrame, Frames
<1>2. TypedFrame([f EXCEPT !.at = "rename"])
  BY <1>1 DEF TypedFrame, Frames, Writes, Labels
<1>3. TypedFrame(Continue(f, f.ok)) /\ TypedFrame(Continue(f, f.err))
  BY <1>1, ContinueTyped
<1>4. \/ To(c, [f EXCEPT !.at = "rename"]) \/ To(c, Continue(f, f.ok)) \/ To(c, Continue(f, f.err))
  BY DEF WriteTemp, Rename, Remove
<1>5. FramesTyped'
  BY <1>2, <1>3, <1>4, FrameTypedStep
<1>6. HostTyped'
  BY HostTypedStep DEF WriteTemp, Rename, Remove
<1>7. /\ \/ UNCHANGED temp
         \/ \E d \in {f.data, Truncated(p), Absent} : temp' = [temp EXCEPT ![p] = d]
      /\ \/ UNCHANGED files
         \/ \E d \in {temp[p], Absent} : files' = [files EXCEPT ![p] = d]
  BY DEF WriteTemp, Rename, Remove
<1>8. \A d \in {f.data, Truncated(p), Absent, temp[p]} : d \in Contents(p) /\ d \in Anything
  <2>1. temp[p] \in Contents(p)
    BY <1>1 DEF FilesTyped
  <2>2. {f.data, Truncated(p), Absent} \subseteq Contents(p) /\ Contents(p) \subseteq Anything
    BY <1>1, ContentsAre
  <2> QED BY <2>1, <2>2
<1>9. FilesTyped'
  BY <1>1, <1>7, <1>8 DEF FilesTyped
<1> QED BY <1>1, <1>5, <1>6, <1>9

LEMMA GlobTyped ==
    ASSUME CaddyTyped, NEW c \in Callers, Glob(c)
    PROVE  CaddyTyped'
<1> USE DEF CaddyTyped
<1> DEFINE f == call[c]
           g == [f EXCEPT !.rootChanged = TRUE]
           new == removeManagedRootImport(f.rootPrevious)
<1>1. TypedFrame(f) /\ f.at = "glob" /\ UNCHANGED <<files, temp, live>> /\ f.id \in SiteIds
  BY DEF FramesTyped, Glob, TypedFrame
<1>2. TypedFrame(g) /\ g.id \in SiteIds
  BY <1>1 DEF TypedFrame, Frames
<1>3. HasImport(f.rootPrevious) => new \in Contents(Root)
  <2>1. f.rootPrevious \in {Absent} \cup RootFiles
    BY <1>1, ContentsAre DEF TypedFrame
  <2>2. HasImport(f.rootPrevious) => new \in {Absent} \cup RootFiles
    BY <2>1 DEF HasImport, removeManagedRootImport, RootFiles
  <2> QED BY <2>2, ContentsAre
<1>4. \/ HasImport(f.rootPrevious) /\ To(c, restoreFile(g, Root, new, "validate", "putBack"))
      \/ To(c, [f EXCEPT !.at = "validate"])
  BY DEF Glob
<1> HIDE DEF f, g, new
<1>5. HasImport(f.rootPrevious) => TypedFrame(restoreFile(g, Root, new, "validate", "putBack"))
  BY <1>2, <1>3, WriteTyped, ContentsAre DEF Continuations
<1>6. TypedFrame([f EXCEPT !.at = "validate"])
  BY <1>1, MoveTyped DEF Labels, Writes
<1>7. FramesTyped'
  BY <1>4, <1>5, <1>6, FrameTypedStep
<1>8. HostTyped'
  BY HostTypedStep DEF Glob
<1> QED BY <1>1, <1>7, <1>8 DEF FilesTyped

LEMMA CommandTyped ==
    ASSUME CaddyTyped, NEW c \in Callers, Validate(c) \/ Reload(c) \/ UndoReload(c)
    PROVE  CaddyTyped'
<1> USE DEF CaddyTyped
<1> DEFINE f == call[c]
           g == [f EXCEPT !.reloadAgain = TRUE]
<1>1. TypedFrame(f) /\ f.at \in {"validate", "reload", "undoReload"} /\ UNCHANGED <<files, temp>>
      /\ f.id \in SiteIds
  BY DEF FramesTyped, Validate, Reload, UndoReload, TypedFrame
<1>2. TypedFrame(g) /\ g.id \in SiteIds
  BY <1>1 DEF TypedFrame, Frames
<1>3. \/ To(c, [f EXCEPT !.at = "reload"]) \/ To(c, UndoConfig(f)) \/ To(c, UndoConfig(g))
      \/ To(c, Returned("ok")) \/ To(c, Returned("err"))
  BY DEF Validate, Reload, UndoReload
<1> HIDE DEF f, g
<1>4. TypedFrame([f EXCEPT !.at = "reload"])
  BY <1>1, MoveTyped DEF Labels, Writes
<1>5. FramesTyped'
  BY <1>1, <1>2, <1>3, <1>4, UndoTyped, IdleFrameTyped, FrameTypedStep
<1>6. HostTyped'
  BY HostTypedStep DEF Validate, Reload, UndoReload
<1>7. live' \subseteq Configs
  <2>1. live' = live \/ live' = Served(files)
    BY DEF Validate, Reload, UndoReload
  <2> QED BY <2>1, ServedTyped
<1> QED BY <1>1, <1>5, <1>6, <1>7 DEF FilesTyped

\* The frames of a call that begins or is collected, whoever makes it.
LEMMA UseTyped ==
    ASSUME CaddyTyped, NEW c \in Callers, UNCHANGED <<files, temp, live>>, HostTyped',
           \/ \E i \in SiteIds : (\E w \in Configs : ActivateSite(c, i, w)) \/ RemoveSite(c, i)
           \/ Collect(c)
    PROVE  CaddyTyped'
<1> USE DEF CaddyTyped
<1>2. PICK f : To(c, f) /\ TypedFrame(f)
  <2>1. CASE \E i \in SiteIds, w \in Configs : ActivateSite(c, i, w)
    <3>1. PICK i \in SiteIds, w \in Configs : ActivateSite(c, i, w)  BY <2>1
    <3> DEFINE f == [Idle EXCEPT !.at = "readRoot", !.op = "activate", !.id = i, !.want = w]
    <3>2. f \in Frames /\ f.at = "readRoot" /\ f.id = i /\ f.rootPrevious = Absent
          /\ f.previous = Absent /\ f.data = Absent /\ f.path = Root
      BY <3>1 DEF Idle, Frames, Anything, Paths, Continuations, Labels
    <3>3. TypedFrame(f)
      BY <3>2, ContentsAre DEF TypedFrame, Labels, Writes
    <3> QED BY <3>1, <3>3 DEF ActivateSite
  <2>2. CASE \E i \in SiteIds : RemoveSite(c, i)
    <3>1. PICK i \in SiteIds : RemoveSite(c, i)  BY <2>2
    <3> DEFINE f == [Idle EXCEPT !.at = "readRoot", !.op = "remove", !.id = i]
    <3>2. f \in Frames /\ f.at = "readRoot" /\ f.id = i /\ f.rootPrevious = Absent
          /\ f.previous = Absent /\ f.data = Absent /\ f.path = Root
      BY <3>1 DEF Idle, Frames, Anything, Paths, Continuations, Labels
    <3>3. TypedFrame(f)
      BY <3>2, ContentsAre DEF TypedFrame, Labels, Writes
    <3> QED BY <3>1, <3>3 DEF RemoveSite
  <2>3. CASE Collect(c)
    BY <2>3, IdleFrameTyped DEF Collect
  <2> QED BY <2>1, <2>2, <2>3
<1>3. FramesTyped'
  BY <1>2, FrameTypedStep
<1> QED BY <1>3 DEF FilesTyped

LEMMA CallTyped ==
    ASSUME CaddyTyped, NEW c \in Callers, Call(c)
    PROVE  CaddyTyped'
<1>1. UNCHANGED <<files, temp, live, cancelled, faults>>
  BY DEF Call
<1>2. HostTyped'
  BY <1>1 DEF CaddyTyped, HostTyped
<1>3. \/ \E i \in SiteIds : (\E w \in Configs : ActivateSite(c, i, w)) \/ RemoveSite(c, i)
      \/ Collect(c)
  BY DEF Call
<1> QED BY <1>1, <1>2, <1>3, UseTyped

LEMMA CrashTyped ==
    ASSUME CaddyTyped, Crash
    PROVE  CaddyTyped'
<1> USE DEF CaddyTyped
<1>1. UNCHANGED <<files, live, cancelled, faults>> /\ call' = [c \in Callers |-> Idle]
  BY DEF Crash
<1>2. FramesTyped'
  <2>1. \A c \in Callers : TypedFrame(call'[c])
    BY <1>1, IdleFrameTyped
  <2> QED BY <1>1, <2>1, IdleIsGood DEF FramesTyped, TypedFrame
<1>3. FilesTyped'
  <2>1. \A c \in Callers : call[c].path \in Paths
    BY DEF FramesTyped, Frames
  <2>2. UNCHANGED temp \/ \E p \in Paths : temp' = [temp EXCEPT ![p] = Truncated(p)]
    BY <2>1 DEF Crash
  <2> QED BY <1>1, <2>2, ContentsAre DEF FilesTyped
<1> QED BY <1>1, <1>2, <1>3 DEF HostTyped

LEMMA StepTyped ==
    ASSUME CaddyTyped, NEW c \in Callers, Step(c)
    PROVE  CaddyTyped'
BY ReadRootTyped, ReadConfigTyped, WritesTyped, GlobTyped, CommandTyped DEF Step

\* When only the host changes.
LEMMA HostOnlyTyped ==
    ASSUME CaddyTyped, UNCHANGED <<files, temp, live, call>>, HostTyped'
    PROVE  CaddyTyped'
<1>1. \A d \in Callers : TypedFrame(call'[d])
  BY DEF CaddyTyped, FramesTyped
<1> QED BY <1>1 DEF CaddyTyped, FilesTyped, FramesTyped, TypedFrame

LEMMA TypedStep == CaddyTyped /\ [Next]_vars => CaddyTyped'
<1> SUFFICES ASSUME CaddyTyped, [Next]_vars PROVE CaddyTyped'  OBVIOUS
<1>1. CASE UNCHANGED vars
  BY <1>1, HostOnlyTyped DEF vars, CaddyTyped, HostTyped
<1>2. CASE Crash  BY <1>2, CrashTyped
<1>3. ASSUME NEW c \in Callers, Call(c) \/ Step(c) \/ Disconnect(c)
      PROVE  CaddyTyped'
  <2>1. CASE Call(c)  BY <2>1, CallTyped
  <2>2. CASE Disconnect(c)
    BY <2>2, HostOnlyTyped DEF Disconnect, Cancel, CaddyTyped, HostTyped
  <2>3. CASE Step(c)
    BY <2>3, StepTyped
  <2> QED BY <1>3, <2>1, <2>2, <2>3
<1> QED BY <1>1, <1>2, <1>3 DEF Next, Serve

LEMMA InitTyped == Init => CaddyTyped
<1> SUFFICES ASSUME Init PROVE CaddyTyped  OBVIOUS
<1>1. files \in InitialFiles /\ temp = [p \in Paths |-> Absent]
      /\ call = [c \in Callers |-> Idle] /\ live = Served(files)
  BY DEF Init, CaddyInit
<1>2. IInv  BY InitIInv
<1>3. \A p \in Paths : files[p] \in Contents(p)
  <2>1. files[Root] \in {Absent} \cup RootFiles
    BY <1>1, CaddyAssumption
  <2>2. \A i \in SiteIds : files[i] \in {Absent, Foreign} \cup Configs
    BY <1>1, CaddyAssumption
  <2> QED BY <2>1, <2>2, ContentsAre DEF Paths
<1>4. \A p \in Paths : temp[p] \in Contents(p)
  BY <1>1 DEF Contents
<1>5. FilesTyped
  BY <1>2, <1>3, <1>4 DEF FilesTyped, IInv, Types
<1>6. FramesTyped
  BY <1>1, <1>2, IdleFrameTyped DEF FramesTyped, IInv, Types
<1>7. HostTyped
  BY HostAssumption DEF Init, HostInit, HostTyped
<1> QED BY <1>1, <1>5, <1>6, <1>7, ServedTyped DEF CaddyTyped

\* Whatever fails or is cut short, a site file holds a configuration or what is
\* left of one, the Caddyfile holds blocks, and Caddy serves configurations: no
\* undo writes back what was read from another file (restoreFile, manager.go).
THEOREM CaddyAlwaysTyped == CallSpec => []TypeOK
<1>1. CaddyTyped => TypeOK
  <2> SUFFICES ASSUME CaddyTyped PROVE TypeOK  OBVIOUS
  <2>1. \A p \in Paths : files[p] \in Contents(p) /\ temp[p] \in Contents(p)
    BY DEF CaddyTyped, FilesTyped
  <2>2. \A c \in Callers : TypedFrame(call[c])
    BY DEF CaddyTyped, FramesTyped
  <2>3. live \subseteq Configs /\ cancelled \subseteq Cancellable /\ faults \in 0..MaxFaults
    BY HostAssumption DEF CaddyTyped, HostTyped
  <2> QED BY <2>1, <2>2, <2>3 DEF TypeOK, TypedFrame, Frames
<1>2. CaddyTyped /\ [CallNext]_<<vars, before>> => CaddyTyped'
  BY TypedStep DEF CallNext, vars
<1>3. CallInit => CaddyTyped
  BY InitTyped DEF CallInit
<1> QED BY <1>1, <1>2, <1>3, PTL DEF CallSpec

-----------------------------------------------------------------------------
(* A call that succeeds.  Target is what the files b become when a call has *)
(* done all it was asked to; Ahead says how far a call has come towards it, *)
(* and nothing of one that is taking its changes back.                      *)

OthersAbsent(b, i) == \A j \in SiteIds \ {i} : b[j] = Absent

Target(op, i, w, b) ==
    IF op = "activate"
      THEN [b EXCEPT ![Root] = ensureManagedRootImport(b[Root]), ![i] = w]
      ELSE [b EXCEPT ![Root] = IF OthersAbsent(b, i) /\ HasImport(b[Root])
                               THEN removeManagedRootImport(b[Root]) ELSE b[Root],
                     ![i] = Absent]

\* The call is about t; a removal finds a file to remove.
Aims(f, b, t) ==
    f.at \notin {"idle", "returned"} =>
        /\ t = Target(f.op, f.id, f.want, b) /\ f.op \in {"activate", "remove"}
        /\ f.op = "remove" => b[f.id] \notin {Absent, Foreign}

Advances(f, fs, b, t) ==
    /\ f.at = "readConfig" /\ f.op = "activate" => fs[Root] = ensureManagedRootImport(b[Root])
    /\ f.at \in Writes /\ f.ok = "readConfig" =>
          f.op = "activate" /\ f.data = ensureManagedRootImport(b[Root])
    /\ f.at \in Writes /\ f.ok = "validate" /\ f.err = "undoRoot" =>
          /\ f.op = "activate" /\ f.data = f.want
          /\ fs[Root] = ensureManagedRootImport(b[Root])
    /\ f.at \in Writes /\ f.ok = "glob" => f.op = "remove"
    /\ f.at \in Writes /\ f.ok = "validate" /\ f.err = "putBack" =>
          /\ f.op = "remove" /\ fs[f.id] = Absent
          /\ f.data = removeManagedRootImport(b[Root])
          /\ OthersAbsent(b, f.id) /\ HasImport(b[Root])
    /\ f.at = "glob" => f.op = "remove" /\ fs[f.id] = Absent
    /\ f.at \in {"validate", "reload"} => fs = t
    /\ f.at = "returned" /\ f.result = "ok" => fs = t

Ahead(f, fs, b, t) == Aims(f, b, t) /\ Advances(f, fs, b, t)

\* A frame that takes something back, or has done so.
Backing(g) ==
    /\ g.at \notin {"readConfig", "glob", "validate", "reload"}
    /\ g.at \in Writes => g.ok \in {"undoRoot", "undone", "fail"}
    /\ g.at = "returned" => g.result = "err"

Keeps(g, f) == g.at # "returned" => g.op = f.op /\ g.id = f.id /\ g.want = f.want

LEMMA BackingFrames ==
    ASSUME NEW f \in Frames
    PROVE  /\ Backing(Returned("err")) /\ Keeps(Returned("err"), f)
           /\ Backing(Undone(f)) /\ Keeps(Undone(f), f)
           /\ Backing(UndoRoot(f)) /\ Keeps(UndoRoot(f), f)
           /\ Backing(UndoConfig(f)) /\ Keeps(UndoConfig(f), f)
           /\ \A l \in {"fail", "putBack", "undoRoot", "undone"} :
                 Backing(Continue(f, l)) /\ Keeps(Continue(f, l), f)
<1>1. Backing(Returned("err")) /\ Keeps(Returned("err"), f)
  BY DEF Backing, Keeps, Returned, Idle, Writes
<1>2. Backing(Undone(f)) /\ Keeps(Undone(f), f)
  BY <1>1 DEF Backing, Keeps, Undone, Writes, Frames
<1>3. ASSUME NEW p, NEW d, NEW l \in {"undoRoot", "undone", "fail"}
      PROVE  Backing(restoreFile(f, p, d, l, l)) /\ Keeps(restoreFile(f, p, d, l, l), f)
  <2> DEFINE g == restoreFile(f, p, d, l, l)
  <2>1. /\ g.at \in {"remove", "writeTemp"} /\ g.ok = l
        /\ g.op = f.op /\ g.id = f.id /\ g.want = f.want
    BY DEF restoreFile, Frames
  <2> HIDE DEF g
  <2>2. Backing(g) /\ Keeps(g, f)
    BY <2>1 DEF Backing, Keeps, Writes
  <2> QED BY <2>2 DEF g
<1>4. Backing(UndoRoot(f)) /\ Keeps(UndoRoot(f), f)
  BY <1>2, <1>3 DEF UndoRoot
<1>5. Backing(UndoConfig(f)) /\ Keeps(UndoConfig(f), f)
  BY <1>3 DEF UndoConfig
<1>6. ASSUME NEW l \in {"fail", "putBack", "undoRoot", "undone"}
      PROVE  Backing(Continue(f, l)) /\ Keeps(Continue(f, l), f)
  BY <1>1, <1>2, <1>3, <1>4 DEF Continue
<1> QED BY <1>1, <1>2, <1>4, <1>5, <1>6

LEMMA BackingIsAhead ==
    ASSUME NEW f, NEW g, NEW fs, NEW b, NEW t, f.at \notin {"idle", "returned"}, Aims(f, b, t),
           Backing(g), Keeps(g, f)
    PROVE  Ahead(g, fs, b, t)
<1>1. Aims(g, b, t)
  BY DEF Aims, Keeps
<1>2. Advances(g, fs, b, t)
  BY DEF Advances, Backing
<1> QED BY <1>1, <1>2 DEF Ahead

\* What is known of the call in progress before a step of it.
LEMMA AheadFacts ==
    ASSUME IInv, CallStands, NEW c \in Callers, InProgress(c), NEW t,
           Ahead(call[c], files, before.files, t)
    PROVE  /\ call[c] \in Frames /\ call[c].id \in SiteIds /\ call[c].id \in Paths
           /\ Root \in Paths /\ call[c].id # Root
           /\ files \in [Paths -> Anything] /\ before.files \in [Paths -> Anything]
           /\ Stands(call[c], files, before.files)
           /\ Aims(call[c], before.files, t) /\ Advances(call[c], files, before.files, t)
           /\ call[c].at \notin {"idle", "returned"}
           /\ t = Target(call[c].op, call[c].id, call[c].want, before.files)
           /\ call[c].op \in {"activate", "remove"}
<1>1. /\ call[c] \in Frames /\ call[c].id \in SiteIds /\ Stands(call[c], files, before.files)
      /\ files \in [Paths -> Anything] /\ before.files \in [Paths -> Anything]
  BY StandsFacts
<1>2. call[c].at \notin {"idle", "returned"}
  BY DEF InProgress
<1>3. Aims(call[c], before.files, t) /\ Advances(call[c], files, before.files, t)
  BY DEF Ahead
<1> QED BY <1>1, <1>2, <1>3, CaddyAssumption DEF Aims, Paths

LEMMA NewFrame ==
    ASSUME IInv, NEW c \in Callers, NEW g, To(c, g)
    PROVE  call'[c] = g
BY DEF IInv, Types, To

\* ReadRoot and ReadConfig.
LEMMA ReadRootAhead ==
    ASSUME IInv, CallStands, NEW c \in Callers, ReadRoot(c), NEW t,
           Ahead(call[c], files, before.files, t)
    PROVE  Ahead(call'[c], files', before.files, t)
<1> DEFINE f == [call[c] EXCEPT !.rootPrevious = files[Root]]
           h == [f EXCEPT !.rootChanged = TRUE]
           b == before.files
           new == ensureManagedRootImport(files[Root])
<1>1. call[c].at = "readRoot" /\ UNCHANGED files /\ InProgress(c)
  BY DEF ReadRoot, InProgress
<1>2. /\ call[c] \in Frames /\ Aims(call[c], b, t) /\ call[c].at \notin {"idle", "returned"}
      /\ files[Root] = b[Root]
  BY <1>1, AheadFacts DEF Stands, Same
<1>3. CASE To(c, Returned("err"))
  BY <1>2, <1>3, NewFrame, BackingFrames, BackingIsAhead
<1>4. CASE /\ ~(f.op = "activate" /\ ~HasImport(files[Root]))
           /\ To(c, [f EXCEPT !.at = "readConfig"])
  <2> DEFINE g == [f EXCEPT !.at = "readConfig"]
  <2>1. /\ g.at = "readConfig" /\ g.op = call[c].op /\ g.id = call[c].id /\ g.want = call[c].want
        /\ f.op = call[c].op
    BY <1>2 DEF Frames
  <2> HIDE DEF g
  <2>2. HasImport(b[Root]) => ensureManagedRootImport(b[Root]) = b[Root]
    BY DEF HasImport, ensureManagedRootImport
  <2>3. Ahead(g, files', b, t)
    BY <1>1, <1>2, <1>4, <2>1, <2>2 DEF Ahead, Aims, Advances, Writes
  <2> QED BY <1>4, <2>3, NewFrame DEF g
<1>5. CASE f.op = "activate" /\ To(c, writeAtomically(h, Root, new, "readConfig", "fail"))
  <2> DEFINE g == writeAtomically(h, Root, new, "readConfig", "fail")
  <2>1. /\ g.at = "writeTemp" /\ g.op = call[c].op /\ g.id = call[c].id /\ g.want = call[c].want
        /\ g.ok = "readConfig" /\ g.data = new /\ f.op = call[c].op
    BY <1>2 DEF Frames, writeAtomically
  <2> HIDE DEF g
  <2>3. Ahead(g, files', b, t)
    BY <1>2, <1>5, <2>1 DEF Ahead, Aims, Advances, Writes
  <2> QED BY <1>5, <2>3, NewFrame DEF g
<1> QED BY <1>3, <1>4, <1>5 DEF ReadRoot

LEMMA ReadConfigAhead ==
    ASSUME IInv, CallStands, NEW c \in Callers, ReadConfig(c), NEW t,
           Ahead(call[c], files, before.files, t)
    PROVE  Ahead(call'[c], files', before.files, t)
<1> DEFINE f == [call[c] EXCEPT !.previous = files[call[c].id]]
           b == before.files
<1>1. call[c].at = "readConfig" /\ UNCHANGED files /\ InProgress(c)
  BY DEF ReadConfig, InProgress
<1>2. /\ call[c] \in Frames /\ Aims(call[c], b, t) /\ call[c].at \notin {"idle", "returned"}
      /\ files[call[c].id] = b[call[c].id]
      /\ call[c].op = "activate" => files[Root] = ensureManagedRootImport(b[Root])
  BY <1>1, AheadFacts DEF Stands, Same, RootDirt, Advances
<1>3. /\ f \in Frames /\ f.at = "readConfig" /\ f.op = call[c].op /\ f.id = call[c].id
      /\ f.want = call[c].want /\ f.previous = b[f.id]
  BY <1>1, <1>2, AheadFacts DEF Frames
<1>4. Aims(f, b, t)
  BY <1>1, <1>2, <1>3 DEF Aims
<1> HIDE DEF f
<1>5. CASE To(c, UndoRoot(f)) \/ (To(c, Returned("err")))
  BY <1>3, <1>4, <1>5, NewFrame, BackingFrames, BackingIsAhead
<1>6. CASE f.op = "activate" /\ To(c, writeAtomically(f, f.id, f.want, "validate", "undoRoot"))
  <2> DEFINE g == writeAtomically(f, f.id, f.want, "validate", "undoRoot")
  <2>1. /\ g.at = "writeTemp" /\ g.op = f.op /\ g.id = f.id /\ g.want = f.want
        /\ g.ok = "validate" /\ g.err = "undoRoot" /\ g.data = f.want
    BY <1>3 DEF Frames, writeAtomically
  <2> HIDE DEF g
  <2>2. Ahead(g, files', b, t)
    BY <1>1, <1>2, <1>3, <1>4, <1>6, <2>1 DEF Ahead, Aims, Advances, Writes
  <2> QED BY <1>6, <2>2, NewFrame DEF g
<1>7. CASE f.op = "remove" /\ To(c, restoreFile(f, f.id, Absent, "glob", "fail"))
  <2> DEFINE g == restoreFile(f, f.id, Absent, "glob", "fail")
  <2>1. /\ g.at = "remove" /\ g.op = f.op /\ g.id = f.id /\ g.want = f.want /\ g.ok = "glob"
    BY <1>3 DEF Frames, restoreFile
  <2> HIDE DEF g
  <2>2. Ahead(g, files', b, t)
    BY <1>3, <1>4, <1>7, <2>1 DEF Ahead, Aims, Advances, Writes
  <2> QED BY <1>7, <2>2, NewFrame DEF g
<1>8. f.op = "remove" => f.previous \notin {Absent, Foreign}
  BY <1>3, <1>4 DEF Aims
<1>9. \/ To(c, UndoRoot(f)) \/ To(c, Returned("err"))
      \/ f.op = "activate" /\ To(c, writeAtomically(f, f.id, f.want, "validate", "undoRoot"))
      \/ f.op = "remove" /\ To(c, restoreFile(f, f.id, Absent, "glob", "fail"))
  BY <1>8 DEF ReadConfig, f
<1> QED BY <1>5, <1>6, <1>7, <1>9

\* A write that is done.
LEMMA DoneAhead ==
    ASSUME NEW f \in Frames, f.id \in SiteIds, f.at \in Writes, NEW fs \in [Paths -> Anything],
           NEW b \in [Paths -> Anything], Stands(f, fs, b), NEW t, Ahead(f, fs, b, t),
           NEW new, new = [fs EXCEPT ![f.path] = f.data]
    PROVE  Ahead(Continue(f, f.ok), new, b, t)
<1>0. /\ Aims(f, b, t) /\ Advances(f, fs, b, t) /\ f.at \notin {"idle", "returned"}
      /\ f.id # Root /\ f.id \in Paths /\ Root \in Paths /\ f.path \in Paths
      /\ t = Target(f.op, f.id, f.want, b)
  BY CaddyAssumption DEF Ahead, Aims, Writes, Paths, Frames
<1>1. \A p \in Paths : new[p] = IF p = f.path THEN f.data ELSE fs[p]
  BY <1>0
<1>2. CASE f.ok \in {"undoRoot", "undone", "fail"}
  BY <1>0, <1>2, BackingFrames, BackingIsAhead
<1>3. ASSUME NEW l \in {"readConfig", "glob", "validate"}, Continue(f, f.ok) = [f EXCEPT !.at = l],
             Advances([f EXCEPT !.at = l], new, b, t)
      PROVE  Ahead(Continue(f, f.ok), new, b, t)
  <2>1. Aims([f EXCEPT !.at = l], b, t)
    BY <1>0 DEF Aims, Frames
  <2> QED BY <1>3, <2>1 DEF Ahead
<1>4. CASE AddImport(f)
  <2>1. Continue(f, f.ok) = [f EXCEPT !.at = "readConfig"]
    BY <1>4 DEF Continue, AddImport
  <2>2. new[Root] = ensureManagedRootImport(b[Root])
    BY <1>0, <1>1, <1>4 DEF Advances, AddImport
  <2>3. Advances([f EXCEPT !.at = "readConfig"], new, b, t)
    BY <2>2 DEF Advances, Writes, Frames
  <2> QED BY <1>3, <2>1, <2>3
<1>5. CASE PutConfig(f) /\ Same(fs, b, RootDirt(f))
  <2>1. Continue(f, f.ok) = [f EXCEPT !.at = "validate"]
    BY <1>5 DEF Continue, PutConfig
  <2>2. /\ f.op = "activate" /\ f.data = f.want /\ fs[Root] = ensureManagedRootImport(b[Root])
    BY <1>0, <1>5 DEF Advances, PutConfig
  <2>3. t = [b EXCEPT ![Root] = ensureManagedRootImport(b[Root]), ![f.id] = f.want]
    BY <1>0, <2>2 DEF Target
  <2>4. \A p \in Paths : new[p] = t[p]
    BY <1>0, <1>1, <1>5, <2>2, <2>3 DEF Same, RootDirt, PutConfig
  <2>5. new = t
    BY <2>3, <2>4
  <2>6. Advances([f EXCEPT !.at = "validate"], new, b, t)
    BY <2>5 DEF Advances, Writes, Frames
  <2> QED BY <1>3, <2>1, <2>6
<1>6. CASE DropConfig(f) /\ f.data = Absent
  <2>1. Continue(f, f.ok) = [f EXCEPT !.at = "glob"]
    BY <1>6 DEF Continue, DropConfig
  <2>2. new[f.id] = Absent /\ f.op = "remove"
    BY <1>0, <1>1, <1>6 DEF DropConfig, Advances
  <2>3. Advances([f EXCEPT !.at = "glob"], new, b, t)
    BY <2>2 DEF Advances, Writes, Frames
  <2> QED BY <1>3, <2>1, <2>3
<1>7. CASE DropImport(f) /\ Same(fs, b, {f.id})
  <2>1. Continue(f, f.ok) = [f EXCEPT !.at = "validate"]
    BY <1>7 DEF Continue, DropImport
  <2>2. /\ f.op = "remove" /\ fs[f.id] = Absent /\ f.data = removeManagedRootImport(b[Root])
        /\ OthersAbsent(b, f.id) /\ HasImport(b[Root])
    BY <1>0, <1>7 DEF Advances, DropImport
  <2>3. t = [b EXCEPT ![Root] = removeManagedRootImport(b[Root]), ![f.id] = Absent]
    BY <1>0, <2>2 DEF Target
  <2>4. \A p \in Paths : new[p] = t[p]
    BY <1>0, <1>1, <1>7, <2>2, <2>3 DEF Same, DropImport
  <2>5. new = t
    BY <2>3, <2>4
  <2>6. Advances([f EXCEPT !.at = "validate"], new, b, t)
    BY <2>5 DEF Advances, Writes, Frames
  <2> QED BY <1>3, <2>1, <2>6
<1>8. Forward(f, fs, b) \/ Back(f, fs, b)
  BY DEF Stands
<1> QED BY <1>2, <1>4, <1>5, <1>6, <1>7, <1>8
    DEF Forward, Back, PutBack, BackConfig, BackRoot

\* The writes.
LEMMA FailedWriteAhead ==
    ASSUME UndosWork, IInv, CallStands, NEW c \in Callers, call[c].at \in Writes, NEW kind,
           Fails(Kind(call[c], kind)), NEW t, Ahead(call[c], files, before.files, t)
    PROVE  \A fs : Ahead(Continue(call[c], call[c].err), fs, before.files, t)
<1> DEFINE f == call[c]
<1>1. Forward(f, files, before.files) /\ f \in Frames
  BY WriteFacts, UndoNeverFails
<1>2. f.err \in {"fail", "putBack", "undoRoot"}
  BY <1>1 DEF Forward, AddImport, PutConfig, DropConfig, DropImport
<1>3. Aims(f, before.files, t) /\ f.at \notin {"idle", "returned"}
  BY DEF Ahead, Writes
<1> HIDE DEF f
<1>4. \A fs : Ahead(Continue(f, f.err), fs, before.files, t)
  BY <1>1, <1>2, <1>3, BackingFrames, BackingIsAhead
<1> QED BY <1>4 DEF f

LEMMA WritesAhead ==
    ASSUME UndosWork, IInv, CallStands, NEW c \in Callers, WriteTemp(c) \/ Rename(c) \/ Remove(c),
           NEW t, Ahead(call[c], files, before.files, t)
    PROVE  Ahead(call'[c], files', before.files, t)
<1> DEFINE f == call[c]
           b == before.files
<1>1. f.at \in Writes /\ InProgress(c)
  BY DEF WriteTemp, Rename, Remove, Writes, InProgress
<1>2. /\ f \in Frames /\ f.id \in SiteIds /\ Stands(f, files, b) /\ Aims(f, b, t)
      /\ Advances(f, files, b, t) /\ files \in [Paths -> Anything] /\ b \in [Paths -> Anything]
  BY <1>1, AheadFacts
<1>3. CASE To(c, Continue(f, f.err)) /\ \E kind : Fails(Kind(f, kind))
  BY <1>1, <1>3, FailedWriteAhead, NewFrame
<1>4. CASE files' = [files EXCEPT ![f.path] = f.data] /\ To(c, Continue(f, f.ok))
  BY <1>1, <1>2, <1>4, DoneAhead, NewFrame
<1>5. CASE f.at = "writeTemp" /\ UNCHANGED files /\ To(c, [f EXCEPT !.at = "rename"])
  <2> DEFINE g == [f EXCEPT !.at = "rename"]
  <2>1. /\ g.at = "rename" /\ g.op = f.op /\ g.id = f.id /\ g.want = f.want /\ g.ok = f.ok
        /\ g.err = f.err /\ g.data = f.data
    BY <1>2 DEF Frames
  <2> HIDE DEF g
  <2>2. Ahead(g, files', b, t)
    BY <1>2, <1>5, <2>1 DEF Ahead, Aims, Advances, Writes
  <2> QED BY <1>5, <2>2, NewFrame DEF g
<1>6. CASE WriteTemp(c)
  BY <1>3, <1>5, <1>6 DEF WriteTemp
<1>7. CASE Rename(c)
  <2>1. f.at = "rename"
    BY <1>7 DEF Rename
  <2>2. temp[f.path] = f.data /\ f.data # Absent
    BY <1>2, <2>1 DEF IInv, OwnTemporary, Stands
  <2>3. ~Fails(Kind(f, "chmod"))
    BY <1>1, WriteFacts, UndoNeverFails
  <2> QED BY <1>3, <1>4, <1>7, <2>2, <2>3 DEF Rename
<1>8. CASE Remove(c)
  <2>1. f.data = Absent
    BY <1>8, FrameFacts DEF GoodFrame, Remove
  <2> QED BY <1>3, <1>4, <1>8, <2>1 DEF Remove
<1> QED BY <1>6, <1>7, <1>8

\* Glob: whether other site files are left.
LEMMA GlobAhead ==
    ASSUME IInv, CallStands, NEW c \in Callers, Glob(c), NEW t,
           Ahead(call[c], files, before.files, t)
    PROVE  Ahead(call'[c], files', before.files, t)
<1> DEFINE f == call[c]
           b == before.files
<1>1. f.at = "glob" /\ UNCHANGED files /\ InProgress(c)
  BY DEF Glob, InProgress
<1>2. /\ f \in Frames /\ f.id \in SiteIds /\ f.id \in Paths /\ f.id # Root /\ Root \in Paths
      /\ Aims(f, b, t) /\ t = Target(f.op, f.id, f.want, b)
      /\ f.op = "remove" /\ files[f.id] = Absent /\ f.rootPrevious = b[Root]
      /\ Same(files, b, {f.id}) /\ files \in [Paths -> Anything] /\ b \in [Paths -> Anything]
  BY <1>1, AheadFacts DEF Stands, Advances
<1>3. SiteFiles(files) = {} <=> OthersAbsent(b, f.id)
  BY <1>2, CaddyAssumption DEF SiteFiles, OthersAbsent, Same, Paths
<1>4. CASE /\ SiteFiles(files) = {} /\ HasImport(f.rootPrevious)
           /\ To(c, restoreFile([f EXCEPT !.rootChanged = TRUE], Root,
                       removeManagedRootImport(f.rootPrevious), "validate", "putBack"))
  <2> DEFINE d == removeManagedRootImport(f.rootPrevious)
             g == restoreFile([f EXCEPT !.rootChanged = TRUE], Root, d, "validate", "putBack")
  <2>1. /\ g.at \in {"writeTemp", "remove"} /\ g.op = f.op /\ g.id = f.id /\ g.want = f.want
        /\ g.ok = "validate" /\ g.err = "putBack" /\ g.data = d
    BY <1>2 DEF Frames, restoreFile
  <2> HIDE DEF g
  <2>2. Ahead(g, files', b, t)
    BY <1>1, <1>2, <1>3, <1>4, <2>1 DEF Ahead, Aims, Advances, Writes
  <2> QED BY <1>4, <2>2, NewFrame DEF g
<1>5. CASE /\ ~(SiteFiles(files) = {} /\ HasImport(f.rootPrevious))
           /\ To(c, [f EXCEPT !.at = "validate"])
  <2>1. t = [b EXCEPT ![Root] = b[Root], ![f.id] = Absent]
    BY <1>2, <1>3, <1>5 DEF Target
  <2>2. \A p \in Paths : files[p] = t[p]
    BY <1>2, <2>1 DEF Same
  <2>3. files' = t
    BY <1>1, <1>2, <2>1, <2>2
  <2> DEFINE g == [f EXCEPT !.at = "validate"]
  <2>4. g.at = "validate" /\ g.op = f.op /\ g.id = f.id /\ g.want = f.want
    BY <1>2 DEF Frames
  <2> HIDE DEF g
  <2>5. Ahead(g, files', b, t)
    BY <1>1, <1>2, <2>3, <2>4 DEF Ahead, Aims, Advances, Writes
  <2> QED BY <1>5, <2>5, NewFrame DEF g
<1> QED BY <1>4, <1>5 DEF Glob

LEMMA CommandAhead ==
    ASSUME IInv, CallStands, NEW c \in Callers, Validate(c) \/ Reload(c) \/ UndoReload(c), NEW t,
           Ahead(call[c], files, before.files, t)
    PROVE  Ahead(call'[c], files', before.files, t)
<1> DEFINE f == call[c]
           h == [f EXCEPT !.reloadAgain = TRUE]
           b == before.files
<1>1. f.at \in {"validate", "reload", "undoReload"} /\ UNCHANGED files /\ InProgress(c)
  BY DEF Validate, Reload, UndoReload, InProgress
<1>2. f \in Frames /\ Aims(f, b, t) /\ (f.at # "undoReload" => files = t)
  BY <1>1, AheadFacts DEF Advances
<1>3. h \in Frames /\ h.at = f.at /\ Aims(h, b, t)
  BY <1>2 DEF Aims, Frames
<1>4. CASE To(c, Returned("err")) \/ To(c, UndoConfig(f)) \/ To(c, UndoConfig(h))
  <2>1. Ahead(Returned("err"), files', b, t) /\ Ahead(UndoConfig(f), files', b, t)
    BY <1>1, <1>2, BackingFrames, BackingIsAhead
  <2> HIDE DEF h
  <2>2. Ahead(UndoConfig(h), files', b, t)
    BY <1>1, <1>3, BackingFrames, BackingIsAhead
  <2> QED BY <1>4, <2>1, <2>2, NewFrame
<1>5. CASE f.at = "validate" /\ To(c, [f EXCEPT !.at = "reload"])
  <2> DEFINE g == [f EXCEPT !.at = "reload"]
  <2>1. g.at = "reload" /\ g.op = f.op /\ g.id = f.id /\ g.want = f.want
    BY <1>2 DEF Frames
  <2> HIDE DEF g
  <2>2. Ahead(g, files', b, t)
    BY <1>1, <1>2, <1>5, <2>1 DEF Ahead, Aims, Advances, Writes
  <2> QED BY <1>5, <2>2, NewFrame DEF g
<1>6. CASE f.at = "reload" /\ To(c, Returned("ok"))
  <2>1. Ahead(Returned("ok"), files', b, t)
    BY <1>1, <1>2, <1>6 DEF Ahead, Aims, Advances, Returned, Idle, Writes
  <2> QED BY <1>6, <2>1, NewFrame
<1> QED BY <1>4, <1>5, <1>6 DEF Validate, Reload, UndoReload

LEMMA AheadStep ==
    ASSUME UndosWork, IInv, CallStands, NEW c \in Callers, Step(c), NEW t,
           Ahead(call[c], files, before.files, t)
    PROVE  Ahead(call'[c], files', before.files, t)
BY ReadRootAhead, ReadConfigAhead, WritesAhead, GlobAhead, CommandAhead DEF Step

\* When nothing can fail any more and the files it writes are valid, a call
\* takes nothing back.
Unfailing(f) ==
    /\ f.at # "undoReload"
    /\ f.at \in Writes => f.ok # f.err
    /\ f.at = "returned" => f.result = "ok"

LEMMA UnfailingStep ==
    ASSUME IInv, CallStands, NEW c \in Callers, Step(c), NEW t,
           Ahead(call[c], files, before.files, t), Unfailing(call[c]), Adapts(t),
           c \notin Cancellable, c \notin cancelled, ~(faults < MaxFaults)
    PROVE  Unfailing(call'[c]) /\ UNCHANGED faults
<1> DEFINE f == call[c]
           b == before.files
<1>0. /\ \A kind : ~Fails(kind) /\ ~CommandBreaks(c, kind)
      /\ ~CommandRefused(c)
  BY DEF Fails, CommandBreaks, CommandRefused, Cancel
<1>1. InProgress(c)
  BY DEF Step, ReadRoot, ReadConfig, WriteTemp, Rename, Remove, Glob, Validate, Reload, UndoReload,
         InProgress
<1>2. /\ f \in Frames /\ f.id \in SiteIds /\ Stands(f, files, b) /\ Aims(f, b, t)
      /\ Advances(f, files, b, t)
  BY <1>1, AheadFacts
<1>w. faults' = faults
  BY <1>0 DEF Step, ReadRoot, ReadConfig, WriteTemp, Rename, Remove, Glob, Validate, Reload,
              UndoReload, Unfailing, Works, CommandSucceeds
<1>3. CASE ReadRoot(c)
  <2> DEFINE h == [f EXCEPT !.rootPrevious = files[Root]]
             k == [h EXCEPT !.rootChanged = TRUE]
             new == ensureManagedRootImport(files[Root])
  <2>1. \/ To(c, writeAtomically(k, Root, new, "readConfig", "fail"))
        \/ To(c, [h EXCEPT !.at = "readConfig"])
    BY <1>0, <1>3 DEF ReadRoot
  <2>2. Unfailing(writeAtomically(k, Root, new, "readConfig", "fail"))
    BY <1>2 DEF Unfailing, writeAtomically, Frames
  <2>3. Unfailing([h EXCEPT !.at = "readConfig"])
    BY <1>2 DEF Unfailing, Frames, Writes
  <2> QED BY <1>w, <2>1, <2>2, <2>3, NewFrame
<1>4. CASE ReadConfig(c)
  <2> DEFINE h == [f EXCEPT !.previous = files[f.id]]
  <2>0. f.at = "readConfig"
    BY <1>4 DEF ReadConfig
  <2>1. files[f.id] = b[f.id] /\ h \in Frames /\ h.op = f.op /\ h.previous = b[f.id]
    BY <1>1, <2>0, AheadFacts DEF Stands, Same, RootDirt, Frames
  <2>2. h.op = "remove" => h.previous \notin {Absent, Foreign}
    BY <1>2, <2>0, <2>1 DEF Aims
  <2> HIDE DEF h
  <2>3. \/ To(c, writeAtomically(h, h.id, h.want, "validate", "undoRoot"))
        \/ To(c, restoreFile(h, h.id, Absent, "glob", "fail"))
    BY <1>0, <1>4, <2>2 DEF ReadConfig, h
  <2>4. /\ Unfailing(writeAtomically(h, h.id, h.want, "validate", "undoRoot"))
        /\ Unfailing(restoreFile(h, h.id, Absent, "glob", "fail"))
    BY <2>1 DEF Unfailing, writeAtomically, restoreFile, Frames
  <2> QED BY <1>w, <2>3, <2>4, NewFrame
<1>5. CASE WriteTemp(c)
  <2>1. To(c, [f EXCEPT !.at = "rename"])
    BY <1>0, <1>5 DEF WriteTemp
  <2>2. Unfailing([f EXCEPT !.at = "rename"])
    BY <1>2, <1>5 DEF Unfailing, WriteTemp, Frames, Writes
  <2> QED BY <1>w, <2>1, <2>2, NewFrame
<1>6. CASE Rename(c) \/ Remove(c)
  <2>1. f.at \in Writes /\ f.ok # f.err
    BY <1>6 DEF Rename, Remove, Writes, Unfailing
  <2>2. Forward(f, files, b)
    BY <1>2, <2>1 DEF Stands, Back, PutBack, BackConfig, BackRoot
  <2>3. f.ok \in {"readConfig", "validate", "glob"}
    BY <2>2 DEF Forward, AddImport, PutConfig, DropConfig, DropImport
  <2>4. f.at = "rename" => temp[f.path] # Absent
    BY <1>2 DEF IInv, OwnTemporary, Stands
  <2>5. To(c, Continue(f, f.ok))
    BY <1>0, <1>6, <2>4 DEF Rename, Remove
  <2>6. Unfailing(Continue(f, f.ok))
    BY <1>2, <2>3 DEF Continue, Unfailing, Writes, Frames
  <2> QED BY <1>w, <2>5, <2>6, NewFrame
<1>7. CASE Glob(c)
  <2> DEFINE g == restoreFile([f EXCEPT !.rootChanged = TRUE], Root,
                              removeManagedRootImport(f.rootPrevious), "validate", "putBack")
  <2>1. To(c, g) \/ To(c, [f EXCEPT !.at = "validate"])
    BY <1>7 DEF Glob
  <2>2. Unfailing(g) /\ Unfailing([f EXCEPT !.at = "validate"])
    BY <1>2 DEF Unfailing, restoreFile, Frames, Writes
  <2> HIDE DEF g
  <2> QED BY <1>w, <2>1, <2>2, NewFrame
<1>8. CASE Validate(c) \/ Reload(c)
  <2>1. files = t
    BY <1>2, <1>8 DEF Advances, Validate, Reload
  <2>2. To(c, [f EXCEPT !.at = "reload"]) \/ To(c, Returned("ok"))
    BY <1>0, <1>8, <2>1 DEF Validate, Reload
  <2>3. Unfailing([f EXCEPT !.at = "reload"]) /\ Unfailing(Returned("ok"))
    BY <1>2 DEF Unfailing, Frames, Writes, Returned, Idle
  <2> QED BY <1>w, <2>2, <2>3, NewFrame
<1>9. ~UndoReload(c)
  BY DEF UndoReload, Unfailing
<1> QED BY <1>3, <1>4, <1>5, <1>6, <1>7, <1>8, <1>9 DEF Step

\* The manager after a step that begins a call of r, or leaves none.
LEMMA BegunIInv ==
    ASSUME CaddyTyped', NEW r, Good(files'[Root]),
           \A c \in Callers : call'[c].at = "idle" \/ (c = r /\ call'[c].at = "readRoot")
    PROVE  IInv'
<1>1. call' \in [Callers -> Frames] /\ \A c \in Callers : TypedFrame(call'[c])
  BY DEF CaddyTyped, FramesTyped, TypedFrame
<1>2. Types'
  BY <1>1 DEF Types, CaddyTyped, FilesTyped
<1>3. GoodFrames'
  <2>1. \A c \in Callers : GoodFrame(call'[c])
    BY <1>1 DEF GoodFrame, TypedFrame
  <2> QED BY <2>1 DEF GoodFrames, GoodFrame, Good, OperatorPart
<1>4. OneAtATime' /\ OwnTemporary'
  BY DEF OneAtATime, OwnTemporary, InProgress
<1> QED BY <1>2, <1>3, <1>4 DEF IInv, Good, OperatorConfigKept

\* A call of c that begins with the files that before says it found.
LEMMA BegunStands ==
    ASSUME CaddyTyped', NEW c \in Callers, NEW g, call'[c] = g, g.at = "readRoot",
           ~g.rootChanged, ~g.reloadAgain, g.op = "activate" => g.want # Absent,
           \A d \in Callers \ {c} : call'[d].at = "idle",
           before'.by = c, before'.files = files', before'.inSync, Adapts(files'),
           live' = Served(files')
    PROVE  CallStands'
<1>1. files' \in [Paths -> Anything]
  BY DEF CaddyTyped, FilesTyped
<1>2. Stands(g, files', files')
  BY DEF Stands, Same, Writes
<1> QED BY <1>1, <1>2 DEF CallStands, InProgress, Answered
=============================================================================
