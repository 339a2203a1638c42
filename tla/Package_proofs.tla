--------------------------- MODULE Package_proofs ---------------------------
(***************************************************************************)
(* Theorems about the package, for any set of assets and any number of      *)
(* package operations, failures, interruptions and reboots: what serves is  *)
(* behind a sound socket, an uninstall leaves nothing, an abort starts the  *)
(* unit again (IInv, below), and files without the managed marker are kept. *)
(*                                                                          *)
(* Only the activation of a site and the clean-up of postrm touch the files *)
(* (FewTouchTheFiles); the one spares a foreign drop-in of the resolver,    *)
(* the other every file without the marker.                                 *)
(***************************************************************************)
EXTENDS Package, SequenceTheorems, TLAPS

AssetsTyped == assets \in [Assets -> {"none", "managed", "foreign"}]

\* The steps of dpkg, of the scripts and of the unit that leave the host files
\* alone.
LEMMA FewTouchTheFiles ==
    ASSUME [Next]_vars
    PROVE  ActivateSite \/ CleanupStep \/ UNCHANGED assets
<1>1. CASE UNCHANGED vars
  BY <1>1 DEF vars, packageVars
<1>2. CASE Operation
  BY <1>2 DEF Operation, Install, Upgrade, Configure, Deconfigure, AbortedRemove,
              Remove, Purge, Begin
<1>3. CASE ScriptStep
  <2>1. CASE DpkgStep
    BY <2>1 DEF DpkgStep
  <2>2. CASE EnableStep \/ SystemctlStep
    BY <2>2 DEF EnableStep, SystemctlStep
  <2>3. CASE AwaitStep
    BY <2>3 DEF AwaitStep
  <2>4. CASE SocketStep
    BY <2>4 DEF SocketStep
  <2> QED BY <1>3, <2>1, <2>2, <2>3, <2>4 DEF ScriptStep
<1>4. CASE PrermKilled \/ Reboot
  BY <1>4 DEF PrermKilled, Reboot
<1>5. CASE DaemonRuns \/ UnitRuns
  BY <1>5 DEF DaemonRuns, UnitRuns, packageVars
<1> QED BY <1>1, <1>2, <1>3, <1>4, <1>5 DEF Next

\* A clean-up removes one file with the marker, or none.
LEMMA CleanupTouchesManaged ==
    ASSUME AssetsTyped, CleanupStep
    PROVE  /\ AssetsTyped'
           /\ \A a \in Assets : assets[a] # "managed" => assets'[a] = assets[a]
<1>1. CASE UNCHANGED assets
  BY <1>1 DEF AssetsTyped
<1>2. CASE \E a \in Assets : remove_if_managed(a)
  BY <1>2 DEF remove_if_managed, AssetsTyped
<1> QED BY <1>1, <1>2 DEF CleanupStep

LEMMA AssetsStayTyped == AssetsTyped /\ [Next]_vars => AssetsTyped'
<1> SUFFICES ASSUME AssetsTyped, [Next]_vars PROVE AssetsTyped'
  OBVIOUS
<1>1. CASE ActivateSite
  BY <1>1 DEF ActivateSite, AssetsTyped
<1>2. CASE CleanupStep
  BY <1>2, CleanupTouchesManaged
<1>3. CASE UNCHANGED assets
  BY <1>3 DEF AssetsTyped
<1> QED BY <1>1, <1>2, <1>3, FewTouchTheFiles

\* The scripts remove no file without the marker (postrm:25-34), and the daemon
\* replaces no drop-in of the resolver that is not its own.
THEOREM ForeignFilesAlwaysKept == Spec => ForeignFilesKept
<1>1. Init => AssetsTyped
  BY DEF Init, AssetsTyped
<1>2. AssetsTyped /\ [Next]_vars =>
        [/\ \A a \in Assets : assets[a] = "foreign" => assets'[a] # "none"
         /\ assets["stub"] = "foreign" => assets'["stub"] = "foreign"]_assets
  <2> SUFFICES ASSUME AssetsTyped, [Next]_vars, assets' # assets
               PROVE  /\ \A a \in Assets : assets[a] = "foreign" => assets'[a] # "none"
                      /\ assets["stub"] = "foreign" => assets'["stub"] = "foreign"
    OBVIOUS
  <2>1. CASE ActivateSite
    BY <2>1 DEF ActivateSite, AssetsTyped
  <2>2. CASE CleanupStep
    BY <2>2, CleanupTouchesManaged, PackageAssumption
  <2> QED BY <2>1, <2>2, FewTouchTheFiles
<1> QED BY <1>1, <1>2, AssetsStayTyped, PTL DEF Spec, ForeignFilesKept

-----------------------------------------------------------------------------
(* The inductive invariant.  What dpkg has still to do is known from the    *)
(* operation and the next step (Ordered); where that step is, the package,  *)
(* the unit and the socket are as Stages says; and the process, its unit    *)
(* and the socket go together.                                              *)

Aborts == {"abort-upgrade", "abort-remove"}
Configurations == {"install", "reinstall", "upgrade", "configure"}

\* The step after s, "end" after the last one of a plan.
After(o, s) ==
    CASE s = "stop"           -> "awaitStop"
      [] s = "awaitStop"      -> IF o = "upgrade" THEN "unpackUpgrade" ELSE "disable"
      [] s = "disable"        -> IF o = "deconfigure" THEN "deconfigured"
                                 ELSE IF o = "abort-remove" THEN "ensureGroup"
                                 ELSE "deleteFiles"
      [] s = "deleteFiles"    -> "rmSocket"
      [] s = "rmSocket"       -> "rmAssets"
      [] s = "rmAssets"       -> IF o = "remove" THEN "removed"
                                 ELSE IF o = "purge" THEN "purgeState"
                                 ELSE IF o = "abort-upgrade" THEN "ensureGroup"
                                 ELSE "end"
      [] s = "purgeState"     -> "purged"
      [] s = "ensureGroup"    -> "ensureDirs"
      [] s = "ensureDirs"     -> IF o \in Aborts THEN "start" ELSE "enable"
      [] s = "enable"         -> "startOrRestart"
      [] s = "startOrRestart" -> "await"
      [] s = "start"          -> "awaitAny"
      [] s = "awaitAny"       -> IF o = "upgrade" THEN "unpackUpgrade" ELSE "fixSocket"
      [] s = "await"          -> "fixSocket"
      [] s = "fixSocket"      -> "installed"
      [] OTHER                -> "end"

Steps == {"stop", "awaitStop", "disable", "deleteFiles", "rmSocket", "rmAssets", "purgeState",
          "ensureGroup", "ensureDirs", "enable", "startOrRestart", "start", "awaitAny", "await",
          "fixSocket", "installed", "deconfigured", "removed", "purged", "unpackNew",
          "unpackUpgrade"}

Ordered(o, t) ==
    /\ t \in Seq(Steps)
    /\ \A k \in 1..Len(t) : After(o, t[k]) = IF k < Len(t) THEN t[k + 1] ELSE "end"

Now == IF todo = <<>> THEN "end" ELSE Head(todo)

\* The operations whose plans have a step.
Operations(s) ==
    CASE s = "unpackNew" -> {"install", "reinstall"}
      [] s = "unpackUpgrade" -> {"upgrade"}
      [] s \in {"stop", "awaitStop"} -> {"upgrade", "deconfigure", "abort-remove", "remove"}
      [] s = "disable" -> {"deconfigure", "abort-remove", "remove"}
      [] s = "deconfigured" -> {"deconfigure"}
      [] s \in {"deleteFiles", "removed"} -> {"remove"}
      [] s \in {"purgeState", "purged"} -> {"purge"}
      [] s \in {"rmSocket", "rmAssets"} -> {"remove", "purge", "abort-install", "abort-upgrade"}
      [] s \in {"start", "awaitAny"} -> {"upgrade"} \cup Aborts
      [] s \in {"enable", "startOrRestart", "await"} -> Configurations
      [] OTHER -> Configurations \cup Aborts

Planned == Ordered(op, todo) /\ (todo # <<>> => op \in Operations(Now))

\* A process is there just while its unit says so, and is told to stop only by
\* a unit that stops.
ProcessInUnit ==
    /\ proc # "none" <=> unit \in {"startPost", "fixSocket", "running", "stopping"}
    /\ sigterm => unit = "stopping"
    /\ proc = "saveRename" => manifest.temp = "whole"

Started == unit # "inactive" /\ (Stopping => again)
NoneManaged == \A a \in Assets : assets[a] # "managed"
Gone == {"not-installed", "config-files", "half-installed"}

\* Without its files the package has no daemon; what a removal left stays so.
GoneIsQuiet ==
    /\ pkg \in Gone => unit = "inactive" /\ ~enabled
    /\ pkg = "config-files" => socket.kind = "none" /\ NoneManaged
    /\ op \in {"remove", "purge"} /\ pkg = "not-installed" => socket.kind = "none" /\ NoneManaged

Stages ==
    /\ Now = "unpackNew" => pkg \in {"not-installed", "config-files"}
    /\ Now \in {"rmSocket", "rmAssets", "removed"} /\ op = "remove" => pkg = "half-installed"
    /\ Now \in {"rmAssets", "removed"} /\ op = "remove" => socket.kind = "none"
    /\ Now = "removed" => NoneManaged
    /\ Now # "end" /\ op = "purge" => pkg = "config-files"
    /\ Now # "end" /\ op = "abort-install" => pkg \in {"not-installed", "config-files"}
    /\ Now \notin {"end", "unpackNew", "removed"} /\ op \notin {"remove", "purge", "abort-install"} =>
          pkg \in {"unpacked", "half-configured"}
    /\ Now \in {"stop", "awaitStop", "disable", "deleteFiles"} => pkg = "half-configured"
    /\ Now \in {"disable", "deleteFiles"} => unit = "inactive"
    /\ Now = "deleteFiles" => ~enabled
    /\ Now \in {"start", "awaitAny"} /\ op = "upgrade" => "prerm" \in FaultKinds
    /\ Now = "unpackUpgrade" => unit = "inactive" \/ "prerm" \in FaultKinds
    /\ Now = "rmSocket" /\ op = "abort-upgrade" =>
          unit = "inactive" \/ {"prerm", "unpack"} \subseteq FaultKinds

\* Where the unit has been started and not stopped since.
Starts ==
    /\ op = "install" /\ Now # "end" => ~configured
    /\ op = "install" /\ Now \in {"await", "fixSocket", "installed"} => Started
    /\ op \in Aborts /\ Now \in {"awaitAny", "fixSocket", "installed"} => Started
    /\ op \in {"install"} \cup Aborts /\ pkg = "installed" => Started

\* The socket of a daemon that is past net.Listen, unless one and the same
\* upgrade may lose both its prerm and its archive.
OneUpgradeFailure == ~({"prerm", "unpack"} \subseteq FaultKinds)
SocketStages ==
    OneUpgradeFailure =>
        /\ proc \in {"chmod", "chown"} => socket.kind = "socket" /\ socket.live
        /\ proc = "chown" => socket.mode = "0660"
        /\ SocketContract

IInv == TypeOK /\ Planned /\ ProcessInUnit /\ GoneIsQuiet /\ Stages /\ Starts /\ SocketStages

-----------------------------------------------------------------------------
(* Plans.                                                                   *)

\* Two plans of an operation, one after the other.
LEMMA JoinOrdered ==
    ASSUME NEW o, NEW s \in Seq(Steps), NEW t, Ordered(o, t), s # <<>>, t # <<>>,
           \A k \in 1..Len(s) : After(o, s[k]) = IF k < Len(s) THEN s[k + 1] ELSE t[1]
    PROVE  Ordered(o, s \o t) /\ s \o t # <<>> /\ Head(s \o t) = s[1]
<1>1. t \in Seq(Steps) /\ s \o t \in Seq(Steps) /\ Len(s \o t) = Len(s) + Len(t)
  BY DEF Ordered
<1>2. Len(s) \in Nat \ {0} /\ Len(t) \in Nat \ {0}
  BY <1>1
<1>3. \A k \in 1..(Len(s) + Len(t)) :
        (s \o t)[k] = IF k <= Len(s) THEN s[k] ELSE t[k - Len(s)]
  BY <1>1
<1>4. ASSUME NEW k \in 1..Len(s \o t)
      PROVE  After(o, (s \o t)[k]) = IF k < Len(s \o t) THEN (s \o t)[k + 1] ELSE "end"
  <2>1. CASE k < Len(s)
    BY <1>1, <1>2, <1>3, <2>1
  <2>2. CASE k = Len(s)
    BY <1>1, <1>2, <1>3, <2>2
  <2>3. CASE k > Len(s)
    <3>1. k - Len(s) \in 1..Len(t)
      BY <1>1, <1>2, <2>3
    <3>2. After(o, t[k - Len(s)]) =
            IF k - Len(s) < Len(t) THEN t[k - Len(s) + 1] ELSE "end"
      BY <3>1 DEF Ordered
    <3>3. k < Len(s \o t) => (s \o t)[k + 1] = t[k - Len(s) + 1]
      BY <1>1, <1>2, <1>3, <2>3
    <3> QED BY <1>1, <1>2, <1>3, <2>3, <3>1, <3>2, <3>3
  <2> QED BY <1>2, <2>1, <2>2, <2>3
<1> QED BY <1>1, <1>2, <1>3, <1>4 DEF Ordered

\* A step that is done leaves the rest of its plan.
LEMMA AdvancePlan ==
    ASSUME Planned, Advance
    PROVE  /\ todo # <<>> /\ op' = op /\ Now = Head(todo) /\ Now \in Steps
           /\ Ordered(op', todo') /\ Now' = After(op, Now)
<1>1. todo \in Seq(Steps) /\ todo # <<>> /\ todo' = Tail(todo) /\ op' = op
  BY DEF Planned, Ordered, Advance
<1>2. Len(todo) \in Nat \ {0} /\ todo[1] = Head(todo)
  BY <1>1
<1>3. /\ todo' \in Seq(Steps) /\ Len(todo') = Len(todo) - 1
      /\ \A k \in 1..(Len(todo) - 1) : todo'[k] = todo[k + 1]
  BY <1>1
<1>4. \A k \in 1..Len(todo) :
        After(op, todo[k]) = IF k < Len(todo) THEN todo[k + 1] ELSE "end"
  BY DEF Planned, Ordered
<1>5. Ordered(op', todo')
  <2>1. ASSUME NEW k \in 1..Len(todo')
        PROVE  After(op, todo'[k]) = IF k < Len(todo') THEN todo'[k + 1] ELSE "end"
    <3>1. k \in 1..(Len(todo) - 1) /\ k + 1 \in 1..Len(todo)
      BY <1>2, <1>3
    <3>2. After(op, todo[k + 1]) = IF k + 1 < Len(todo) THEN todo[k + 2] ELSE "end"
      BY <1>2, <1>4, <3>1
    <3>3. k < Len(todo') => todo'[k + 1] = todo[k + 2]
      BY <1>2, <1>3, <3>1
    <3> QED BY <1>2, <1>3, <3>1, <3>2, <3>3
  <2> QED BY <1>1, <1>3, <2>1 DEF Ordered
<1>6. Now' = After(op, Head(todo))
  <2>1. CASE todo' = <<>>
    <3>1. Len(todo) = 1
      BY <1>2, <1>3, <2>1
    <3> QED BY <1>2, <1>4, <2>1, <3>1 DEF Now
  <2>2. CASE todo' # <<>>
    <3>1. Len(todo) > 1 /\ Head(todo') = todo'[1]
      BY <1>2, <1>3, <2>2
    <3> QED BY <1>2, <1>3, <1>4, <2>2, <3>1 DEF Now
  <2> QED BY <2>1, <2>2
<1> QED BY <1>1, <1>2, <1>5, <1>6 DEF Now

\* The plans of dpkg and their first steps.
StartsAs(o, t, s) == Ordered(o, t) /\ t # <<>> /\ Head(t) = s

LEMMA Plans ==
    /\ \A o \in Configurations : StartsAs(o, PostinstConfigure, "ensureGroup")
    /\ \A o \in {"install", "reinstall"} : StartsAs(o, <<"unpackNew">>, "unpackNew")
    /\ StartsAs("upgrade", PrermUpgrade \o <<"unpackUpgrade">>, "stop")
    /\ StartsAs("upgrade", PrermFailedUpgrade \o <<"unpackUpgrade">>, "start")
    /\ StartsAs("deconfigure", PrermRemove \o <<"deconfigured">>, "stop")
    /\ StartsAs("abort-remove", PrermRemove \o PostinstAbort, "stop")
    /\ StartsAs("remove", PrermRemove \o <<"deleteFiles">> \o Postrm \o <<"removed">>, "stop")
    /\ StartsAs("remove", Postrm \o <<"removed">>, "rmSocket")
    /\ StartsAs("purge", Postrm \o <<"purgeState", "purged">>, "rmSocket")
    /\ StartsAs("abort-install", Postrm, "rmSocket")
    /\ StartsAs("abort-upgrade", Postrm \o PostinstAbort, "rmSocket")
<1>1. \A o \in Configurations : StartsAs(o, PostinstConfigure, "ensureGroup")
  BY DEF Configurations, Aborts, StartsAs, Ordered, After, PostinstConfigure, Steps
<1>2. \A o \in {"install", "reinstall"} : StartsAs(o, <<"unpackNew">>, "unpackNew")
  BY DEF StartsAs, Ordered, After, Steps
<1>3. StartsAs("abort-install", Postrm, "rmSocket")
  BY DEF Aborts, StartsAs, Ordered, After, Postrm, Steps
<1>4. \A o \in Aborts : Ordered(o, PostinstAbort) /\ PostinstAbort # <<>>
  BY DEF Aborts, Ordered, After, PostinstAbort, Steps
<1>5. StartsAs("upgrade", PrermUpgrade \o <<"unpackUpgrade">>, "stop")
  <2>1. Ordered("upgrade", <<"unpackUpgrade">>)
    BY DEF Ordered, After, Steps
  <2>2. PrermUpgrade \in Seq(Steps) /\ PrermUpgrade[1] = "stop" /\ PrermUpgrade # <<>>
    BY DEF PrermUpgrade, Steps
  <2>3. \A k \in 1..Len(PrermUpgrade) : After("upgrade", PrermUpgrade[k]) =
           IF k < Len(PrermUpgrade) THEN PrermUpgrade[k + 1] ELSE <<"unpackUpgrade">>[1]
    BY DEF PrermUpgrade, After
  <2> QED BY <2>1, <2>2, <2>3, JoinOrdered DEF StartsAs
<1>6. StartsAs("upgrade", PrermFailedUpgrade \o <<"unpackUpgrade">>, "start")
  <2>1. Ordered("upgrade", <<"unpackUpgrade">>)
    BY DEF Ordered, After, Steps
  <2>2. /\ PrermFailedUpgrade \in Seq(Steps) /\ PrermFailedUpgrade[1] = "start"
        /\ PrermFailedUpgrade # <<>>
    BY DEF PrermFailedUpgrade, Steps
  <2>3. \A k \in 1..Len(PrermFailedUpgrade) : After("upgrade", PrermFailedUpgrade[k]) =
           IF k < Len(PrermFailedUpgrade) THEN PrermFailedUpgrade[k + 1]
           ELSE <<"unpackUpgrade">>[1]
    BY DEF PrermFailedUpgrade, After
  <2> QED BY <2>1, <2>2, <2>3, JoinOrdered DEF StartsAs
<1>7. ASSUME NEW o \in {"deconfigure", "abort-remove", "remove"}, NEW t, Ordered(o, t),
             t # <<>>, t[1] = After(o, "disable")
      PROVE  StartsAs(o, PrermRemove \o t, "stop")
  <2>1. PrermRemove \in Seq(Steps) /\ PrermRemove[1] = "stop" /\ PrermRemove # <<>>
    BY DEF PrermRemove, Steps
  <2>2. \A k \in 1..Len(PrermRemove) : After(o, PrermRemove[k]) =
           IF k < Len(PrermRemove) THEN PrermRemove[k + 1] ELSE t[1]
    BY <1>7 DEF PrermRemove, After
  <2> QED BY <1>7, <2>1, <2>2, JoinOrdered DEF StartsAs
<1>8. ASSUME NEW o \in {"remove", "purge", "abort-upgrade"}, NEW t, Ordered(o, t),
             t # <<>>, t[1] = After(o, "rmAssets")
      PROVE  StartsAs(o, Postrm \o t, "rmSocket")
  <2>1. Postrm \in Seq(Steps) /\ Postrm[1] = "rmSocket" /\ Postrm # <<>>
    BY DEF Postrm, Steps
  <2>2. \A k \in 1..Len(Postrm) : After(o, Postrm[k]) =
           IF k < Len(Postrm) THEN Postrm[k + 1] ELSE t[1]
    BY <1>8 DEF Postrm, After
  <2> QED BY <1>8, <2>1, <2>2, JoinOrdered DEF StartsAs
<1>9. StartsAs("deconfigure", PrermRemove \o <<"deconfigured">>, "stop")
  <2>1. Ordered("deconfigure", <<"deconfigured">>)
    BY DEF Ordered, After, Steps
  <2>2. <<"deconfigured">>[1] = After("deconfigure", "disable") /\ <<"deconfigured">> # <<>>
    BY DEF After
  <2> QED BY <1>7, <2>1, <2>2
<1>10. StartsAs("abort-remove", PrermRemove \o PostinstAbort, "stop")
  <2>1. PostinstAbort[1] = After("abort-remove", "disable")
    BY DEF After, PostinstAbort
  <2> QED BY <1>4, <1>7, <2>1 DEF Aborts
<1>11. StartsAs("remove", Postrm \o <<"removed">>, "rmSocket")
  <2>1. Ordered("remove", <<"removed">>)
    BY DEF Ordered, After, Steps
  <2>2. <<"removed">>[1] = After("remove", "rmAssets") /\ <<"removed">> # <<>>
    BY DEF After
  <2> QED BY <1>8, <2>1, <2>2
<1>12. StartsAs("remove", PrermRemove \o <<"deleteFiles">> \o Postrm \o <<"removed">>, "stop")
  <2> DEFINE d == <<"deleteFiles">>
             v == Postrm \o <<"removed">>
             u == d \o v
  <2>1. Ordered("remove", v) /\ v # <<>> /\ v[1] = "rmSocket"
    BY <1>11 DEF StartsAs, Ordered
  <2>2. d \in Seq(Steps) /\ d # <<>> /\ d[1] = "deleteFiles" /\ Len(d) = 1
    BY DEF Steps
  <2>3. After("remove", d[1]) = v[1]
    BY <2>1 DEF After
  <2>4. Ordered("remove", u) /\ u # <<>> /\ Head(u) = "deleteFiles"
    <3> HIDE DEF d, v
    <3> QED BY <2>1, <2>2, <2>3, JoinOrdered
  <2> HIDE DEF u
  <2>5. u[1] = After("remove", "disable")
    BY <2>4 DEF After, Ordered
  <2>6. StartsAs("remove", PrermRemove \o u, "stop")
    BY <1>7, <2>4, <2>5
  <2>7. /\ PrermRemove \in Seq(Steps) /\ Postrm \in Seq(Steps)
        /\ <<"removed">> \in Seq(Steps) /\ <<"deleteFiles">> \in Seq(Steps)
    BY DEF PrermRemove, Postrm, Steps
  <2>8. ASSUME NEW w \in Seq(Steps), NEW x \in Seq(Steps), NEW y \in Seq(Steps),
               NEW z \in Seq(Steps)
        PROVE  w \o (x \o (y \o z)) = w \o x \o y \o z
    <3> DEFINE yz == y \o z
               r == w \o x
    <3>1. yz \in Seq(Steps) /\ r \in Seq(Steps)
      OBVIOUS
    <3>2. (r \o y) \o z = r \o yz
      <4> HIDE DEF r
      <4> QED BY <3>1, ConcatAssociative
    <3>3. r \o yz = w \o (x \o yz)
      <4> HIDE DEF yz
      <4> QED BY <3>1, ConcatAssociative
    <3> QED BY <3>2, <3>3
  <2>9. PrermRemove \o u = PrermRemove \o <<"deleteFiles">> \o Postrm \o <<"removed">>
    BY <2>7, <2>8 DEF u
  <2> QED BY <2>6, <2>9
<1>13. StartsAs("purge", Postrm \o <<"purgeState", "purged">>, "rmSocket")
  <2>1. Ordered("purge", <<"purgeState", "purged">>)
    BY DEF Ordered, After, Steps
  <2>2. <<"purgeState", "purged">>[1] = After("purge", "rmAssets")
        /\ <<"purgeState", "purged">> # <<>>
    BY DEF After
  <2> QED BY <1>8, <2>1, <2>2
<1>14. StartsAs("abort-upgrade", Postrm \o PostinstAbort, "rmSocket")
  <2>1. PostinstAbort[1] = After("abort-upgrade", "rmAssets")
    BY DEF After, PostinstAbort
  <2> QED BY <1>4, <1>8, <2>1 DEF Aborts
<1> QED BY <1>1, <1>2, <1>3, <1>5, <1>6, <1>9, <1>10, <1>11, <1>12, <1>13, <1>14

-----------------------------------------------------------------------------
(* The daemon and its unit.                                                 *)

\* What a step of the process or of the unit has to keep.
UnitInv == DaemonTypeOK /\ ProcessInUnit /\ SocketStages
Kept == UnitInv' /\ (Started => Started')

LEMMA FaultsTyped ==
    ASSUME DaemonTypeOK, Works \/ \E kind : Fails(kind)
    PROVE  faults' \in 0..MaxFaults
BY DaemonAssumption DEF DaemonTypeOK, Works, Fails

LEMMA SocketsTyped ==
    /\ NoSocket \in Sockets /\ Bound \in Sockets /\ Ready \in Sockets
    /\ \A s \in Sockets : /\ Dead(s) \in Sockets
                          /\ [s EXCEPT !.mode = "0660"] \in Sockets
                          /\ [s EXCEPT !.owner = "lara-nux"] \in Sockets
                          /\ [s EXCEPT !.mode = "0660", !.owner = "lara-nux"] \in Sockets
    /\ RegularFile \in Sockets /\ Dead(Ready) \in Sockets /\ NoSocket.kind = "none"
BY DEF NoSocket, RegularFile, Bound, Ready, Dead, Sockets

LEMMA SocketsEqual ==
    ASSUME NEW r \in Sockets, NEW s \in Sockets,
           r.kind = s.kind, r.live = s.live, r.mode = s.mode, r.owner = s.owner
    PROVE  r = s
BY DEF Sockets

\* The process ends.
LEMMA ExitKept ==
    ASSUME UnitInv, proc # "none", NEW failure \in BOOLEAN, NEW sock \in Sockets,
           Exit(failure, sock), failure \/ unit = "stopping",
           faults' \in 0..MaxFaults,
           manifest' \in [file : {"none", "whole"}, temp : {"none", "part", "whole"}]
    PROVE  Kept
<1>1. /\ proc' = "none" /\ sigterm' = FALSE /\ socket' = sock /\ unit' = "stopPost"
      /\ again' = (IF Stopping THEN again ELSE failure) /\ UNCHANGED <<group, dirs>>
  BY DEF Exit
<1>2. again' \in BOOLEAN /\ (Started => again')
  BY <1>1 DEF UnitInv, DaemonTypeOK, Started, Stopping
<1>3. DaemonTypeOK'
  BY <1>1, <1>2 DEF UnitInv, DaemonTypeOK, Units, Procs
<1>4. ProcessInUnit' /\ SocketStages'
  BY <1>1 DEF ProcessInUnit, SocketStages, SocketContract
<1> QED BY <1>1, <1>2, <1>3, <1>4 DEF Kept, UnitInv, Started, Stopping

\* The process goes on.
LEMMA GoesKept ==
    ASSUME UnitInv, proc # "none", NEW to \in Procs \ {"none"}, Goes(to),
           dirs' \subseteq Dirs, socket' \in Sockets, SocketStages',
           faults' \in 0..MaxFaults, to = "saveRename" => manifest'.temp = "whole",
           manifest' \in [file : {"none", "whole"}, temp : {"none", "part", "whole"}]
    PROVE  Kept
<1>1. proc' = to /\ UNCHANGED <<unit, again, sigterm, group>>
  BY DEF Goes
<1>2. DaemonTypeOK'
  BY <1>1 DEF UnitInv, DaemonTypeOK
<1>3. ProcessInUnit'
  BY <1>1 DEF UnitInv, ProcessInUnit
<1> QED BY <1>1, <1>2, <1>3 DEF Kept, UnitInv, Started, Stopping

\* The steps of main before the socket.
LEMMA EarlySteps ==
    ASSUME UnitInv, Boot \/ Preflight \/ PrepareFilesystem \/ SaveTemp \/ SaveRename
    PROVE  Kept
<1> DEFINE M == [file : {"none", "whole"}, temp : {"none", "part", "whole"}]
<1>1. /\ proc \in {"boot", "preflight", "prepare", "saveTemp", "saveRename"}
      /\ faults' \in 0..MaxFaults
  BY FaultsTyped DEF UnitInv, Boot, Preflight, PrepareFilesystem, SaveTemp, SaveRename
<1>2. socket \in Sockets /\ manifest \in M /\ dirs \subseteq Dirs
  BY DEF UnitInv, DaemonTypeOK
<1>3. /\ manifest' \in M
      /\ proc' = "saveRename" => manifest'.temp = "whole" \/ proc = "saveRename"
  <2>1. CASE Boot \/ Preflight \/ PrepareFilesystem
    <3>1. UNCHANGED manifest
      BY <2>1 DEF Boot, Preflight, PrepareFilesystem
    <3>2. proc' \in {"none", "preflight", "prepare", "saveTemp"}
      BY <2>1 DEF Boot, Preflight, PrepareFilesystem, Goes, ExitEarly, Exit
    <3> QED BY <1>2, <3>1, <3>2
  <2>2. CASE SaveTemp
    BY <1>2, <2>2 DEF SaveTemp, Goes, ExitEarly, Exit
  <2>3. CASE SaveRename
    <3>1. proc' # "saveRename" \/ proc = "saveRename"
      BY <2>3 DEF SaveRename
    <3>2. manifest.temp = "whole"
      BY <2>3 DEF SaveRename, UnitInv, ProcessInUnit
    <3>3. manifest' \in {manifest, [file |-> "whole", temp |-> "none"]}
      BY <2>3, <3>2 DEF SaveRename
    <3> QED BY <1>2, <3>1, <3>3
  <2> QED BY <2>1, <2>2, <2>3
<1>4. CASE ExitEarly
  BY <1>1, <1>2, <1>3, <1>4, ExitKept DEF ExitEarly
<1>5. CASE ~ExitEarly
  <2>1. PICK to \in {"preflight", "prepare", "saveTemp", "saveRename", "lstat"} :
          Goes(to) /\ UNCHANGED socket /\ dirs' \subseteq Dirs /\ to # proc
    BY <1>1, <1>2, <1>5 DEF Boot, Preflight, PrepareFilesystem, SaveTemp, SaveRename
  <2>2. SocketStages'
    BY <1>1, <2>1 DEF UnitInv, SocketStages, SocketContract, Goes
  <2>3. to = "saveRename" => manifest'.temp = "whole"
    BY <1>3, <2>1 DEF Goes
  <2> QED BY <1>1, <1>2, <1>3, <2>1, <2>2, <2>3, GoesKept DEF Procs
<1> QED BY <1>4, <1>5

\* bindUnixSocket, and the service.
LEMMA LstatStep == ASSUME UnitInv, Lstat PROVE Kept
<1>1. proc = "lstat" /\ UNCHANGED manifest /\ faults' \in 0..MaxFaults
  BY FaultsTyped DEF UnitInv, Lstat
<1>2. /\ socket \in Sockets /\ dirs \subseteq Dirs
      /\ manifest' \in [file : {"none", "whole"}, temp : {"none", "part", "whole"}]
  BY <1>1 DEF UnitInv, DaemonTypeOK
<1>3. CASE ExitEarly
  BY <1>1, <1>2, <1>3, ExitKept DEF ExitEarly
<1>4. CASE Goes("listen") /\ socket' \in {socket, NoSocket} /\ UNCHANGED dirs
  <2>1. SocketStages'
    BY <1>4 DEF SocketStages, SocketContract, Goes
  <2> QED BY <1>1, <1>2, <1>4, <2>1, SocketsTyped, GoesKept DEF Procs
<1> QED BY <1>3, <1>4 DEF Lstat

LEMMA ListenStep == ASSUME UnitInv, Listen PROVE Kept
<1>1. proc = "listen" /\ UNCHANGED manifest /\ faults' \in 0..MaxFaults
  BY FaultsTyped DEF UnitInv, Listen
<1>2. /\ socket \in Sockets /\ dirs \subseteq Dirs
      /\ manifest' \in [file : {"none", "whole"}, temp : {"none", "part", "whole"}]
  BY <1>1 DEF UnitInv, DaemonTypeOK
<1>3. CASE ExitEarly
  BY <1>1, <1>2, <1>3, ExitKept DEF ExitEarly
<1>4. CASE Goes("chmod") /\ socket' = Bound /\ UNCHANGED dirs
  <2>1. SocketStages'
    BY <1>4 DEF SocketStages, SocketContract, Goes, Bound
  <2> QED BY <1>1, <1>2, <1>4, <2>1, SocketsTyped, GoesKept DEF Procs
<1> QED BY <1>3, <1>4 DEF Listen

LEMMA ChmodStep == ASSUME UnitInv, Chmod PROVE Kept
<1>1. proc = "chmod" /\ UNCHANGED manifest /\ faults' \in 0..MaxFaults
  BY FaultsTyped DEF UnitInv, Chmod
<1>2. /\ socket \in Sockets /\ dirs \subseteq Dirs
      /\ manifest' \in [file : {"none", "whole"}, temp : {"none", "part", "whole"}]
  BY <1>1 DEF UnitInv, DaemonTypeOK
<1>3. CASE ExitClosed
  BY <1>1, <1>2, <1>3, SocketsTyped, ExitKept DEF ExitClosed
<1>4. CASE Goes("chown") /\ socket' = [socket EXCEPT !.mode = "0660"] /\ UNCHANGED dirs
  <2>1. OneUpgradeFailure => /\ socket'.kind = "socket" /\ socket'.live
                             /\ socket'.mode = "0660"
    BY <1>1, <1>2, <1>4 DEF UnitInv, SocketStages, Sockets
  <2>2. SocketStages'
    BY <1>4, <2>1 DEF SocketStages, SocketContract, Goes
  <2> QED BY <1>1, <1>2, <1>4, <2>2, SocketsTyped, GoesKept DEF Procs
<1> QED BY <1>3, <1>4 DEF Chmod

LEMMA ChownStep == ASSUME UnitInv, Chown PROVE Kept
<1>1. proc = "chown" /\ UNCHANGED manifest /\ faults' \in 0..MaxFaults
  BY FaultsTyped DEF UnitInv, Chown
<1>2. /\ socket \in Sockets /\ dirs \subseteq Dirs
      /\ manifest' \in [file : {"none", "whole"}, temp : {"none", "part", "whole"}]
  BY <1>1 DEF UnitInv, DaemonTypeOK
<1>3. CASE ExitClosed
  BY <1>1, <1>2, <1>3, SocketsTyped, ExitKept DEF ExitClosed
<1>4. CASE Goes("serving") /\ socket' = [socket EXCEPT !.owner = "lara-nux"] /\ UNCHANGED dirs
  <2>1. OneUpgradeFailure => socket' = Ready
    <3> SUFFICES ASSUME OneUpgradeFailure PROVE socket' = Ready
      OBVIOUS
    <3>1. socket.kind = "socket" /\ socket.live = TRUE /\ socket.mode = "0660"
      BY <1>1, <1>2 DEF UnitInv, SocketStages, Sockets
    <3>2. /\ socket' \in Sockets /\ socket'.kind = "socket" /\ socket'.live = TRUE
          /\ socket'.mode = "0660" /\ socket'.owner = "lara-nux"
      <4>1. socket' \in Sockets
        BY <1>2, <1>4, SocketsTyped
      <4>2. /\ socket'.kind = socket.kind /\ socket'.live = socket.live
            /\ socket'.mode = socket.mode /\ socket'.owner = "lara-nux"
        BY <1>2, <1>4 DEF Sockets
      <4> QED BY <3>1, <4>1, <4>2
    <3>3. /\ Ready \in Sockets /\ Ready.kind = "socket" /\ Ready.live = TRUE
          /\ Ready.mode = "0660" /\ Ready.owner = "lara-nux"
      BY SocketsTyped DEF Ready, Bound
    <3> QED BY <3>2, <3>3, SocketsEqual
  <2>2. SocketStages'
    BY <1>4, <2>1 DEF SocketStages, SocketContract, Goes
  <2> QED BY <1>1, <1>2, <1>4, <2>2, SocketsTyped, GoesKept DEF Procs
<1> QED BY <1>3, <1>4 DEF Chown

LEMMA EndSteps == ASSUME UnitInv, Serving \/ Die PROVE Kept
<1>1. proc # "none" /\ faults' \in 0..MaxFaults
  BY FaultsTyped DEF UnitInv, Serving, Die
<1>2. /\ NoSocket \in Sockets /\ Dead(socket) \in Sockets
      /\ manifest' \in [file : {"none", "whole"}, temp : {"none", "part", "whole"}]
  BY SocketsTyped DEF UnitInv, DaemonTypeOK, Serving, Die
<1>3. CASE Exit(TRUE, Dead(socket))
  BY <1>1, <1>2, <1>3, ExitKept
<1>4. CASE sigterm /\ Exit(FALSE, NoSocket)
  <2>1. unit = "stopping"
    BY <1>4 DEF UnitInv, ProcessInUnit
  <2> QED BY <1>1, <1>2, <1>4, <2>1, ExitKept
<1> QED BY <1>3, <1>4 DEF Serving, Die

\* The unit.
LEMMA UnitSteps == ASSUME UnitInv, UnitStep PROVE Kept
<1>1. faults' \in 0..MaxFaults
  BY FaultsTyped DEF UnitInv, DaemonTypeOK, UnitStep, StartPre, StartPost, FixSocket, StopPost,
     RestartTimer
<1>2. CASE StartPre
  <2>1. DaemonTypeOK' /\ ProcessInUnit'
    BY <1>1, <1>2 DEF UnitInv, DaemonTypeOK, ProcessInUnit, StartPre, Units, Procs
  <2>2. SocketStages'
    BY <1>2 DEF UnitInv, SocketStages, SocketContract, StartPre
  <2> QED BY <1>2, <2>1, <2>2 DEF Kept, UnitInv, Started, Stopping, StartPre
<1>3. CASE StartPost \/ RestartTimer
  <2>1. DaemonTypeOK' /\ ProcessInUnit'
    BY <1>1, <1>3 DEF UnitInv, DaemonTypeOK, ProcessInUnit, StartPost, RestartTimer, Units
  <2>2. SocketStages'
    BY <1>3 DEF UnitInv, SocketStages, SocketContract, StartPost, RestartTimer
  <2> QED BY <1>3, <2>1, <2>2 DEF Kept, UnitInv, Started, Stopping, StartPost, RestartTimer
<1>4. CASE FixSocket
  <2>1. socket \in Sockets /\ socket' \in Sockets
    BY <1>4, SocketsTyped DEF UnitInv, DaemonTypeOK, FixSocket
  <2>2. DaemonTypeOK' /\ ProcessInUnit'
    <3>1. /\ unit = "fixSocket" /\ unit' \in {"running", "stopping"} /\ again' \in {again, TRUE}
          /\ sigterm' = sigterm \/ (sigterm' = TRUE /\ unit' = "stopping")
          /\ UNCHANGED <<proc, manifest, group, dirs, faults>>
      BY <1>4 DEF FixSocket
    <3>2. DaemonTypeOK'
      BY <1>1, <2>1, <3>1 DEF UnitInv, DaemonTypeOK, Units
    <3> QED BY <3>1, <3>2 DEF UnitInv, ProcessInUnit
  <2>3. SocketStages'
    <3>1. CASE UNCHANGED socket
      BY <1>4, <3>1 DEF UnitInv, SocketStages, SocketContract, FixSocket
    <3>2. CASE socket' = [socket EXCEPT !.mode = "0660", !.owner = "lara-nux"]
      <4>1. /\ socket'.kind = socket.kind /\ socket'.live = socket.live
            /\ socket'.mode = "0660" /\ (socket = Ready => socket' = Ready)
        BY <2>1, <3>2 DEF Sockets, Ready, Bound
      <4> QED BY <1>4, <4>1 DEF UnitInv, SocketStages, SocketContract, FixSocket
    <3> QED BY <1>4, <3>1, <3>2 DEF FixSocket
  <2> QED BY <1>4, <2>2, <2>3 DEF Kept, UnitInv, Started, Stopping, FixSocket
<1>5. CASE StopPost
  <2>1. DaemonTypeOK' /\ ProcessInUnit'
    BY <1>1, <1>5, SocketsTyped DEF UnitInv, DaemonTypeOK, ProcessInUnit, StopPost, Units
  <2>2. SocketStages'
    BY <1>5 DEF UnitInv, ProcessInUnit, SocketStages, SocketContract, StopPost
  <2> QED BY <1>5, <2>1, <2>2 DEF Kept, UnitInv, Started, Stopping, StopPost
<1> QED BY <1>2, <1>3, <1>4, <1>5 DEF UnitStep

\* A step of the process or the unit, which only a unit that is not inactive
\* takes, keeps the invariant.
LEMMA DaemonKeeps ==
    ASSUME IInv, DaemonStep \/ Die \/ UnitStep, UNCHANGED packageVars
    PROVE  IInv'
<1>1. UnitInv
  BY DEF IInv, UnitInv, TypeOK
<1>2. Kept
  BY <1>1, EarlySteps, LstatStep, ListenStep, ChmodStep, ChownStep, EndSteps, UnitSteps
     DEF DaemonStep
<1>3. unit # "inactive"
  <2>1. DaemonStep \/ Die => proc # "none"
    BY DEF DaemonStep, Die, Boot, Preflight, PrepareFilesystem, SaveTemp, SaveRename, Lstat,
       Listen, Chmod, Chown, Serving
  <2>2. UnitStep => unit # "inactive"
    BY DEF UnitStep, StartPre, StartPost, FixSocket, StopPost, RestartTimer
  <2> QED BY <1>1, <2>1, <2>2 DEF UnitInv, ProcessInUnit
<1>4. /\ UNCHANGED <<pkg, configured, enabled, todo, op, ops, assets, registered, members>>
      /\ Now' = Now
  BY DEF packageVars, Now
<1>5. TypeOK' /\ Planned'
  BY <1>2, <1>4 DEF IInv, TypeOK, Planned, Kept, UnitInv
<1>6. pkg \notin Gone
  BY <1>3 DEF IInv, GoneIsQuiet
<1>7. GoneIsQuiet'
  BY <1>4, <1>6 DEF GoneIsQuiet, Gone
<1>8. Stages'
  BY <1>3, <1>4, <1>6 DEF IInv, Stages, Gone, NoneManaged
<1>9. Starts'
  BY <1>2, <1>4 DEF IInv, Starts, Kept
<1> QED BY <1>2, <1>5, <1>7, <1>8, <1>9 DEF IInv, Kept, UnitInv

-----------------------------------------------------------------------------
(* dpkg and the scripts.                                                    *)

\* The next step and its operation; a step that is done.
LEMMA AtStep ==
    ASSUME IInv, NEW s, At(s)
    PROVE  todo # <<>> /\ Now = s /\ op \in Operations(s)
BY DEF IInv, Planned, At, Now

LEMMA AfterInPlan ==
    ASSUME NEW s \in Steps, NEW o \in Operations(s), After(o, s) # "end"
    PROVE  o \in Operations(After(o, s))
<1>1. CASE s \in {"stop", "awaitStop"}
  BY <1>1 DEF After, Operations
<1>2. CASE s \in {"disable", "deleteFiles"}
  BY <1>2 DEF After, Operations, Aborts
<1>3. CASE s \in {"rmSocket", "rmAssets", "purgeState"}
  BY <1>3 DEF After, Operations, Aborts
<1>4. CASE s \in {"ensureGroup", "ensureDirs"}
  BY <1>4 DEF After, Operations, Configurations, Aborts
<1>5. CASE s \in {"enable", "startOrRestart", "await", "fixSocket"}
  BY <1>5 DEF After, Operations
<1>6. CASE s \in {"start", "awaitAny"}
  BY <1>6 DEF After, Operations
<1>7. CASE s \in {"installed", "deconfigured", "removed", "purged", "unpackNew", "unpackUpgrade"}
  BY <1>7 DEF After
<1> QED BY <1>1, <1>2, <1>3, <1>4, <1>5, <1>6, <1>7 DEF Steps

LEMMA AdvanceKeeps ==
    ASSUME IInv, Advance
    PROVE  Planned' /\ Now' = After(op, Now) /\ op' = op /\ todo # <<>>
<1>1. Planned
  BY DEF IInv
<1>2. /\ todo # <<>> /\ op' = op /\ Now = Head(todo) /\ Now \in Steps
      /\ Ordered(op', todo') /\ Now' = After(op, Now)
  BY <1>1, AdvancePlan
<1>3. todo' # <<>> => Now' # "end"
  <2> SUFFICES ASSUME todo' # <<>> PROVE Now' # "end"
    OBVIOUS
  <2>1. Head(todo') \in Steps
    BY <1>2 DEF Ordered
  <2> QED BY <2>1 DEF Now, Steps
<1>4. todo' # <<>> => op' \in Operations(Now')
  BY <1>1, <1>2, <1>3, AfterInPlan DEF Planned
<1> QED BY <1>2, <1>4 DEF Planned

\* A plan that begins.
LEMMA PlanBegins ==
    ASSUME NEW o, NEW t, NEW s, StartsAs(o, t, s), o \in Operations(s), op' = o, todo' = t
    PROVE  Planned' /\ Now' = s
BY DEF StartsAs, Planned, Now

\* Nothing is planned any more.
LEMMA PlanEnds ==
    ASSUME todo' = <<>>
    PROVE  Planned' /\ Now' = "end"
BY DEF Planned, Ordered, Now

\* The daemon is left alone.
LEMMA DaemonAlone ==
    ASSUME IInv, UNCHANGED <<unit, again, proc, sigterm, socket>>,
           proc = "saveRename" => UNCHANGED manifest
    PROVE  ProcessInUnit' /\ SocketStages' /\ (Started => Started')
BY DEF IInv, ProcessInUnit, SocketStages, SocketContract, Started, Stopping

\* The operations.
LEMMA OperationKeeps == ASSUME IInv, Operation PROVE IInv'
<1>1. /\ todo = <<>> /\ Now = "end" /\ UNCHANGED daemonVars
      /\ UNCHANGED <<configured, enabled, assets, registered, members>>
      /\ ops < MaxOps /\ ops' = ops + 1
  BY DEF Operation, Install, Upgrade, Configure, Deconfigure, AbortedRemove, Remove, Purge,
         Begin, Now
<1>2. UNCHANGED <<unit, again, proc, sigterm, socket, manifest, group, dirs, faults>>
  BY <1>1 DEF daemonVars
<1>3. ProcessInUnit' /\ SocketStages'
  BY <1>2, DaemonAlone
<1>4. ops' \in 0..MaxOps
  BY <1>1, PackageAssumption DEF IInv, TypeOK
<1>5. pkg' \in Packages => TypeOK'
  BY <1>1, <1>2, <1>4 DEF IInv, TypeOK, DaemonTypeOK
<1>6. CASE Install
  <2>1. PICK o \in {"install", "reinstall"} :
          op' = o /\ todo' = <<"unpackNew">> /\ (o = "install" => ~configured)
    BY <1>6 DEF Install, Begin
  <2>2. Planned' /\ Now' = "unpackNew"
    <3>1. StartsAs(o, <<"unpackNew">>, "unpackNew") /\ o \in Operations("unpackNew")
      BY Plans DEF Operations
    <3> QED BY <2>1, <3>1, PlanBegins
  <2>3. pkg \in {"not-installed", "config-files"} /\ UNCHANGED pkg
    BY <1>6 DEF Install
  <2>4. GoneIsQuiet' /\ Stages' /\ Starts'
    BY <1>1, <1>2, <2>1, <2>2, <2>3 DEF IInv, GoneIsQuiet, NoneManaged, Stages, Starts, Aborts
  <2> QED BY <1>3, <1>5, <2>2, <2>3, <2>4 DEF IInv, Packages
<1>7. CASE Upgrade \/ Deconfigure \/ AbortedRemove
           \/ (Remove /\ pkg \in {"installed", "half-configured"})
  <2>1. pkg' = "half-configured"
    BY <1>7 DEF Upgrade, Deconfigure, AbortedRemove, Remove
  <2>2. Planned' /\ Now' = "stop" /\ op' \notin {"install", "purge", "abort-install"}
    <3>1. \/ op' = "upgrade" /\ todo' = PrermUpgrade \o <<"unpackUpgrade">>
          \/ op' = "deconfigure" /\ todo' = PrermRemove \o <<"deconfigured">>
          \/ op' = "abort-remove" /\ todo' = PrermRemove \o PostinstAbort
          \/ /\ op' = "remove"
             /\ todo' = PrermRemove \o <<"deleteFiles">> \o Postrm \o <<"removed">>
      BY <1>7 DEF Upgrade, Deconfigure, AbortedRemove, Remove, Begin
    <3>2. StartsAs(op', todo', "stop") /\ op' \in Operations("stop")
      BY <3>1, Plans DEF Operations
    <3> QED BY <3>1, <3>2, PlanBegins
  <2>3. GoneIsQuiet' /\ Stages' /\ Starts'
    BY <2>1, <2>2 DEF GoneIsQuiet, Gone, Stages, Starts
  <2> QED BY <1>3, <1>5, <2>1, <2>2, <2>3 DEF IInv, Packages
<1>8. CASE Configure
  <2>1. pkg \in {"unpacked", "half-configured"} /\ UNCHANGED pkg /\ op' = "configure"
    BY <1>8 DEF Configure, Begin
  <2>2. Planned' /\ Now' = "ensureGroup"
    <3>1. StartsAs("configure", PostinstConfigure, "ensureGroup")
          /\ "configure" \in Operations("ensureGroup")
      BY Plans DEF Operations, Configurations
    <3> QED BY <1>8, <3>1, PlanBegins DEF Configure, Begin
  <2>3. GoneIsQuiet' /\ Stages' /\ Starts'
    BY <2>1, <2>2 DEF GoneIsQuiet, Gone, Stages, Starts, Aborts
  <2> QED BY <1>3, <1>5, <2>1, <2>2, <2>3 DEF IInv, Packages
<1>9. CASE (Remove /\ pkg = "half-installed") \/ Purge
  <2>1. /\ pkg \in {"half-installed", "config-files"} /\ UNCHANGED pkg
        /\ \/ op' = "remove" /\ todo' = Postrm \o <<"removed">> /\ pkg = "half-installed"
           \/ /\ op' = "purge" /\ todo' = Postrm \o <<"purgeState", "purged">>
              /\ pkg = "config-files"
    BY <1>9 DEF Remove, Purge, Begin
  <2>2. Planned' /\ Now' = "rmSocket"
    <3>1. StartsAs(op', todo', "rmSocket") /\ op' \in Operations("rmSocket")
      BY <2>1, Plans DEF Operations
    <3> QED BY <3>1, PlanBegins
  <2>3. GoneIsQuiet' /\ Stages' /\ Starts'
    <3>1. GoneIsQuiet'
      BY <1>1, <1>2, <2>1 DEF IInv, GoneIsQuiet, Gone, NoneManaged
    <3>2. Stages'
      BY <2>1, <2>2 DEF Stages
    <3>3. Starts'
      BY <2>1, <2>2 DEF Starts, Aborts
    <3> QED BY <3>1, <3>2, <3>3
  <2> QED BY <1>3, <1>5, <2>1, <2>2, <2>3 DEF IInv, Packages
<1> QED BY <1>6, <1>7, <1>8, <1>9 DEF Operation, Remove

\* dpkg unpacks the archive, or cannot.
LEMMA UnpackKeeps ==
    ASSUME IInv, Unpack,
           UNCHANGED <<unit, again, proc, sigterm, socket, manifest, group, dirs,
                       configured, enabled, ops, assets, registered, members>>
    PROVE  IInv'
<1>1. ProcessInUnit' /\ SocketStages'
  BY DaemonAlone
<1>2. faults' \in 0..MaxFaults
  BY FaultsTyped DEF IInv, TypeOK, Unpack
<1>3. pkg' \in Packages => TypeOK'
  BY <1>2 DEF IInv, TypeOK, DaemonTypeOK
<1>4. CASE /\ At("unpackNew") \/ At("unpackUpgrade")
           /\ pkg' = "unpacked" /\ todo' = PostinstConfigure /\ UNCHANGED op
  <2>1. op \in Configurations /\ todo # <<>> /\ Now # "end"
    BY <1>4, AtStep DEF Operations, Configurations
  <2>2. Planned' /\ Now' = "ensureGroup"
    <3>1. StartsAs(op, PostinstConfigure, "ensureGroup") /\ op \in Operations("ensureGroup")
      BY <2>1, Plans DEF Operations
    <3> QED BY <1>4, <3>1, PlanBegins
  <2>3. GoneIsQuiet' /\ Stages' /\ Starts'
    BY <1>4, <2>1, <2>2 DEF IInv, GoneIsQuiet, Gone, Stages, Starts, Configurations, Aborts
  <2> QED BY <1>1, <1>3, <1>4, <2>2, <2>3 DEF IInv, Packages
<1>5. CASE /\ At("unpackNew") /\ op' = "abort-install" /\ todo' = Postrm /\ UNCHANGED pkg
  <2>1. Now = "unpackNew" /\ pkg \in {"not-installed", "config-files"}
    BY <1>5, AtStep DEF IInv, Stages
  <2>2. Planned' /\ Now' = "rmSocket"
    BY <1>5, Plans, PlanBegins DEF Operations
  <2>3. GoneIsQuiet' /\ Stages' /\ Starts'
    <3>1. GoneIsQuiet'
      BY <1>5, <2>1 DEF IInv, GoneIsQuiet, NoneManaged
    <3>2. Stages' /\ Starts'
      BY <1>5, <2>1, <2>2 DEF Stages, Starts, Aborts
    <3> QED BY <3>1, <3>2
  <2> QED BY <1>1, <1>3, <1>5, <2>1, <2>2, <2>3 DEF IInv, Packages
<1>6. CASE /\ At("unpackUpgrade") /\ Fails("unpack")
           /\ op' = "abort-upgrade" /\ todo' = Postrm \o PostinstAbort /\ UNCHANGED pkg
  <2>1. /\ Now = "unpackUpgrade" /\ op = "upgrade" /\ pkg \in {"unpacked", "half-configured"}
        /\ unit = "inactive" \/ {"prerm", "unpack"} \subseteq FaultKinds
    BY <1>6, AtStep DEF IInv, Stages, Operations, Fails
  <2>2. Planned' /\ Now' = "rmSocket"
    BY <1>6, Plans, PlanBegins DEF Operations
  <2>3. GoneIsQuiet' /\ Stages' /\ Starts'
    BY <1>6, <2>1, <2>2 DEF GoneIsQuiet, Gone, Stages, Starts, Aborts
  <2> QED BY <1>1, <1>3, <1>6, <2>1, <2>2, <2>3 DEF IInv, Packages
<1> QED BY <1>4, <1>5, <1>6 DEF Unpack

\* A script fails; the old prerm is killed.
LEMMA BrokenKeeps ==
    ASSUME IInv, Broken, todo # <<>>, op \in Configurations \cup Aborts,
           faults' \in 0..MaxFaults,
           UNCHANGED <<unit, again, proc, sigterm, socket, manifest, group, dirs,
                       configured, enabled, ops, assets, registered, members>>
    PROVE  IInv'
<1>1. ProcessInUnit' /\ SocketStages'
  BY DaemonAlone
<1>2. Planned' /\ Now' = "end" /\ pkg' = "half-configured" /\ op' = op
  BY PlanEnds DEF Broken
<1>3. TypeOK'
  BY <1>2 DEF IInv, TypeOK, DaemonTypeOK, Packages
<1>4. GoneIsQuiet' /\ Stages' /\ Starts'
  BY <1>2 DEF GoneIsQuiet, Gone, Stages, Starts
<1> QED BY <1>1, <1>2, <1>3, <1>4 DEF IInv

LEMMA PrermKilledKeeps == ASSUME IInv, PrermKilled PROVE IInv'
<1>1. /\ op = "upgrade" /\ op' = "upgrade" /\ "prerm" \in FaultKinds /\ UNCHANGED pkg
      /\ todo' = PrermFailedUpgrade \o <<"unpackUpgrade">>
      /\ UNCHANGED <<unit, again, proc, sigterm, socket, manifest, group, dirs,
                     configured, enabled, ops, assets, registered, members>>
  BY DEF PrermKilled, Fails
<1>2. ProcessInUnit' /\ SocketStages'
  BY <1>1, DaemonAlone
<1>3. pkg = "half-configured"
  <2>1. Now \in {"stop", "awaitStop"}
    BY AtStep DEF PrermKilled
  <2> QED BY <2>1 DEF IInv, Stages
<1>4. Planned' /\ Now' = "start"
  BY <1>1, Plans, PlanBegins DEF Operations
<1>5. faults' \in 0..MaxFaults
  BY FaultsTyped DEF IInv, TypeOK, PrermKilled
<1>6. TypeOK'
  BY <1>1, <1>5 DEF IInv, TypeOK, DaemonTypeOK
<1>7. GoneIsQuiet' /\ Stages' /\ Starts'
  BY <1>1, <1>3, <1>4 DEF GoneIsQuiet, Gone, Stages, Starts, Aborts
<1> QED BY <1>2, <1>4, <1>6, <1>7 DEF IInv

\* dpkg's other steps, and the first ones of postinst.
LEMMA DpkgKeeps == ASSUME IInv, DpkgStep PROVE IInv'
<1>1. UNCHANGED <<unit, again, proc, sigterm, socket, enabled, ops, assets, registered, members>>
  BY DEF DpkgStep
<1>2. CASE Unpack /\ UNCHANGED <<configured, group, dirs, manifest>>
  BY <1>1, <1>2, UnpackKeeps
<1>3. CASE At("installed") /\ Works /\ Advance /\ pkg' = "installed" /\ configured' = TRUE
           /\ UNCHANGED <<group, dirs, manifest>>
  <2>1. Planned' /\ Now = "installed" /\ Now' = "end" /\ op' = op
        /\ op \in Configurations \cup Aborts
    BY <1>3, AtStep, AdvanceKeeps DEF After, Operations
  <2>2. ProcessInUnit' /\ SocketStages' /\ (Started => Started')
    BY <1>1, <1>3, DaemonAlone
  <2>3. TypeOK'
    BY <1>1, <1>3 DEF IInv, TypeOK, DaemonTypeOK, Packages, Works
  <2>4. GoneIsQuiet' /\ Stages' /\ Starts'
    BY <1>3, <2>1, <2>2 DEF IInv, GoneIsQuiet, Gone, Stages, Starts
  <2> QED BY <2>1, <2>2, <2>3, <2>4 DEF IInv
<1>4. CASE At("deconfigured") /\ Works /\ Advance /\ pkg' = "unpacked"
           /\ UNCHANGED <<configured, group, dirs, manifest>>
  <2>1. Planned' /\ Now' = "end" /\ op' = "deconfigure"
    BY <1>4, AtStep, AdvanceKeeps DEF After, Operations
  <2>2. ProcessInUnit' /\ SocketStages'
    BY <1>1, <1>4, DaemonAlone
  <2>3. TypeOK'
    BY <1>1, <1>4 DEF IInv, TypeOK, DaemonTypeOK, Packages, Works
  <2>4. GoneIsQuiet' /\ Stages' /\ Starts'
    BY <1>4, <2>1 DEF GoneIsQuiet, Gone, Stages, Starts
  <2> QED BY <2>1, <2>2, <2>3, <2>4 DEF IInv
<1>5. CASE At("deleteFiles") /\ Works /\ Advance /\ pkg' = "half-installed"
           /\ UNCHANGED <<configured, group, dirs, manifest>>
  <2>1. Planned' /\ Now = "deleteFiles" /\ Now' = "rmSocket" /\ op' = "remove"
    BY <1>5, AtStep, AdvanceKeeps DEF After, Operations
  <2>2. ProcessInUnit' /\ SocketStages'
    BY <1>1, <1>5, DaemonAlone
  <2>3. TypeOK'
    BY <1>1, <1>5 DEF IInv, TypeOK, DaemonTypeOK, Packages, Works
  <2>4. unit = "inactive" /\ ~enabled
    BY <2>1 DEF IInv, Stages
  <2>5. GoneIsQuiet' /\ Stages' /\ Starts'
    BY <1>1, <1>5, <2>1, <2>4 DEF GoneIsQuiet, Gone, Stages, Starts, Aborts
  <2> QED BY <2>1, <2>2, <2>3, <2>5 DEF IInv
<1>6. CASE At("removed") /\ Works /\ Advance /\ pkg' = "config-files"
           /\ UNCHANGED <<configured, group, dirs, manifest>>
  <2>1. Planned' /\ Now = "removed" /\ Now' = "end" /\ op' = "remove" /\ op = "remove"
    BY <1>6, AtStep, AdvanceKeeps DEF After, Operations
  <2>2. ProcessInUnit' /\ SocketStages'
    BY <1>1, <1>6, DaemonAlone
  <2>3. TypeOK'
    BY <1>1, <1>6 DEF IInv, TypeOK, DaemonTypeOK, Packages, Works
  <2>4. socket.kind = "none" /\ NoneManaged /\ unit = "inactive" /\ ~enabled
    BY <2>1 DEF IInv, Stages, GoneIsQuiet, Gone
  <2>5. GoneIsQuiet' /\ Stages' /\ Starts'
    BY <1>1, <1>6, <2>1, <2>4 DEF GoneIsQuiet, Gone, NoneManaged, Stages, Starts
  <2> QED BY <2>1, <2>2, <2>3, <2>5 DEF IInv
<1>7. CASE At("purged") /\ Works /\ Advance /\ pkg' = "not-installed" /\ configured' = FALSE
           /\ UNCHANGED <<group, dirs, manifest>>
  <2>1. Planned' /\ Now = "purged" /\ Now' = "end" /\ op' = "purge" /\ op = "purge"
    BY <1>7, AtStep, AdvanceKeeps DEF After, Operations
  <2>2. ProcessInUnit' /\ SocketStages'
    BY <1>1, <1>7, DaemonAlone
  <2>3. TypeOK'
    BY <1>1, <1>7 DEF IInv, TypeOK, DaemonTypeOK, Packages, Works
  <2>4. socket.kind = "none" /\ NoneManaged /\ unit = "inactive" /\ ~enabled
    BY <2>1 DEF IInv, Stages, GoneIsQuiet, Gone
  <2>5. GoneIsQuiet' /\ Stages' /\ Starts'
    BY <1>1, <1>7, <2>1, <2>4 DEF GoneIsQuiet, Gone, NoneManaged, Stages, Starts, Aborts
  <2> QED BY <2>1, <2>2, <2>3, <2>5 DEF IInv
<1>8. CASE /\ At("purgeState") /\ Works /\ Advance
           /\ manifest' = [manifest EXCEPT !.file = "none"]
           /\ dirs' \subseteq dirs /\ group' \in BOOLEAN /\ UNCHANGED <<pkg, configured>>
  <2>1. Planned' /\ Now = "purgeState" /\ Now' = "purged" /\ op' = "purge" /\ op = "purge"
    BY <1>8, AtStep, AdvanceKeeps DEF After, Operations
  <2>2. pkg = "config-files" /\ unit = "inactive" /\ proc = "none"
    BY <2>1 DEF IInv, Stages, GoneIsQuiet, Gone, ProcessInUnit
  <2>3. ProcessInUnit' /\ SocketStages'
    BY <1>1, <2>2, DaemonAlone
  <2>4. TypeOK'
    <3>1. manifest' \in [file : {"none", "whole"}, temp : {"none", "part", "whole"}]
      BY <1>8 DEF IInv, TypeOK, DaemonTypeOK
    <3>2. dirs' \subseteq Dirs
      BY <1>8 DEF IInv, TypeOK, DaemonTypeOK
    <3> QED BY <1>1, <1>8, <3>1, <3>2 DEF IInv, TypeOK, DaemonTypeOK, Works
  <2>5. GoneIsQuiet' /\ Stages' /\ Starts'
    BY <1>1, <1>8, <2>1, <2>2 DEF IInv, GoneIsQuiet, Gone, NoneManaged, Stages, Starts, Aborts
  <2> QED BY <2>1, <2>3, <2>4, <2>5 DEF IInv
<1>9. CASE /\ At("ensureGroup") \/ At("ensureDirs")
           /\ Works /\ Advance /\ group' \in {group, TRUE} /\ dirs' \in {dirs, Dirs}
           /\ UNCHANGED <<pkg, configured, manifest>>
  <2>1. /\ Planned' /\ Now \in {"ensureGroup", "ensureDirs"} /\ op' = op
        /\ op \in Configurations \cup Aborts
        /\ Now' = IF Now = "ensureGroup" THEN "ensureDirs"
                  ELSE IF op \in Aborts THEN "start" ELSE "enable"
    BY <1>9, AtStep, AdvanceKeeps DEF After, Operations
  <2>2. ProcessInUnit' /\ SocketStages' /\ (Started => Started')
    BY <1>1, <1>9, DaemonAlone
  <2>3. TypeOK'
    BY <1>1, <1>9 DEF IInv, TypeOK, DaemonTypeOK, Works
  <2>4. op \notin {"remove", "purge", "abort-install"} /\ ("upgrade" \notin Aborts)
    BY <2>1 DEF Configurations, Aborts
  <2>5. pkg \in {"unpacked", "half-configured"}
    BY <2>1, <2>4 DEF IInv, Stages
  <2>6. GoneIsQuiet' /\ Stages'
    BY <1>9, <2>1, <2>4, <2>5 DEF GoneIsQuiet, Gone, Stages
  <2>7. Starts'
    BY <1>9, <2>1, <2>2, <2>5 DEF IInv, Starts
  <2> QED BY <2>1, <2>2, <2>3, <2>6, <2>7 DEF IInv
<1>10. CASE /\ At("ensureGroup") \/ At("ensureDirs")
            /\ Fails("script") /\ Broken /\ UNCHANGED <<configured, group, dirs, manifest>>
  <2>1. todo # <<>> /\ op \in Configurations \cup Aborts
    BY <1>10, AtStep DEF Operations
  <2>2. faults' \in 0..MaxFaults
    BY <1>10, FaultsTyped DEF IInv, TypeOK
  <2> QED BY <1>1, <1>10, <2>1, <2>2, BrokenKeeps
<1>11. group \in BOOLEAN /\ members \in BOOLEAN
  BY DEF IInv, TypeOK, DaemonTypeOK
<1> QED BY <1>2, <1>3, <1>4, <1>5, <1>6, <1>7, <1>8, <1>9, <1>10, <1>11 DEF DpkgStep

\* systemctl start, stop and try-restart.
LEMMA UnitCommands ==
    ASSUME UnitInv, Works, StartUnit \/ StopUnit \/ TryRestart
    PROVE  UnitInv' /\ (StartUnit => Started')
<1>1. UNCHANGED <<proc, socket, manifest, group, dirs, faults>>
  BY DEF StartUnit, StopUnit, TryRestart, Works
<1>2. SocketStages'
  BY <1>1 DEF UnitInv, SocketStages, SocketContract
<1>3. /\ unit \in Units /\ again \in BOOLEAN /\ sigterm \in BOOLEAN
      /\ proc # "none" <=> unit \in {"startPost", "fixSocket", "running", "stopping"}
      /\ sigterm => unit = "stopping"
      /\ proc = "saveRename" => manifest.temp = "whole"
  BY DEF UnitInv, DaemonTypeOK, ProcessInUnit
<1>4. CASE StartUnit
  <2>1. unit' = (IF unit \in {"inactive", "waiting"} THEN "startPre" ELSE unit)
        /\ again' = (again \/ Stopping) /\ UNCHANGED sigterm
    BY <1>4 DEF StartUnit
  <2>2. unit' \in Units /\ again' \in BOOLEAN /\ sigterm' \in BOOLEAN
    BY <1>3, <2>1 DEF Units
  <2>3. ProcessInUnit'
    BY <1>1, <1>3, <2>1 DEF ProcessInUnit
  <2>4. Started'
    BY <2>1 DEF Started, Stopping
  <2> QED BY <1>1, <1>2, <2>2, <2>3, <2>4 DEF UnitInv, DaemonTypeOK
<1>5. CASE StopUnit /\ ~StartUnit
  <2>1. /\ unit' = CASE unit \in {"inactive", "waiting"} -> "inactive"
                      [] unit = "startPre" \/ unit = "stopPost" -> "stopPost"
                      [] OTHER -> "stopping"
        /\ again' = FALSE /\ sigterm' = (proc # "none")
    BY <1>5 DEF StopUnit
  <2>2. unit' \in Units /\ again' \in BOOLEAN /\ sigterm' \in BOOLEAN
    BY <2>1 DEF Units
  <2>3. ProcessInUnit'
    BY <1>1, <1>3, <2>1 DEF ProcessInUnit, Units
  <2> QED BY <1>1, <1>2, <1>5, <2>2, <2>3 DEF UnitInv, DaemonTypeOK
<1>6. CASE TryRestart /\ ~StartUnit
  <2>1. \/ UNCHANGED <<unit, again, sigterm>>
        \/ /\ unit' = (IF proc = "none" THEN "startPre" ELSE "stopping")
           /\ again' = TRUE /\ sigterm' = (proc # "none")
    BY <1>6 DEF TryRestart
  <2>2. unit' \in Units /\ again' \in BOOLEAN /\ sigterm' \in BOOLEAN
    BY <1>3, <2>1 DEF Units
  <2>3. ProcessInUnit'
    BY <1>1, <1>3, <2>1 DEF ProcessInUnit
  <2> QED BY <1>1, <1>2, <1>6, <2>2, <2>3 DEF UnitInv, DaemonTypeOK
<1> QED BY <1>4, <1>5, <1>6

\* Outside a removal the package has its files while a step of a script runs.
LEMMA HasFiles ==
    ASSUME IInv, Now \notin {"end", "unpackNew", "removed", "rmSocket", "rmAssets",
                            "purgeState", "purged"}, op \in Operations(Now), Now \in Steps
    PROVE  pkg \in {"unpacked", "half-configured"} /\ op \notin {"purge", "abort-install"}
<1>1. op \notin {"purge", "abort-install"}
  BY DEF Operations, Steps, Configurations, Aborts
<1>2. op = "remove" => Now \in {"stop", "awaitStop", "disable", "deleteFiles"}
  BY DEF Operations, Steps, Configurations, Aborts
<1> QED BY <1>1, <1>2 DEF IInv, Stages

LEMMA SystemctlKeeps == ASSUME IInv, SystemctlStep PROVE IInv'
<1>1. /\ UNCHANGED <<pkg, configured, enabled, ops, assets, registered, members>>
      /\ Works /\ Advance
  BY DEF SystemctlStep
<1>2. Planned' /\ Now' = After(op, Now) /\ op' = op
  BY <1>1, AdvanceKeeps
<1>3. UnitInv' /\ (StartUnit => Started')
  BY <1>1, UnitCommands DEF IInv, UnitInv, TypeOK, SystemctlStep
<1>4. TypeOK'
  BY <1>1, <1>3 DEF IInv, TypeOK, UnitInv
<1>5. CASE At("start") /\ StartUnit
  <2>1. Now = "start" /\ Now' = "awaitAny" /\ op \in {"upgrade"} \cup Aborts
    BY <1>2, <1>5, AtStep DEF After, Operations
  <2>2. pkg \in {"unpacked", "half-configured"} /\ op \notin {"purge", "abort-install"}
    BY <2>1, HasFiles DEF Operations, Steps
  <2>3. GoneIsQuiet' /\ Stages' /\ Starts'
    BY <1>1, <1>2, <1>3, <1>5, <2>1, <2>2 DEF IInv, GoneIsQuiet, Gone, Stages, Starts, Aborts
  <2> QED BY <1>2, <1>3, <1>4, <2>3 DEF IInv, UnitInv
<1>6. CASE At("startOrRestart") /\ (StartUnit \/ configured)
  <2>1. Now = "startOrRestart" /\ Now' = "await" /\ op \in Configurations
    BY <1>2, <1>6, AtStep DEF After, Operations
  <2>2. pkg \in {"unpacked", "half-configured"} /\ op \notin {"purge", "abort-install"}
    BY <2>1, HasFiles DEF Operations, Steps
  <2>3. op = "install" => Started' /\ ~configured
    BY <1>3, <1>6, <2>1 DEF IInv, Starts
  <2>4. GoneIsQuiet' /\ Stages'
    BY <1>1, <1>2, <2>1, <2>2 DEF GoneIsQuiet, Gone, Stages
  <2>5. Starts'
    BY <1>1, <1>2, <2>1, <2>2, <2>3 DEF Starts
  <2> QED BY <1>2, <1>3, <1>4, <2>4, <2>5 DEF IInv, UnitInv
<1>7. CASE At("stop")
  <2>1. /\ Now = "stop" /\ Now' = "awaitStop"
        /\ op \in {"upgrade", "deconfigure", "abort-remove", "remove"}
    BY <1>2, <1>7, AtStep DEF After, Operations
  <2>2. pkg = "half-configured"
    BY <2>1 DEF IInv, Stages
  <2>3. GoneIsQuiet' /\ Stages' /\ Starts'
    BY <1>1, <1>2, <2>1, <2>2 DEF GoneIsQuiet, Gone, Stages, Starts
  <2> QED BY <1>2, <1>3, <1>4, <2>3 DEF IInv, UnitInv
<1> QED BY <1>5, <1>6, <1>7 DEF SystemctlStep

\* systemctl enable and disable.
LEMMA EnableKeeps == ASSUME IInv, EnableStep PROVE IInv'
<1>1. /\ UNCHANGED <<unit, again, proc, sigterm, socket, manifest, group, dirs, faults,
                     pkg, configured, ops, assets, registered, members>>
      /\ Advance /\ enabled' \in BOOLEAN
  BY DEF EnableStep, Works
<1>2. Planned' /\ Now' = After(op, Now) /\ op' = op
  BY <1>1, AdvanceKeeps
<1>3. ProcessInUnit' /\ SocketStages' /\ (Started => Started')
  BY <1>1, DaemonAlone
<1>4. TypeOK'
  BY <1>1 DEF IInv, TypeOK, DaemonTypeOK
<1>5. CASE At("enable")
  <2>1. Now = "enable" /\ Now' = "startOrRestart" /\ op \in Configurations
    BY <1>2, <1>5, AtStep DEF After, Operations
  <2>2. pkg \in {"unpacked", "half-configured"} /\ op \notin {"purge", "abort-install"}
    BY <2>1, HasFiles DEF Operations, Steps
  <2>3. GoneIsQuiet' /\ Stages'
    BY <1>1, <1>2, <2>1, <2>2 DEF GoneIsQuiet, Gone, Stages
  <2>4. Starts'
    BY <1>1, <1>2, <2>1, <2>2 DEF IInv, Starts
  <2> QED BY <1>2, <1>3, <1>4, <2>3, <2>4 DEF IInv
<1>6. CASE At("disable") /\ enabled' = FALSE
  <2>1. Now = "disable" /\ op \in {"deconfigure", "abort-remove", "remove"}
    BY <1>6, AtStep DEF Operations
  <2>2. Now' = IF op = "deconfigure" THEN "deconfigured"
               ELSE IF op = "abort-remove" THEN "ensureGroup" ELSE "deleteFiles"
    BY <1>2, <2>1 DEF After
  <2>3. pkg = "half-configured" /\ unit = "inactive"
    BY <2>1 DEF IInv, Stages
  <2>4. GoneIsQuiet' /\ Stages' /\ Starts'
    BY <1>1, <1>2, <1>6, <2>1, <2>2, <2>3 DEF GoneIsQuiet, Gone, Stages, Starts
  <2> QED BY <1>2, <1>3, <1>4, <2>4 DEF IInv
<1> QED BY <1>5, <1>6 DEF EnableStep

\* The scripts wait for the unit.
LEMMA AwaitKeeps == ASSUME IInv, AwaitStep PROVE IInv'
<1>1. UNCHANGED <<unit, again, proc, sigterm, socket, manifest, group, dirs, faults,
                  configured, enabled, ops, assets, registered, members>>
  BY DEF AwaitStep, Works
<1>2. ProcessInUnit' /\ SocketStages' /\ (Started => Started')
  BY <1>1, DaemonAlone
<1>3. CASE At("await") /\ Broken
  <2>1. todo # <<>> /\ op \in Configurations \cup Aborts
    BY <1>3, AtStep DEF Operations
  <2> QED BY <1>1, <1>3, <2>1, BrokenKeeps DEF IInv, TypeOK, DaemonTypeOK
<1>4. CASE Advance /\ UNCHANGED pkg
  <2>1. Planned' /\ Now' = After(op, Now) /\ op' = op
    BY <1>4, AdvanceKeeps
  <2>2. TypeOK'
    BY <1>1, <1>4 DEF IInv, TypeOK, DaemonTypeOK
  <2>3. CASE At("await")
    <3>1. Now = "await" /\ Now' = "fixSocket" /\ op \in Configurations
      BY <2>1, <2>3, AtStep DEF After, Operations
    <3>2. pkg \in {"unpacked", "half-configured"} /\ op \notin {"purge", "abort-install"}
      BY <3>1, HasFiles DEF Operations, Steps
    <3>3. GoneIsQuiet' /\ Stages'
      BY <1>4, <2>1, <3>1, <3>2 DEF GoneIsQuiet, Gone, Stages
    <3>4. Starts'
      BY <1>1, <1>2, <1>4, <2>1, <3>1, <3>2 DEF IInv, Starts, Configurations, Aborts
    <3> QED BY <1>2, <2>1, <2>2, <3>3, <3>4 DEF IInv
  <2>4. CASE At("awaitAny")
    <3>1. /\ Now = "awaitAny" /\ op \in {"upgrade"} \cup Aborts
          /\ Now' = IF op = "upgrade" THEN "unpackUpgrade" ELSE "fixSocket"
      BY <2>1, <2>4, AtStep DEF After, Operations
    <3>2. pkg \in {"unpacked", "half-configured"} /\ op \notin {"purge", "abort-install"}
      BY <3>1, HasFiles DEF Operations, Steps
    <3>3. GoneIsQuiet' /\ Stages'
      BY <1>4, <2>1, <3>1, <3>2 DEF IInv, GoneIsQuiet, Gone, Stages
    <3>4. Starts'
      BY <1>1, <1>2, <1>4, <2>1, <3>1, <3>2 DEF IInv, Starts, Aborts
    <3> QED BY <1>2, <2>1, <2>2, <3>3, <3>4 DEF IInv
  <2>5. CASE At("awaitStop") /\ unit = "inactive"
    <3>1. /\ Now = "awaitStop" /\ op \in {"upgrade", "deconfigure", "abort-remove", "remove"}
          /\ Now' = IF op = "upgrade" THEN "unpackUpgrade" ELSE "disable"
      BY <2>1, <2>5, AtStep DEF After, Operations
    <3>2. pkg = "half-configured"
      BY <3>1 DEF IInv, Stages
    <3>3. GoneIsQuiet' /\ Stages' /\ Starts'
      BY <1>1, <1>4, <2>1, <2>5, <3>1, <3>2 DEF GoneIsQuiet, Gone, Stages, Starts
    <3> QED BY <1>2, <2>1, <2>2, <3>3 DEF IInv
  <2> QED BY <2>3, <2>4, <2>5 DEF AwaitStep, Broken, Advance, At
<1> QED BY <1>3, <1>4 DEF AwaitStep

\* The scripts and the socket: postinst gives it to the group, postrm removes
\* it, with no daemon behind it.
LEMMA SocketKeeps == ASSUME IInv, SocketStep PROVE IInv'
<1>1. /\ UNCHANGED <<unit, again, proc, sigterm, manifest, group, faults,
                     pkg, configured, enabled, ops, assets, registered, members>>
      /\ Advance
  BY DEF SocketStep, Works
<1>2. Planned' /\ Now' = After(op, Now) /\ op' = op
  BY <1>1, AdvanceKeeps
<1>3. ProcessInUnit' /\ (Started => Started')
  BY <1>1 DEF IInv, ProcessInUnit, Started, Stopping
<1>4. socket \in Sockets /\ dirs \subseteq Dirs
  BY DEF IInv, TypeOK, DaemonTypeOK
<1>5. socket' \in Sockets /\ dirs' \subseteq Dirs => TypeOK'
  BY <1>1 DEF IInv, TypeOK, DaemonTypeOK
<1>6. CASE /\ At("fixSocket") /\ UNCHANGED dirs
           /\ socket' \in {socket, [socket EXCEPT !.mode = "0660", !.owner = "lara-nux"]}
  <2>1. Now = "fixSocket" /\ Now' = "installed" /\ op \in Configurations \cup Aborts
    BY <1>2, <1>6, AtStep DEF After, Operations
  <2>2. pkg \in {"unpacked", "half-configured"} /\ op \notin {"purge", "abort-install"}
    BY <2>1, HasFiles DEF Operations, Steps
  <2>3. /\ socket' \in Sockets /\ socket'.kind = socket.kind /\ socket'.live = socket.live
        /\ socket.mode = "0660" => socket'.mode = "0660"
        /\ socket = Ready => socket' = Ready
    <3>1. CASE UNCHANGED socket
      BY <1>4, <3>1
    <3>2. CASE socket' = [socket EXCEPT !.mode = "0660", !.owner = "lara-nux"]
      <4>1. socket' \in Sockets
        BY <1>4, <3>2, SocketsTyped
      <4>2. /\ socket'.kind = socket.kind /\ socket'.live = socket.live
            /\ socket'.mode = "0660" /\ (socket = Ready => socket' = Ready)
        BY <1>4, <3>2 DEF Sockets, Ready, Bound
      <4> QED BY <4>1, <4>2
    <3> QED BY <1>6, <3>1, <3>2
  <2>4. SocketStages'
    BY <1>1, <2>3 DEF IInv, SocketStages, SocketContract
  <2>5. GoneIsQuiet' /\ Stages'
    BY <1>1, <1>2, <2>1, <2>2 DEF GoneIsQuiet, Gone, Stages
  <2>6. Starts'
    BY <1>1, <1>2, <1>3, <2>1, <2>2 DEF IInv, Starts
  <2> QED BY <1>2, <1>3, <1>4, <1>5, <1>6, <2>3, <2>4, <2>5, <2>6 DEF IInv
<1>7. CASE At("rmSocket") /\ socket' = NoSocket /\ dirs' = dirs \ {"runtime"}
  <2>1. /\ Now = "rmSocket" /\ Now' = "rmAssets"
        /\ op \in {"remove", "purge", "abort-install", "abort-upgrade"}
    BY <1>2, <1>7, AtStep DEF After, Operations
  <2>2. /\ op = "remove" => pkg = "half-installed"
        /\ op = "purge" => pkg = "config-files"
        /\ op = "abort-install" => pkg \in {"not-installed", "config-files"}
        /\ op = "abort-upgrade" => pkg \in {"unpacked", "half-configured"}
        /\ op = "abort-upgrade" => unit = "inactive" \/ ~OneUpgradeFailure
    BY <2>1 DEF IInv, Stages, OneUpgradeFailure
  <2>3. unit = "inactive" \/ ~OneUpgradeFailure
    BY <2>1, <2>2 DEF IInv, GoneIsQuiet, Gone
  <2>4. SocketStages'
    BY <1>1, <2>3 DEF IInv, ProcessInUnit, SocketStages, SocketContract
  <2>5. socket' \in Sockets /\ dirs' \subseteq Dirs /\ socket'.kind = "none"
    BY <1>4, <1>7, SocketsTyped
  <2>6. GoneIsQuiet'
    BY <1>1, <1>2, <2>1, <2>2, <2>5 DEF IInv, GoneIsQuiet, Gone, NoneManaged
  <2>7. Stages' /\ Starts'
    BY <1>1, <1>2, <2>1, <2>2, <2>5 DEF Stages, Starts, Aborts
  <2> QED BY <1>2, <1>3, <1>5, <2>4, <2>5, <2>6, <2>7 DEF IInv
<1> QED BY <1>6, <1>7 DEF SocketStep

\* postrm removes the managed files.
LEMMA CleanupKeeps == ASSUME IInv, CleanupStep PROVE IInv'
<1>1. /\ UNCHANGED <<unit, again, proc, sigterm, socket, manifest, group, dirs, faults,
                     pkg, configured, enabled, ops, registered, members>>
      /\ At("rmAssets")
  BY DEF CleanupStep, Works
<1>2. ProcessInUnit' /\ SocketStages' /\ (Started => Started')
  BY <1>1, DaemonAlone
<1>3. assets' \in [Assets -> {"none", "managed", "foreign"}] /\ (NoneManaged => NoneManaged')
  BY CleanupTouchesManaged DEF IInv, TypeOK, AssetsTyped, NoneManaged
<1>4. TypeOK'
  BY <1>1, <1>3 DEF IInv, TypeOK, DaemonTypeOK
<1>5. Now = "rmAssets" /\ op \in {"remove", "purge", "abort-install", "abort-upgrade"}
  BY <1>1, AtStep DEF Operations
<1>6. CASE UNCHANGED <<todo, op>>
  <2>1. Planned' /\ Now' = Now /\ op' = op
    BY <1>6 DEF IInv, Planned, Now
  <2>2. GoneIsQuiet' /\ Stages'
    BY <1>1, <1>3, <1>5, <2>1 DEF IInv, GoneIsQuiet, Stages
  <2>3. Starts'
    BY <1>1, <1>2, <1>5, <2>1 DEF IInv, Starts
  <2> QED BY <1>2, <1>4, <2>1, <2>2, <2>3 DEF IInv
<1>7. CASE Advance /\ NoneManaged /\ UNCHANGED assets
  <2>1. /\ Planned' /\ op' = op
        /\ Now' = IF op = "remove" THEN "removed" ELSE IF op = "purge" THEN "purgeState"
                  ELSE IF op = "abort-upgrade" THEN "ensureGroup" ELSE "end"
    BY <1>5, <1>7, AdvanceKeeps DEF After
  <2>2. GoneIsQuiet'
    BY <1>1, <1>3, <1>7, <2>1 DEF IInv, GoneIsQuiet
  <2>3. /\ op = "remove" => pkg = "half-installed" /\ socket.kind = "none"
        /\ op = "purge" => pkg = "config-files"
        /\ op = "abort-upgrade" => pkg \in {"unpacked", "half-configured"}
    BY <1>5 DEF IInv, Stages
  <2>4. Stages'
    BY <1>1, <1>3, <1>5, <1>7, <2>1, <2>3 DEF Stages
  <2>5. Starts'
    BY <1>1, <1>2, <1>5, <2>1, <2>3 DEF IInv, Starts, Aborts
  <2> QED BY <1>2, <1>4, <2>1, <2>2, <2>4, <2>5 DEF IInv
<1> QED BY <1>6, <1>7 DEF CleanupStep, NoneManaged

\* A site is activated, by a daemon that serves; the machine is restarted.
LEMMA ActivateKeeps == ASSUME IInv, ActivateSite PROVE IInv'
<1>1. /\ UNCHANGED <<unit, again, proc, sigterm, socket, manifest, group, dirs, faults,
                     pkg, configured, enabled, todo, op, ops, members>>
      /\ proc = "serving" /\ registered' = TRUE /\ assets' = [a \in Assets |-> "managed"]
  BY DEF ActivateSite, daemonVars
<1>2. ProcessInUnit' /\ SocketStages' /\ (Started => Started')
  BY <1>1, DaemonAlone
<1>3. TypeOK'
  BY <1>1 DEF IInv, TypeOK, DaemonTypeOK
<1>4. pkg \notin Gone /\ unit # "inactive"
  BY <1>1 DEF IInv, ProcessInUnit, GoneIsQuiet
<1>5. Planned' /\ Now' = Now
  BY <1>1 DEF IInv, Planned, Now
<1>6. GoneIsQuiet'
  BY <1>1, <1>4 DEF GoneIsQuiet, Gone
<1>7. Stages'
  <2>1. Now # "removed"
    <3>1. Now = "removed" => op = "remove"
      BY DEF IInv, Planned, Now, Operations
    <3> QED BY <1>4, <3>1 DEF IInv, Stages, Gone
  <2> QED BY <1>1, <1>5, <2>1 DEF IInv, Stages
<1>8. Starts'
  BY <1>1, <1>2, <1>5 DEF IInv, Starts
<1> QED BY <1>2, <1>3, <1>5, <1>6, <1>7, <1>8 DEF IInv

LEMMA RebootKeeps == ASSUME IInv, Reboot PROVE IInv'
<1>1. /\ UNCHANGED <<manifest, group, pkg, configured, enabled, ops, assets, registered, members>>
      /\ proc' = "none" /\ sigterm' = FALSE /\ socket' = NoSocket /\ dirs' \subseteq dirs
      /\ unit' \in {"startPre", "inactive"} /\ again' = FALSE
      /\ unit' = "startPre" => enabled
      /\ todo' = <<>> /\ op' = "boot"
  BY DEF Reboot
<1>2. faults' \in 0..MaxFaults
  BY FaultsTyped DEF IInv, TypeOK, Reboot
<1>3. Planned' /\ Now' = "end"
  BY <1>1, PlanEnds
<1>4. TypeOK'
  BY <1>1, <1>2, SocketsTyped DEF IInv, TypeOK, DaemonTypeOK, Units, Procs
<1>5. ProcessInUnit' /\ SocketStages'
  BY <1>1 DEF ProcessInUnit, SocketStages, SocketContract
<1>6. GoneIsQuiet'
  BY <1>1, SocketsTyped DEF IInv, GoneIsQuiet, NoneManaged
<1>7. Stages' /\ Starts'
  BY <1>1, <1>3 DEF Stages, Starts, Aborts
<1> QED BY <1>3, <1>4, <1>5, <1>6, <1>7 DEF IInv

LEMMA InitIInv == Init => IInv
<1> SUFFICES ASSUME Init PROVE IInv  OBVIOUS
<1>1. Planned /\ Now = "end"
  BY DEF Init, Planned, Ordered, Now
<1>2. TypeOK
  <2>1. socket \in Sockets
    BY SocketsTyped DEF Init, DaemonInit
  <2>2. faults \in 0..MaxFaults /\ ops \in 0..MaxOps
    BY DaemonAssumption, PackageAssumption DEF Init, DaemonInit
  <2>3. DaemonTypeOK
    BY <2>1, <2>2 DEF Init, DaemonInit, DaemonTypeOK, Units, Procs
  <2>4. assets \in [Assets -> {"none", "managed", "foreign"}]
    BY DEF Init
  <2> QED BY <2>2, <2>3, <2>4 DEF Init, TypeOK, Packages
<1>3. ProcessInUnit /\ SocketStages
  BY DEF Init, DaemonInit, ProcessInUnit, SocketStages, SocketContract
<1>4. GoneIsQuiet /\ Stages /\ Starts
  BY <1>1 DEF Init, DaemonInit, GoneIsQuiet, Stages, Starts, Aborts
<1> QED BY <1>1, <1>2, <1>3, <1>4 DEF IInv

LEMMA IInvStep == IInv /\ [Next]_vars => IInv'
<1> SUFFICES ASSUME IInv, [Next]_vars PROVE IInv'
  OBVIOUS
<1>1. CASE UNCHANGED vars
  <2>1. /\ UNCHANGED <<unit, again, proc, sigterm, socket, manifest, group, dirs, faults,
                       pkg, configured, enabled, todo, op, ops, assets, registered, members>>
        /\ Now' = Now
    BY <1>1 DEF vars, daemonVars, packageVars, Now
  <2>2. ProcessInUnit' /\ SocketStages' /\ (Started => Started')
    BY <2>1, DaemonAlone
  <2>3. TypeOK' /\ Planned'
    BY <2>1 DEF IInv, TypeOK, DaemonTypeOK, Planned
  <2>4. GoneIsQuiet' /\ Stages'
    BY <2>1 DEF IInv, GoneIsQuiet, Stages, NoneManaged
  <2>5. Starts'
    BY <2>1, <2>2 DEF IInv, Starts
  <2> QED BY <2>2, <2>3, <2>4, <2>5 DEF IInv
<1>2. CASE Operation
  BY <1>2, OperationKeeps
<1>3. CASE ScriptStep
  BY <1>3, DpkgKeeps, EnableKeeps, SystemctlKeeps, AwaitKeeps, SocketKeeps, CleanupKeeps
     DEF ScriptStep
<1>4. CASE DaemonRuns \/ UnitRuns
  BY <1>4, DaemonKeeps DEF DaemonRuns, UnitRuns
<1>5. CASE PrermKilled \/ ActivateSite \/ Reboot
  BY <1>5, PrermKilledKeeps, ActivateKeeps, RebootKeeps
<1> QED BY <1>1, <1>2, <1>3, <1>4, <1>5 DEF Next

-----------------------------------------------------------------------------
\* The manifest is absent or whole whenever the daemon or the machine stops
\* (ManagedAssetManifest.Save), and everything else is of its type.
THEOREM AlwaysTypeOK == Spec => []TypeOK
<1>1. IInv => TypeOK
  BY DEF IInv
<1> QED BY <1>1, InitIInv, IInvStep, PTL DEF Spec

\* A daemon that serves is behind a socket of the group lara-nux with mode 0660
\* (main.go:149-194, postinst:42-47), in every order of dpkg's scripts, systemd
\* and the daemon's own steps and however often each of them fails, but for an
\* upgrade whose old prerm is killed and whose archive cannot be unpacked.
THEOREM SocketContractHolds ==
    ASSUME OneUpgradeFailure
    PROVE  Spec => []SocketContract
<1>1. IInv => SocketContract
  BY DEF IInv, SocketStages
<1> QED BY <1>1, InitIInv, IInvStep, PTL DEF Spec

\* A removal or a purge that ends leaves no daemon, no socket, no file with the
\* marker and no unit to start at boot, whatever was interrupted before it
\* (prerm:22-26, postrm:95-104).
THEOREM UninstallAlwaysComplete == Spec => []UninstallIsComplete
<1>1. IInv => UninstallIsComplete
  BY DEF IInv, UninstallIsComplete, GoneIsQuiet, Gone, ProcessInUnit, NoneManaged
<1> QED BY <1>1, InitIInv, IInvStep, PTL DEF Spec

\* After a first installation and after an upgrade or a removal that was given
\* up, the unit is started and not stopped (postinst:56-76, 86-96).
THEOREM AbortsAlwaysRestart == Spec => []AbortsRestartTheUnit
<1>1. IInv => AbortsRestartTheUnit
  BY DEF IInv, AbortsRestartTheUnit, Starts, Started, Aborts
<1> QED BY <1>1, InitIInv, IInvStep, PTL DEF Spec
=============================================================================
