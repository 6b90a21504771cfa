----------------------------- MODULE InstallProofs -----------------------------
(***************************************************************************)
(* The parts that install: PkgInstall for any number of threads,           *)
(* LoaderBoot for any number of boots, AppMove and SelfUpdate.             *)
(***************************************************************************)
EXTENDS PkgInstall, LoaderBoot, AppMove, SelfUpdate, TLAPS

-----------------------------------------------------------------------------
(* PkgInstall: as long as no two threads are in bgft_init at a time, the flag  *)
(* says whether the service was started, and what it was given is not freed.   *)

AtWork == {"register", "uninstall", "start", "progress"}

OneStarts ==
  /\ ~bgftFlag => bgftHeap = NoHeap
  /\ bgftFlag => bgftHeap # NoHeap /\ bgftHeap \notin freed
  /\ \A t \in Installers : instPc[t] \in AtWork => bgftFlag
  /\ \A t \in InBgftInit : ~bgftFlag
  /\ \A t, u \in InBgftInit : t = u
  /\ \A t \in Installers : instPc[t] = "service" => paramsHeap = t /\ t \notin freed

InstIInv == InstTypeOK /\ (overlap \/ OneStarts)

\* The steps before the service is started keep the invariant.
LEMMA ToServiceStep ==
  ASSUME InstIInv, NEW t \in Installers,
         InstallBegins(t) \/ TestUtil(t) \/ StartUtil(t) \/ TestBgft(t)
  PROVE  InstIInv'
<1> USE InstallersAssumption DEF InstIInv, InstTypeOK, InstPc, Goto
<1>1. CASE InstallBegins(t)
  BY <1>1 DEF InstallBegins, OneStarts, AtWork, InBgftInit
<1>2. CASE TestUtil(t)
  BY <1>2 DEF TestUtil, OneStarts, AtWork, InBgftInit
<1>3. CASE StartUtil(t)
  <2>1. utilUp' \in BOOLEAN /\ utilFlag' \in BOOLEAN
    BY <1>3, Zenon DEF StartUtil
  <2> QED BY <1>3, <2>1 DEF StartUtil, OneStarts, AtWork, InBgftInit
<1>4. CASE TestBgft(t)
  <2>1. overlap' \in BOOLEAN /\ (overlap' <=> (overlap \/ (~bgftFlag /\ InBgftInit # {})))
    BY <1>4, Zenon DEF TestBgft
  <2>2. CASE bgftFlag
    BY <1>4, <2>1, <2>2 DEF TestBgft, OneStarts, AtWork, InBgftInit
  <2>3. CASE ~bgftFlag
    BY <1>4, <2>1, <2>3 DEF TestBgft, OneStarts, AtWork, InBgftInit
  <2> QED BY <2>2, <2>3
<1> QED BY <1>1, <1>2, <1>3, <1>4

\* Starting the service, and failing to, keeps the invariant.
LEMMA StartServiceStep ==
  ASSUME InstIInv, NEW t \in Installers, AllocHeap(t) \/ StartBgft(t)
  PROVE  InstIInv'
<1> USE InstallersAssumption DEF InstIInv, InstPc, Goto
<1>1. InstTypeOK'
  BY DEF AllocHeap, StartBgft, InstTypeOK
<1>2. CASE overlap
  BY <1>1, <1>2 DEF AllocHeap, StartBgft
<1>3. CASE ~overlap
  <2> USE <1>3 DEF InstTypeOK, OneStarts, AtWork, InBgftInit
  <2>1. t \in InBgftInit /\ ~bgftFlag
    BY DEF AllocHeap, StartBgft
  <2>2. \A u \in Installers \ {t} :
          instPc'[u] = instPc[u] /\ instPc[u] \notin AtWork \cup {"alloc", "service"}
    BY <2>1 DEF AllocHeap, StartBgft
  <2>3. CASE AllocHeap(t)
    BY <1>1, <2>1, <2>2, <2>3 DEF AllocHeap
  <2>4. CASE StartBgft(t)
    <3>1. instPc[t] = "service" /\ paramsHeap = t /\ t \notin freed /\ bgftHeap = NoHeap
      BY <2>1, <2>4 DEF StartBgft
    <3>2. CASE instPc' = [instPc EXCEPT ![t] = "register"]
      BY <1>1, <2>2, <2>4, <3>1, <3>2 DEF StartBgft
    <3>3. CASE instPc' = [instPc EXCEPT ![t] = "idle"]
      BY <1>1, <2>2, <2>4, <3>1, <3>3 DEF StartBgft
    <3> QED BY <2>4, <3>2, <3>3 DEF StartBgft
  <2> QED BY <2>3, <2>4
<1> QED BY <1>2, <1>3

\* The work on a task leaves the service as it is.
LEMMA TaskStep ==
  ASSUME InstIInv, NEW t \in Installers,
         \/ RegisterTask(t) \/ UninstallTitle(t) \/ StartTask(t) \/ WaitForTask(t)
         \/ NoProgress(t) \/ TaskEnds(t)
  PROVE  InstIInv'
<1> USE InstallersAssumption
    DEF InstIInv, InstTypeOK, InstPc, Goto, Started, CleanUp, OneStarts, AtWork, InBgftInit
<1>1. CASE RegisterTask(t)
  BY <1>1 DEF RegisterTask
<1>2. CASE UninstallTitle(t)
  BY <1>2 DEF UninstallTitle, MakeRoom
<1>3. CASE StartTask(t)
  BY <1>3 DEF StartTask
<1>4. CASE WaitForTask(t) \/ NoProgress(t)
  BY <1>4 DEF WaitForTask, NoProgress
<1>5. CASE TaskEnds(t)
  BY <1>5 DEF TaskEnds
<1> QED BY <1>1, <1>2, <1>3, <1>4, <1>5

\* Every state of the installations satisfies the invariant.
THEOREM InstInvariant == InstSpec => []InstIInv
<1>1. InstInit => InstIInv
  BY InstallersAssumption DEF InstInit, InstIInv, InstTypeOK, InstPc, OneStarts, AtWork, InBgftInit
<1>2. InstIInv /\ [InstNext]_instVars => InstIInv'
  <2> SUFFICES ASSUME InstIInv, [InstNext]_instVars PROVE InstIInv'
    OBVIOUS
  <2>1. CASE UNCHANGED instVars
    BY <2>1 DEF instVars, InstIInv, InstTypeOK, OneStarts, InBgftInit
  <2> QED BY <2>1, ToServiceStep, StartServiceStep, TaskStep DEF InstNext, InstallStep
<1> QED BY <1>1, <1>2, PTL DEF InstSpec

\* A thread that works with a task has a service to ask, whose heap was not freed,
\* for any number of threads, unless two were in bgft_init at a time.
THEOREM ServiceStaysUp == InstSpec => []ServiceKept
<1>1. InstIInv => ServiceKept
  BY DEF InstIInv, OneStarts, AtWork, ServiceKept
<1> QED BY <1>1, InstInvariant, PTL

-----------------------------------------------------------------------------
(* LoaderBoot: once copied, the daemon stays while the loader runs. *)

Copied == loaderPc \in {"tell", "launch", "main", "app"} => folder = "shipped" \/ failed

LoaderIInv == LoaderTypeOK /\ Copied

\* Every step keeps the types.
LEMMA LoaderTypeStep == LoaderTypeOK /\ [LoaderNext]_loaderVars => LoaderTypeOK'
<1> SUFFICES ASSUME LoaderTypeOK, [LoaderNext]_loaderVars PROVE LoaderTypeOK'
  OBVIOUS
<1> USE MaxBootsAssumption DEF LoaderTypeOK, daemonProc
<1>1. CASE StartLoader
  <2>1. boots' \in 0..MaxBoots
    BY <1>1 DEF StartLoader
  <2> QED BY <1>1, <2>1 DEF StartLoader
<1>2. CASE CheckDaemon \/ MountSystem \/ RemoveFolder
  BY <1>2 DEF CheckDaemon, MountSystem, GiveUp, RemoveFolder
<1>3. CASE CopyParts \/ EbootOpens \/ EbootWrites
  <2>1. failed' \in BOOLEAN
    BY <1>3, Zenon DEF CopyParts, GiveUp, EbootOpens, EbootWrites, ReadsForever
  <2> QED BY <1>3, <2>1 DEF CopyParts, GiveUp, EbootOpens, EbootWrites, ReadsForever
<1>4. CASE TellDaemon
  <2>1. failed' \in BOOLEAN /\ proc' \in {proc, "told"}
    BY <1>4, Zenon DEF TellDaemon
  <2> QED BY <1>4, <2>1 DEF TellDaemon
<1>5. CASE LaunchDaemon \/ DaemonUpdates
  BY <1>5 DEF LaunchDaemon, DaemonUpdates, QuitForUpdate, StartProcess
<1>6. CASE ExecAgain \/ ExecApp
  <2>1. boots' \in 0..MaxBoots
    BY <1>6 DEF ExecAgain, ExecApp, NextBoot
  <2> QED BY <1>6, <2>1 DEF ExecAgain, ExecApp
<1>7. CASE DaemonUp \/ DaemonCrashes
  BY <1>7 DEF DaemonUp, DaemonCrashes
<1>8. CASE CloseLoader \/ TurnOff \/ ShipNext
  BY <1>8 DEF CloseLoader, TurnOff, ShipNext
<1>9. CASE UNCHANGED loaderVars
  BY <1>9 DEF loaderVars
<1> QED BY <1>1, <1>2, <1>3, <1>4, <1>5, <1>6, <1>7, <1>8, <1>9 DEF LoaderNext, Loader

\* Every step keeps the copied daemon.
LEMMA CopiedStep == LoaderIInv /\ [LoaderNext]_loaderVars => Copied'
<1> SUFFICES ASSUME LoaderIInv, [LoaderNext]_loaderVars PROVE Copied'
  OBVIOUS
<1> USE DEF LoaderIInv, LoaderTypeOK, Copied, daemonProc
<1>1. CASE StartLoader \/ CheckDaemon \/ MountSystem \/ RemoveFolder
  BY <1>1 DEF StartLoader, CheckDaemon, is_daemon_outdated, MountSystem, GiveUp, RemoveFolder
<1>2. CASE CopyParts \/ EbootOpens \/ EbootWrites
  BY <1>2 DEF CopyParts, GiveUp, EbootOpens, EbootWrites, ReadsForever
<1>3. CASE TellDaemon
  <2>1. failed => failed'
    BY <1>3, Zenon DEF TellDaemon
  <2> QED BY <1>3, <2>1 DEF TellDaemon
<1>4. CASE LaunchDaemon \/ DaemonUpdates
  BY <1>4 DEF LaunchDaemon, DaemonUpdates
<1>5. CASE ExecAgain \/ ExecApp
  BY <1>5 DEF ExecAgain, ExecApp
<1>6. CASE DaemonUp \/ DaemonCrashes
  BY <1>6 DEF DaemonUp, DaemonCrashes
<1>7. CASE CloseLoader \/ TurnOff \/ ShipNext
  BY <1>7 DEF CloseLoader, TurnOff, ShipNext
<1>8. CASE UNCHANGED loaderVars
  BY <1>8 DEF loaderVars
<1> QED BY <1>1, <1>2, <1>3, <1>4, <1>5, <1>6, <1>7, <1>8 DEF LoaderNext, Loader

\* Every state of the loader satisfies the invariant.
LEMMA LoaderInvariant == LoaderSpec => []LoaderIInv
<1>1. LoaderInit => LoaderIInv
  <2>1. LoaderInit => boots \in 0..MaxBoots
    BY MaxBootsAssumption DEF LoaderInit
  <2> QED BY <2>1 DEF LoaderInit, LoaderIInv, LoaderTypeOK, Copied
<1>2. LoaderIInv /\ [LoaderNext]_loaderVars => LoaderIInv'
  BY LoaderTypeStep, CopiedStep DEF LoaderIInv
<1> QED BY <1>1, <1>2, PTL DEF LoaderSpec

\* The app starts with the daemon it ships installed whole, however often the
\* loader was cut off before, and however often it executes itself, unless
\* mounting or copying failed.
THEOREM AlwaysInstallsDaemon == LoaderSpec => []InstallsDaemon
<1>1. LoaderIInv => InstallsDaemon
  BY DEF LoaderIInv, Copied, InstallsDaemon
<1> QED BY <1>1, LoaderInvariant, PTL

-----------------------------------------------------------------------------
(* AppMove: what the step under way may lose *)

MoveSafe ==
  /\ movePc \in {"copy", "compare"} => package = "pkg" \/ gaveUp
  /\ movePc \in {"unlink", "link", "progress"} => copy = "whole"
  /\ PackageKept

\* A whole package is on the console or on the stick, whatever step fails, unless
\* the user gave up one of the two.
THEOREM PackageAlwaysKept == MoveSpec => []PackageKept
<1>1. MoveInit => MoveSafe
  BY DEF MoveInit, MoveSafe, PackageKept
<1>2. MoveSafe /\ [MoveNext]_moveVars => MoveSafe'
  <2> SUFFICES ASSUME MoveSafe, [MoveNext]_moveVars PROVE MoveSafe'
    OBVIOUS
  <2> USE DEF MoveSafe, PackageKept
  <2>1. CASE MoveBegins \/ CopyPackage \/ ValidateMove
    BY <2>1 DEF MoveBegins, CopyPackage, ValidateMove, MD5_file_compare
  <2>2. CASE UnlinkPackage \/ LinkPackage
    BY <2>2 DEF UnlinkPackage, LinkPackage
  <2>3. CASE RestoreBegins
    <3>1. gaveUp' <=> (gaveUp \/ copy # "whole")
      BY <2>3, Zenon DEF RestoreBegins
    <3> QED BY <2>3, <3>1 DEF RestoreBegins
  <2>4. CASE InstallCopy \/ RestoreEnds
    BY <2>4 DEF InstallCopy, RestoreEnds
  <2>5. CASE UninstallGame
    <3>1. gaveUp' <=> (gaveUp \/ copy # "whole")
      BY <2>5, Zenon DEF UninstallGame
    <3> QED BY <2>5, <3>1 DEF UninstallGame
  <2>6. CASE InstallAgain \/ MoveExtras \/ StickMoves
    BY <2>6 DEF InstallAgain, MoveExtras, StickMoves
  <2>7. CASE RemoveTorn \/ AppEnds \/ UNCHANGED moveVars
    BY <2>7 DEF RemoveTorn, AppEnds, moveVars
  <2> QED BY <2>1, <2>2, <2>3, <2>4, <2>5, <2>6, <2>7 DEF MoveNext
<1>3. MoveSafe => PackageKept
  BY DEF MoveSafe
<1> QED BY <1>1, <1>2, <1>3, PTL DEF MoveSpec

\* The package, the copy and the place of the move keep their types.
LEMMA MoveTypes == MoveSpec => []MoveTypeOK
<1>1. MoveInit => MoveTypeOK
  BY DEF MoveInit, MoveTypeOK
<1>2. MoveTypeOK /\ [MoveNext]_moveVars => MoveTypeOK'
  <2> SUFFICES ASSUME MoveTypeOK, [MoveNext]_moveVars PROVE MoveTypeOK'
    OBVIOUS
  <2> USE DEF MoveTypeOK
  <2>1. CASE MoveBegins \/ CopyPackage \/ ValidateMove \/ UnlinkPackage \/ LinkPackage
    BY <2>1 DEF MoveBegins, CopyPackage, ValidateMove, UnlinkPackage, LinkPackage
  <2>2. CASE RestoreBegins \/ UninstallGame
    <3>1. gaveUp' \in BOOLEAN
      BY <2>2, Zenon DEF RestoreBegins, UninstallGame
    <3> QED BY <2>2, <3>1 DEF RestoreBegins, UninstallGame
  <2>3. CASE InstallCopy \/ RestoreEnds \/ InstallAgain \/ RemoveTorn \/ AppEnds
    BY <2>3 DEF InstallCopy, RestoreEnds, InstallAgain, RemoveTorn, AppEnds
  <2>4. CASE MoveExtras \/ StickMoves
    BY <2>4 DEF MoveExtras, StickMoves
  <2>5. CASE UNCHANGED moveVars
    BY <2>5 DEF moveVars
  <2> QED BY <2>1, <2>2, <2>3, <2>4, <2>5 DEF MoveNext
<1> QED BY <1>1, <1>2, PTL DEF MoveSpec

-----------------------------------------------------------------------------
(* SelfUpdate: the settings of the user survive an update, whatever step   *)
(* of the app, of the daemon or of the installation fails.                 *)
(*                                                                         *)
(* SettingsKept is not inductive: it does not say which of the two copies  *)
(* the next step may overwrite.  Kept says that for every step of either   *)
(* process, that the two do not work at a time, and that the store         *)
(* replaces no app that was not saved.                                     *)

Kept ==
  \/ excused
  \/ /\ "latest" \in {iniFile, backup} \/ appPc = "writing"
     /\ appPc = "writing" => ~UnsafeSave
     /\ Updating => appPc \in {"wait", "off"}
     /\ backup \in {"old", "defaults", "torn"} => handlerPc = "backup" \/ appPc = "saving"
     /\ appPc \in {"saving", "removing", "check"} \/ handlerPc = "backup" => iniFile = "latest"
     /\ appPc \in {"restoring", "update"} \/ handlerPc \notin {"idle", "backup"}
          => backup = "latest"
     /\ handlerPc = "backup" => backup # "none"
     /\ store => backup = "latest" \/ appPc = "saving" \/ handlerPc = "backup"
     /\ store => appPc \in {"run", "off", "saving", "update", "wait"}

UpdIInv == UpdTypeOK /\ Kept

\* The start is in the invariant.
LEMMA UpdInitHolds == UpdInit => UpdIInv
  BY DEF UpdInit, UpdIInv, UpdTypeOK, Kept, Content, Handling, Updating

\* Every step keeps the types.
LEMMA UpdTypeStep == UpdTypeOK /\ [UpdNext]_updVars => UpdTypeOK'
<1> SUFFICES ASSUME UpdTypeOK, [UpdNext]_updVars PROVE UpdTypeOK'
  OBVIOUS
<1> USE DEF UpdTypeOK, Content, Handling
<1>1. CASE StartApp
  BY <1>1 DEF StartApp, Updating
<1>2. CASE RestoreOpens \/ RestoreWrites \/ RemoveTmp \/ CheckForUpdate
  <2>1. excused' \in BOOLEAN
    BY <1>2, Zenon DEF RestoreOpens, RestoreWrites, RemoveTmp, CheckForUpdate
  <2> QED BY <1>2, <2>1 DEF RestoreOpens, RestoreWrites, RemoveTmp, CheckForUpdate
<1>3. CASE SaveOpens \/ SaveWrites \/ BackupOpens \/ BackupWrites
  <2>1. excused' \in BOOLEAN
    BY <1>3, Zenon DEF SaveOpens, SaveWrites, BackupOpens, BackupWrites, UnsafeSave
  <2> QED BY <1>3, <2>1 DEF SaveOpens, SaveWrites, BackupOpens, BackupWrites
<1>4. CASE do_update \/ CloseApp \/ StoreUpdates \/ Reinstall
  BY <1>4 DEF do_update, CloseApp, StoreUpdates, Reinstall, Updating
<1>5. CASE HandlerBegins \/ HandlerBacksUp \/ NothingToInstall
  BY <1>5 DEF HandlerBegins, HandlerBacksUp, NothingToInstall, Answered
<1>6. CASE InstallUpdate
  <2>1. installed' \in BOOLEAN
    BY <1>6, Zenon DEF InstallUpdate
  <2>2. /\ handlerPc' \in {"uninstalled", "back"} /\ iniFile' \in {iniFile, "gone"}
        /\ UNCHANGED <<backup, inMemory, pkg, store, appPc, request, excused>>
    BY <1>6, Zenon DEF InstallUpdate
  <2> QED BY <2>1, <2>2
<1>7. CASE CopyBackOpens \/ CopyBackWrites \/ HandlerEnds \/ DaemonDies
  BY <1>7 DEF CopyBackOpens, CopyBackWrites, HandlerEnds, RemoveBackup, DaemonDies, Answered
<1>8. CASE UNCHANGED updVars
  BY <1>8 DEF updVars
<1> QED BY <1>1, <1>2, <1>3, <1>4, <1>5, <1>6, <1>7, <1>8 DEF UpdNext

\* Every step of the app keeps the settings.
LEMMA KeptByApp ==
  ASSUME UpdIInv,
         \/ StartApp \/ RestoreOpens \/ RestoreWrites \/ RemoveTmp \/ CheckForUpdate
         \/ SaveOpens \/ SaveWrites \/ BackupOpens \/ BackupWrites \/ do_update \/ CloseApp
         \/ StoreUpdates \/ Reinstall
  PROVE  Kept'
<1> USE DEF UpdIInv, UpdTypeOK, Kept, UnsafeSave, Content, Handling, Updating
<1>1. CASE StartApp
  BY <1>1 DEF StartApp, FindsBackup
<1>2. CASE RestoreOpens
  BY <1>2 DEF RestoreOpens
<1>3. CASE RestoreWrites
  BY <1>3 DEF RestoreWrites
<1>4. CASE RemoveTmp
  BY <1>4 DEF RemoveTmp
<1>5. CASE CheckForUpdate
  BY <1>5 DEF CheckForUpdate
<1>6. CASE SaveOpens \/ SaveWrites
  <2>1. CASE SaveOpens
    BY <2>1 DEF SaveOpens
  <2>2. CASE SaveWrites
    BY <2>2 DEF SaveWrites
  <2> QED BY <1>6, <2>1, <2>2
<1>7. CASE BackupOpens \/ BackupWrites
  BY <1>7 DEF BackupOpens, BackupWrites
<1>8. CASE do_update
  BY <1>8 DEF do_update
<1>9. CASE CloseApp \/ StoreUpdates \/ Reinstall
  BY <1>9 DEF CloseApp, StoreUpdates, Reinstall
<1> QED BY <1>1, <1>2, <1>3, <1>4, <1>5, <1>6, <1>7, <1>8, <1>9

\* Every step of the daemon keeps the settings.
LEMMA KeptByDaemon ==
  ASSUME UpdIInv,
         \/ HandlerBegins \/ HandlerBacksUp \/ NothingToInstall \/ InstallUpdate
         \/ CopyBackOpens \/ CopyBackWrites \/ HandlerEnds \/ DaemonDies
  PROVE  Kept'
<1> USE DEF UpdIInv, UpdTypeOK, Kept, UnsafeSave, Content, Handling, Updating
<1>1. CASE HandlerBegins
  BY <1>1 DEF HandlerBegins
<1>2. CASE HandlerBacksUp
  BY <1>2 DEF HandlerBacksUp
<1>3. CASE NothingToInstall
  BY <1>3 DEF NothingToInstall, Answered
<1>4. CASE InstallUpdate
  BY <1>4 DEF InstallUpdate
<1>5. CASE CopyBackOpens \/ CopyBackWrites
  BY <1>5 DEF CopyBackOpens, CopyBackWrites
<1>6. CASE HandlerEnds
  BY <1>6 DEF HandlerEnds, RemoveBackup, Answered
<1>7. CASE DaemonDies
  BY <1>7 DEF DaemonDies
<1> QED BY <1>1, <1>2, <1>3, <1>4, <1>5, <1>6, <1>7

\* The invariant is inductive.
LEMMA UpdStep == UpdIInv /\ [UpdNext]_updVars => UpdIInv'
<1> SUFFICES ASSUME UpdIInv, [UpdNext]_updVars PROVE UpdIInv'
  OBVIOUS
<1>1. UpdTypeOK'
  BY UpdTypeStep DEF UpdIInv
<1>2. Kept'
  <2>1. CASE UNCHANGED updVars
    BY <2>1 DEF updVars, UpdIInv, Kept, UnsafeSave, Updating
  <2> QED BY <2>1, KeptByApp, KeptByDaemon DEF UpdNext
<1> QED BY <1>1, <1>2 DEF UpdIInv

\* Every state of an update satisfies the invariant.
THEOREM UpdInvariant == UpdSpec => []UpdIInv
  BY UpdInitHolds, UpdStep, PTL DEF UpdSpec

\* A whole copy of the settings saved last is on the disk at every step of the
\* app and of the daemon, but for the excused ones.
THEOREM SettingsAlwaysKept == UpdSpec => []SettingsKept
<1>1. UpdIInv => SettingsKept
  BY DEF UpdIInv, Kept, SettingsKept
<1> QED BY <1>1, UpdInvariant, PTL

\* An app that has started works on the settings saved last: what an update that
\* failed left behind was copied back before.
THEOREM StartsRepaired == UpdSpec => StartRepairs
<1>1. UpdIInv /\ [UpdNext]_updVars
        => [CheckForUpdate => iniFile = "latest" \/ excused]_updVars
  BY DEF UpdIInv, Kept, CheckForUpdate
<1> QED BY <1>1, UpdInvariant, PTL DEF UpdSpec, StartRepairs
=============================================================================
