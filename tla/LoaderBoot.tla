----------------------------- MODULE LoaderBoot -----------------------------
(***************************************************************************)
(* The loader (itemz-loader/source/main.c, app.cpp, daemon.cpp): the start *)
(* of the app installs the daemon it ships into DAEMON_PATH, tells a       *)
(* daemon that runs to start again from there (DEAMON_UPDATE), launches it *)
(* if none runs, and executes itself again, up to three times, as long as  *)
(* there is none.  The installation is cut off at any step when the user   *)
(* closes the app or the console is turned off, mounting and copying fail, *)
(* and the daemon, a process of its own, comes up, quits and fails when it *)
(* likes.                                                                  *)
(***************************************************************************)
EXTENDS Naturals

CONSTANT MaxBoots   \* 3 in the code

ASSUME MaxBootsAssumption == MaxBoots \in Nat

VARIABLES
  folder,      \* DAEMON_PATH, by its eboot.bin
  proc,        \* the daemon's process
  version,     \* the daemon it runs
  loaderPc, boots,
  failed       \* history: mounting, removing, copying or starting failed in this
               \* run of the loader, or the daemon died, or was not up yet to be told

loaderVars == <<folder, proc, version, loaderPc, boots, failed>>
daemonProc == <<proc, version>>

LoaderTypeOK ==
  /\ folder \in {"missing", "partial", "torn", "old", "shipped"}
  /\ proc \in {"off", "booting", "up", "told"}
  /\ version \in {"torn", "old", "shipped"}
  /\ loaderPc \in {"off", "start", "mount", "remove", "copy", "eboot", "write", "tell",
                  "launch", "main", "app", "stuck"}
  /\ boots \in 0..MaxBoots /\ failed \in BOOLEAN

LoaderInit ==
  /\ folder = "missing" /\ proc = "off" /\ version = "old"
  /\ loaderPc = "off" /\ boots = 0 /\ failed = FALSE

-----------------------------------------------------------------------------
(* Slips a change to the code could make, for the mutation runs *)

\* A folder without eboot.bin is not outdated: res starts as false.
is_daemon_outdated_false == folder \in {"torn", "old"}

\* The handler of DEAMON_UPDATE does not set reboot_daemon.
QuitForUpdate_exits == proc' = "off" /\ UNCHANGED version

\* The loader executes itself without counting.
NextBoot_same == UNCHANGED boots

-----------------------------------------------------------------------------
\* The user starts the app: main with the path of the loader in argv[0].
StartLoader ==
  /\ loaderPc = "off" /\ loaderPc' = "start"
  /\ boots' = 0 /\ failed' = FALSE
  /\ UNCHANGED <<folder, daemonProc>>

\* MD5_hash_compare returns true before it compares, for the braces missing
\* after its first test; without an eboot.bin it is not called.
is_daemon_outdated == TRUE

CheckDaemon ==
  /\ loaderPc = "start"
  /\ loaderPc' = IF folder = "missing" \/ is_daemon_outdated THEN "mount" ELSE "launch"
  /\ UNCHANGED <<folder, daemonProc, boots, failed>>

\* boot_daemon_services returns false: without launching a daemon.
GiveUp == loaderPc' = "main" /\ failed' = TRUE

MountSystem ==
  /\ loaderPc = "mount"
  /\ (loaderPc' = "remove" /\ UNCHANGED failed) \/ GiveUp
  /\ UNCHANGED <<folder, daemonProc, boots>>

\* rmtree and mkdir, whose results are ignored
RemoveFolder ==
  /\ loaderPc = "remove" /\ loaderPc' = "copy"
  /\ \/ folder' = "partial" /\ UNCHANGED failed
     \/ UNCHANGED folder /\ failed' = TRUE
  /\ UNCHANGED <<daemonProc, boots>>

\* copyFile keeps the result of sceKernelRead in a size_t: a read that fails is
\* repeated for ever.
ReadsForever == loaderPc' = "stuck" /\ UNCHANGED failed

\* A write that fails is ignored, a file that cannot be opened is not.
CopyParts ==
  /\ loaderPc = "copy"
  /\ \/ folder # "missing" /\ loaderPc' = "eboot" /\ failed' \in {failed, TRUE}
     \/ GiveUp
     \/ ReadsForever
  /\ UNCHANGED <<folder, daemonProc, boots>>

EbootOpens ==
  /\ loaderPc = "eboot"
  /\ \/ loaderPc' = "write" /\ folder' = "torn" /\ UNCHANGED failed
     \/ GiveUp /\ UNCHANGED folder
  /\ UNCHANGED <<daemonProc, boots>>

EbootWrites ==
  /\ loaderPc = "write"
  /\ \/ loaderPc' = "tell" /\ folder' = "shipped" /\ UNCHANGED failed
     \/ loaderPc' = "tell" /\ UNCHANGED folder /\ failed' = TRUE
     \/ ReadsForever /\ UNCHANGED folder
  /\ UNCHANGED <<daemonProc, boots>>

\* DEAMON_UPDATE, to a daemon that listens already.
TellDaemon ==
  /\ loaderPc = "tell" /\ loaderPc' = "launch"
  /\ proc' = IF proc = "up" THEN "told" ELSE proc
  /\ failed' = (failed \/ proc = "booting")
  /\ UNCHANGED <<folder, version, boots>>

\* A process starts from what is in the folder.
StartProcess ==
  IF folder \in {"missing", "partial"} THEN proc' = "off" /\ UNCHANGED version
                                       ELSE proc' = "booting" /\ version' = folder

LaunchDaemon ==
  /\ loaderPc = "launch" /\ loaderPc' = "main"
  /\ IF proc = "off" THEN StartProcess ELSE UNCHANGED daemonProc
  /\ UNCHANGED <<folder, boots, failed>>

NextBoot == boots' = boots + 1

\* main: sceSystemServiceLoadExec of the loader, or of ItemzCore.self.
ExecAgain ==
  /\ loaderPc = "main" /\ boots < MaxBoots /\ proc = "off"
  /\ loaderPc' = "start" /\ failed' = FALSE
  /\ NextBoot
  /\ UNCHANGED <<folder, daemonProc>>

ExecApp ==
  /\ loaderPc = "main" /\ (boots < MaxBoots => proc # "off")
  /\ loaderPc' = "app"
  /\ UNCHANGED <<folder, daemonProc, boots, failed>>

Loader ==
  \/ CheckDaemon \/ MountSystem \/ RemoveFolder \/ CopyParts \/ EbootOpens \/ EbootWrites
  \/ TellDaemon \/ LaunchDaemon \/ ExecAgain \/ ExecApp

-----------------------------------------------------------------------------
(* The daemon, the user and the console *)

DaemonUp ==
  /\ proc = "booting"
  /\ \/ version # "torn" /\ proc' = "up" /\ UNCHANGED failed
     \/ version = "torn" /\ proc' = "off" /\ UNCHANGED failed
     \/ proc' = "off" /\ failed' = TRUE
  /\ UNCHANGED <<folder, version, loaderPc, boots>>

\* SIG_Handler executes eboot.bin, as reboot_daemon is set.
QuitForUpdate == StartProcess

DaemonUpdates ==
  /\ proc = "told"
  /\ QuitForUpdate
  /\ UNCHANGED <<folder, loaderPc, boots, failed>>

DaemonCrashes ==
  /\ proc # "off" /\ proc' = "off" /\ failed' = TRUE
  /\ UNCHANGED <<folder, version, loaderPc, boots>>

CloseLoader ==
  /\ loaderPc # "off" /\ loaderPc' = "off"
  /\ UNCHANGED <<folder, daemonProc, boots, failed>>

TurnOff ==
  /\ loaderPc' = "off" /\ proc' = "off"
  /\ UNCHANGED <<folder, version, boots, failed>>

\* An update of the app ships another daemon.
ShipNext ==
  /\ loaderPc = "off"
  /\ folder' = IF folder = "shipped" THEN "old" ELSE folder
  /\ version' = IF version = "shipped" THEN "old" ELSE version
  /\ UNCHANGED <<proc, loaderPc, boots, failed>>

LoaderNext ==
  \/ StartLoader \/ Loader \/ DaemonUp \/ DaemonUpdates \/ DaemonCrashes \/ CloseLoader \/ TurnOff
  \/ ShipNext

LoaderSpec == LoaderInit /\ [][LoaderNext]_loaderVars

\* The loader runs, and so does the daemon.
LoaderFairSpec ==
  LoaderSpec /\ WF_loaderVars(Loader) /\ WF_loaderVars(DaemonUp) /\ WF_loaderVars(DaemonUpdates)

-----------------------------------------------------------------------------
(* Properties *)

\* The app starts with the daemon it ships installed whole, however the runs of
\* the loader before were cut off, unless mounting or copying failed in the last.
InstallsDaemon == loaderPc = "app" => folder = "shipped" \/ failed

\* And then that daemon is the one that runs in the end: an old one does not go
\* on, unless it was about to come up as it was told, and a new one does not
\* stay away.
DaemonRenewed ==
  <>[](loaderPc = "app") => <>(failed \/ [](proc = "up" /\ version = "shipped"))

\* The loader ends, also if no daemon can be started, unless a read fails while it
\* copies.
LoaderEnds == loaderPc # "off" ~> loaderPc \in {"off", "app", "stuck"}
=============================================================================
