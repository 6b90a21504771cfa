----------------------------- MODULE SelfUpdate -----------------------------
(***************************************************************************)
(* The settings of the user across an update of the app.  An update        *)
(* removes the app's folder and what the user keeps in it, so the app      *)
(* (itemzflow/source/GLES2_itemzflow.cpp, utils.cpp) and the daemon        *)
(* (INSTALL_IF_UPDATE, itemz-daemon/source/rpc.cpp) copy it to             *)
(* /user/update_tmp before, and back after; the app also copies it back    *)
(* when it starts.  The loader writes a file of defaults where it finds    *)
(* none.  Both processes can die at any step.                              *)
(*                                                                         *)
(* settings.ini stands for the three things copied (it, covers and names); *)
(* a copy is two steps, the target is truncated first.  Either may fail,   *)
(* and no caller looks whether it did: a target that cannot be opened is   *)
(* left as it is, one that cannot be written to is torn.  (A failing read  *)
(* of the source is as a copy that never ends: the step is not taken.)     *)
(* A file is known by how it compares with the settings the user saved     *)
(* last.  At most one request waits for the handler of an earlier one.     *)
(***************************************************************************)
VARIABLES
  iniFile,     \* /user/app/ITEM00001/settings.ini
  backup,      \* /user/update_tmp, and settings.ini in it
  inMemory,    \* the settings of the running app
  pkg,         \* /user/app/if_update.pkg
  installed,   \* the app is
  store,       \* the store was opened to update the app, and has not done it
  appPc,
  request,     \* INSTALL_IF_UPDATE waits for ipc_mutex
  handlerPc,   \* of the daemon's handler
  excused      \* history: what the code does not guard against has happened
               \* since the settings were last saved safely

updVars == <<iniFile, backup, inMemory, pkg, installed, store, appPc, request, handlerPc, excused>>

Content == {"latest", "old", "defaults", "torn"}
Handling == {"idle", "backup", "install", "uninstalled", "back", "writing", "clean"}

UpdTypeOK ==
  /\ iniFile \in Content \cup {"gone"}
  /\ backup \in Content \cup {"none", "empty"}
  /\ inMemory \in {"latest", "old", "defaults"}
  /\ pkg \in {"none", "zero", "some"}
  /\ installed \in BOOLEAN /\ store \in BOOLEAN
  /\ appPc \in {"off", "found", "restoring", "removing", "check", "run", "writing",
                "saving", "update", "wait"}
  /\ request \in BOOLEAN
  /\ handlerPc \in Handling
  /\ excused \in BOOLEAN

UpdInit ==
  /\ iniFile = "latest" /\ backup = "none" /\ inMemory = "latest"
  /\ pkg = "none" /\ installed = TRUE /\ store = FALSE
  /\ appPc = "off" /\ request = FALSE /\ handlerPc = "idle" /\ excused = FALSE

-----------------------------------------------------------------------------
(* Slips a change to the code could make, for the mutation runs *)

\* rmtree instead of the rmdir that fails, as the folder is not empty.
RemoveBackup_rmtree == backup' = "none"

\* The backup is looked for only if there is no settings.ini.
FindsBackup_ifGone == backup # "none" /\ iniFile = "gone"

-----------------------------------------------------------------------------
(* The app, from the loader on *)

\* The daemon was asked to update the app, and has not done it.
Updating == request \/ handlerPc # "idle"

FindsBackup == backup # "none"

\* The loader writes defaults if there is no file, LoadOptions reads the file,
\* check_for_update_file looks for the folder.
StartApp ==
  /\ appPc = "off" /\ installed
  /\ iniFile' = IF iniFile = "gone" THEN "defaults" ELSE iniFile
  /\ inMemory' = IF iniFile' = "torn" THEN "defaults" ELSE iniFile'
  /\ appPc' = IF FindsBackup THEN "found" ELSE "check"
  /\ store' = FALSE
  /\ excused' = (excused \/ Updating)
  /\ UNCHANGED <<backup, pkg, installed, request, handlerPc>>

\* copyFile: a source that is not there leaves the target alone.
RestoreOpens ==
  /\ appPc = "found"
  /\ \/ backup \in Content /\ appPc' = "restoring" /\ iniFile' = "torn" /\ UNCHANGED excused
     \/ backup \notin Content /\ appPc' = "removing" /\ UNCHANGED <<iniFile, excused>>
     \/ /\ backup \in Content /\ appPc' = "removing" /\ UNCHANGED iniFile   \* fails
        /\ excused' = (excused \/ iniFile # "latest")
  /\ UNCHANGED <<backup, inMemory, pkg, installed, store, request, handlerPc>>

\* Whether it succeeds or fails, the backup is removed next.
RestoreWrites ==
  /\ appPc = "restoring" /\ appPc' = "removing"
  /\ \/ iniFile' = (IF backup \in Content THEN backup ELSE "torn") /\ UNCHANGED excused
     \/ iniFile' = "torn" /\ excused' = TRUE   \* fails
  /\ UNCHANGED <<backup, inMemory, pkg, installed, store, request, handlerPc>>

\* rmtree, which the death of the app can stop after settings.ini.
RemoveTmp ==
  /\ appPc = "removing"
  /\ \/ backup' = "none" /\ appPc' = "check"
     \/ backup # "none" /\ backup' = "empty" /\ appPc' = "off"
  /\ UNCHANGED <<iniFile, inMemory, pkg, installed, store, request, handlerPc, excused>>

\* if_update.pkg, also from USB, is sent to the daemon if the app is connected.
CheckForUpdate ==
  /\ appPc = "check"
  /\ \/ pkg # "none" /\ request' = TRUE /\ appPc' = "wait" /\ UNCHANGED pkg
     \/ pkg = "none" /\ pkg' = "some" /\ request' = TRUE /\ appPc' = "wait"
     \/ appPc' = "run" /\ UNCHANGED <<request, pkg>>
  /\ UNCHANGED <<iniFile, backup, inMemory, installed, store, handlerPc, excused>>

\* SaveOptions truncates the file and writes the settings in memory, which are
\* not the user's in a session that restored them after it had loaded defaults.
UnsafeSave == inMemory # "latest" \/ backup # "none" \/ Updating \/ store

SaveOpens ==
  /\ appPc = "run" /\ installed
  /\ appPc' = "writing" /\ iniFile' = "torn"
  /\ backup' = IF inMemory = "latest" /\ backup = "latest" THEN "old" ELSE backup
  /\ excused' = (excused \/ UnsafeSave)
  /\ UNCHANGED <<inMemory, pkg, installed, store, request, handlerPc>>

SaveWrites ==
  /\ appPc = "writing" /\ appPc' = "run"
  /\ \/ iniFile' = inMemory /\ excused' = UnsafeSave
     \/ iniFile' = "torn" /\ excused' = TRUE   \* fails
  /\ UNCHANGED <<backup, inMemory, pkg, installed, store, request, handlerPc>>

\* The option to update: the app saves to update_tmp ...
BackupOpens ==
  /\ appPc = "run" /\ iniFile # "gone"
  /\ \/ appPc' = "saving" /\ backup' = "torn"
        /\ excused' = (excused \/ Updating \/ iniFile # "latest")
     \/ /\ appPc' = "update" /\ excused' = TRUE   \* fails, also to make the folder
        /\ backup' \in IF backup = "none" THEN {"none", "empty"} ELSE {backup}
  /\ UNCHANGED <<iniFile, inMemory, pkg, installed, store, request, handlerPc>>

BackupWrites ==
  /\ appPc = "saving" /\ appPc' = "update"
  /\ \/ backup' = (IF iniFile = "gone" THEN "torn" ELSE iniFile) /\ UNCHANGED excused
     \/ backup' = "torn" /\ excused' = TRUE   \* fails
  /\ UNCHANGED <<iniFile, inMemory, pkg, installed, store, request, handlerPc>>

\* ... and do_update downloads and asks the daemon, or opens the store, or
\* fails, with the backup left behind in any case.
do_update ==
  /\ appPc = "update"
  /\ \/ request' = TRUE /\ appPc' = "wait" /\ pkg' \in {pkg, "some"} /\ UNCHANGED store
     \/ appPc' = "run" /\ pkg' \in {pkg, "zero", "some"} /\ UNCHANGED <<request, store>>
     \/ appPc' = "run" /\ store' = TRUE /\ UNCHANGED <<request, pkg>>
  /\ UNCHANGED <<iniFile, backup, inMemory, installed, handlerPc, excused>>

\* The user closes the app, or it crashes, which removes the package; half way
\* into the backup it leaves a part, which the next start copies back, and half
\* way into a save nothing.
CloseApp ==
  /\ appPc # "off" /\ appPc' = "off" /\ pkg' \in {pkg, "none"}
  /\ excused' = (excused \/ appPc \in {"saving", "writing"})
  /\ UNCHANGED <<iniFile, backup, inMemory, installed, store, request, handlerPc>>

\* The store replaces the app, before it is started again.
StoreUpdates ==
  /\ store /\ store' = FALSE
  /\ appPc' = "off" /\ iniFile' = "gone" /\ installed' = TRUE
  /\ excused' = (excused \/ Updating \/ appPc \in {"saving", "writing"})
  /\ UNCHANGED <<backup, inMemory, pkg, request, handlerPc>>

\* A user installs the app that a failed update removed, or provides a package.
Reinstall ==
  /\ ~installed /\ installed' = TRUE
  /\ UNCHANGED <<iniFile, backup, inMemory, pkg, store, appPc, request, handlerPc, excused>>

-----------------------------------------------------------------------------
(* The daemon: INSTALL_IF_UPDATE under ipc_mutex *)

\* The app waits for this answer, not for that to a request still to come.
Answered == appPc = "wait" /\ ~request

HandlerBegins ==
  /\ request /\ handlerPc = "idle" /\ request' = FALSE
  /\ \/ /\ iniFile # "gone" /\ handlerPc' = "backup" /\ backup' = "torn"
        /\ excused' = (excused \/ iniFile # "latest")
     \/ /\ handlerPc' = "install"   \* there is no source, or opening the target fails
        /\ backup' \in IF backup = "none" THEN {"none", "empty"} ELSE {backup}
        /\ excused' = (excused \/ iniFile # "gone")
  /\ UNCHANGED <<iniFile, inMemory, pkg, installed, store, appPc>>

\* The app is uninstalled next, whatever became of the copy.
HandlerBacksUp ==
  /\ handlerPc = "backup" /\ handlerPc' = "install"
  /\ \/ /\ backup' = IF backup = "none" \/ iniFile = "gone" THEN backup ELSE iniFile
        /\ UNCHANGED excused
     \/ backup' = "torn" /\ excused' = TRUE   \* fails
  /\ UNCHANGED <<iniFile, inMemory, pkg, installed, store, appPc, request>>

\* Nothing to install: INVALID, the app goes on.
NothingToInstall ==
  /\ handlerPc = "install" /\ pkg # "some" /\ handlerPc' = "idle"
  /\ appPc' = IF Answered THEN "run" ELSE appPc
  /\ UNCHANGED <<iniFile, backup, inMemory, pkg, installed, store, request, excused>>

\* pkginstall removes the installed app first; its result is only logged.
InstallUpdate ==
  /\ \/ handlerPc = "install" /\ pkg = "some" /\ installed
        /\ handlerPc' = "uninstalled" /\ installed' = FALSE /\ iniFile' = "gone"
     \/ /\ handlerPc = "install" /\ pkg = "some" /\ handlerPc' = "back"
        /\ UNCHANGED <<installed, iniFile>>
     \/ /\ handlerPc = "uninstalled" /\ handlerPc' = "back"
        /\ installed' \in BOOLEAN /\ UNCHANGED iniFile
     \/ /\ handlerPc = "install" /\ pkg = "some" /\ ~installed
        /\ handlerPc' = "back" /\ installed' = TRUE /\ UNCHANGED iniFile
  /\ UNCHANGED <<backup, inMemory, pkg, store, appPc, request, excused>>

\* Copying back fails without a folder to copy to, and may fail with one.
CopyBackOpens ==
  /\ handlerPc = "back"
  /\ \/ backup \in Content /\ installed /\ handlerPc' = "writing" /\ iniFile' = "torn"
     \/ handlerPc' = "clean" /\ UNCHANGED iniFile
  /\ UNCHANGED <<backup, inMemory, pkg, installed, store, appPc, request, excused>>

CopyBackWrites ==
  /\ handlerPc = "writing" /\ handlerPc' = "clean"
  /\ iniFile' \in {IF backup \in Content THEN backup ELSE iniFile, "torn"}
  /\ UNCHANGED <<backup, inMemory, pkg, installed, store, appPc, request, excused>>

RemoveBackup == UNCHANGED backup

\* NO_ERROR: the app quits.
HandlerEnds ==
  /\ handlerPc = "clean" /\ handlerPc' = "idle"
  /\ pkg' = "none"
  /\ RemoveBackup
  /\ appPc' = IF Answered THEN "off" ELSE appPc
  /\ UNCHANGED <<iniFile, inMemory, installed, store, request, excused>>

\* Rest mode, or a crash; the app's receive fails.
DaemonDies ==
  /\ handlerPc' = "idle" /\ request' = FALSE
  /\ appPc' = IF appPc = "wait" THEN "run" ELSE appPc
  /\ excused' = (excused \/ handlerPc = "backup")
  /\ UNCHANGED <<iniFile, backup, inMemory, pkg, installed, store>>

UpdNext ==
  \/ StartApp \/ RestoreOpens \/ RestoreWrites \/ RemoveTmp \/ CheckForUpdate
  \/ SaveOpens \/ SaveWrites \/ BackupOpens \/ BackupWrites \/ do_update \/ CloseApp
  \/ StoreUpdates \/ Reinstall
  \/ HandlerBegins \/ HandlerBacksUp \/ NothingToInstall \/ InstallUpdate
  \/ CopyBackOpens \/ CopyBackWrites \/ HandlerEnds \/ DaemonDies

UpdSpec == UpdInit /\ [][UpdNext]_updVars

-----------------------------------------------------------------------------
(* Properties *)

\* Whatever step the app, the daemon or the installation fails at, also copying
\* back, a whole copy of the settings the user saved last is on the disk, or in
\* the memory of the app that is saving them.  Excused is a save while a backup is
\* there or the store is to replace the app, or by a session that loaded defaults
\* before it restored the backup; an app started, saving or replaced while the
\* daemon updates it; a death half way into a save or the backup; and a save, a
\* backup or a restore that fails, which the code does not notice.
SettingsKept == "latest" \in {iniFile, backup} \/ appPc = "writing" \/ excused

\* An app that has started works on them: what an update that failed or was cut
\* off left is repaired by then.
StartRepairs ==
  [][CheckForUpdate => iniFile = "latest" \/ excused]_updVars
=============================================================================
