------------------------------- MODULE AppMove -------------------------------
(***************************************************************************)
(* Moving the package of an app to a USB stick and back (the options       *)
(* MOVE_APPS, RESTORE_APPS and UNINSTALL of the app,                       *)
(* itemzflow/source/GLES2_itemzflow.cpp).  A move copies the package,      *)
(* compares the two, and puts a link in the place of the first; a restore  *)
(* removes what is in that place, and installs from the stick.  Copying    *)
(* takes minutes: the stick is full or pulled, or the app dies under it.   *)
(*                                                                         *)
(* The base package of one app, and one stick; of its add-ons and its      *)
(* update only whether they are on the stick.  The license files are left  *)
(* out.                                                                    *)
(***************************************************************************)
VARIABLES
  package,    \* what is at /user/app/<title id>/app.pkg
  copy,       \* app.pkg in the folder of the app on the stick
  extras,     \* app_dlc.pkg or app_patch.pkg is in that folder
  plugged,    \* the stick is
  movePc,
  gaveUp      \* history: the user removed the app, or restored it without a
              \* whole copy

moveVars == <<package, copy, extras, plugged, movePc, gaveUp>>

MoveTypeOK ==
  /\ package \in {"pkg", "link", "none"}
  /\ copy \in {"none", "torn", "whole"}
  /\ extras \in BOOLEAN /\ plugged \in BOOLEAN
  /\ movePc \in {"menu", "copy", "compare", "unlink", "link", "install", "progress"}
  /\ gaveUp \in BOOLEAN

MoveInit ==
  /\ package = "pkg" /\ copy = "none" /\ extras = FALSE /\ plugged = TRUE
  /\ movePc = "menu" /\ gaveUp = FALSE

-----------------------------------------------------------------------------
(* A slip a change to the code could make, for the mutation runs *)

\* copyFile returned true, so the copy is taken for good.
MD5_file_compare_skipped == TRUE

-----------------------------------------------------------------------------
(* MOVE_APPS *)

\* A copy that is there, of whatever length, is taken for a backup; copyFile
\* truncates the target.
MoveBegins ==
  /\ movePc = "menu" /\ plugged /\ package = "pkg" /\ copy = "none"
  /\ copy' = "torn" /\ movePc' = "copy"
  /\ UNCHANGED <<package, extras, plugged, gaveUp>>

\* Failing writes are not noticed.
CopyPackage ==
  /\ movePc = "copy" /\ movePc' = "compare"
  /\ copy' \in IF plugged THEN {"torn", "whole"} ELSE {"torn"}
  /\ UNCHANGED <<package, extras, plugged, gaveUp>>

MD5_file_compare == plugged /\ copy = "whole"

\* A copy that failed is left on the stick.
ValidateMove ==
  /\ movePc = "compare"
  /\ movePc' = IF MD5_file_compare THEN "unlink" ELSE "menu"
  /\ UNCHANGED <<package, copy, extras, plugged, gaveUp>>

UnlinkPackage ==
  /\ movePc = "unlink" /\ movePc' = "link"
  /\ package' = "none"
  /\ UNCHANGED <<copy, extras, plugged, gaveUp>>

\* symlink, whose failure is logged.
LinkPackage ==
  /\ movePc = "link" /\ movePc' = "menu"
  /\ package' \in {"link", "none"}
  /\ UNCHANGED <<copy, extras, plugged, gaveUp>>

-----------------------------------------------------------------------------
(* RESTORE_APPS *)

\* Any package of the app on the stick will do; then unlink(dst), "the Symlink
\* we had": what is there is not looked at.
RestoreBegins ==
  /\ movePc = "menu" /\ plugged /\ (copy # "none" \/ extras)
  /\ package' = "none" /\ movePc' = "install"
  /\ gaveUp' = (gaveUp \/ copy # "whole")
  /\ UNCHANGED <<copy, extras, plugged>>

\* pkginstall refuses a package that it cannot read, and ends for many other
\* reasons; or the title is uninstalled, and a task of the system registered.
InstallCopy ==
  /\ movePc = "install"
  /\ \/ plugged /\ copy = "whole" /\ movePc' = "progress"
     \/ movePc' = "menu"
  /\ UNCHANGED <<package, copy, extras, plugged, gaveUp>>

\* install_prog: the copy is removed when all of it was transferred.
RestoreEnds ==
  /\ movePc = "progress" /\ movePc' = "menu"
  /\ \/ plugged /\ package' = "pkg" /\ copy' = "none" /\ gaveUp' = FALSE
     \/ UNCHANGED <<package, copy, gaveUp>>
  /\ UNCHANGED <<extras, plugged>>

-----------------------------------------------------------------------------
\* UNINSTALL of the game.
UninstallGame ==
  /\ movePc = "menu" /\ package # "none"
  /\ package' = "none" /\ gaveUp' = (gaveUp \/ copy # "whole")
  /\ UNCHANGED <<copy, extras, plugged, movePc>>

\* The user installs the app again.
InstallAgain ==
  /\ package = "none" /\ movePc = "menu"
  /\ package' = "pkg" /\ gaveUp' = FALSE
  /\ UNCHANGED <<copy, extras, plugged, movePc>>

\* The same for the add-ons or the update.
MoveExtras ==
  /\ movePc = "menu" /\ plugged /\ extras' = ~extras
  /\ UNCHANGED <<package, copy, plugged, movePc, gaveUp>>

StickMoves ==
  /\ plugged' = ~plugged
  /\ UNCHANGED <<package, copy, extras, movePc, gaveUp>>

\* A user finds the remains of a move on the stick.
RemoveTorn ==
  /\ movePc = "menu" /\ copy = "torn" /\ copy' = "none"
  /\ UNCHANGED <<package, extras, plugged, movePc, gaveUp>>

\* The app is closed, crashes, or the console is turned off.  A task of the
\* system is not followed any more.
AppEnds ==
  /\ movePc # "menu" /\ movePc' = "menu"
  /\ UNCHANGED <<package, copy, extras, plugged, gaveUp>>

MoveNext ==
  \/ MoveBegins \/ CopyPackage \/ ValidateMove \/ UnlinkPackage \/ LinkPackage
  \/ RestoreBegins \/ InstallCopy \/ RestoreEnds
  \/ UninstallGame \/ InstallAgain \/ MoveExtras \/ StickMoves \/ RemoveTorn \/ AppEnds

MoveSpec == MoveInit /\ [][MoveNext]_moveVars

-----------------------------------------------------------------------------
(* Properties *)

\* Whatever step a move or a restore fails at, a whole package is on the console
\* or on the stick: unless the user removed the app, or restored it when it was
\* not moved, or its move had failed, and only its remains or the add-ons are on
\* the stick: for then the restore removes the package itself.
PackageKept == package = "pkg" \/ copy = "whole" \/ gaveUp
=============================================================================
