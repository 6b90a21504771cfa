------------------------------ MODULE DumpFlow ------------------------------
(***************************************************************************)
(* Dumping a game that does not run yet.  The app closes what runs, has    *)
(* the daemon set critical_suspend (CRITICAL_SUSPEND), starts the game and *)
(* is suspended by that; PS_Button_loop of the daemon finds the game and   *)
(* brings the app back; the app gets SIGCONT and its handler dumps the     *)
(* game whose page was open last.  The request is in three globals of two  *)
(* processes, dump and title_id of the app, critical_suspend of the        *)
(* daemon, which the user, a launch that fails and the button loop reach   *)
(* in any order.                                                           *)
(*                                                                         *)
(* The handler runs on the thread of the user interface, which does        *)
(* nothing else while it dumps.  The file copying of the dump itself, and  *)
(* games that run from a network share, are not modelled.                  *)
(***************************************************************************)
EXTENDS Games

VARIABLES
  \* the app
  title_id, app_status, dump, is_dumper_running,
  dumpPc,      \* where the request to dump is, "page" in the page of a game
  sigcont,     \* SIGCONT is pending
  \* the daemon
  critical_suspend, is_home_redirect_enabled,
  loopPc,      \* of PS_Button_loop
  \* the system
  game,        \* the game that is open
  front,       \* what is in the foreground
  \* history
  asked,       \* the game whose dump was asked for last
  missed,      \* it did not start, was closed, another one came to the front, or
               \* the user left the app before it was started
  owed,        \* a CRITICAL_SUSPEND was sent, no game has been suspended for it,
               \* and neither the reset after an earlier one nor the death of the
               \* daemon took it away
  lost         \* the reset took it away after the app could not be brought back

daemonVars == <<critical_suspend, is_home_redirect_enabled, loopPc>>
dumpHistory == <<asked, missed, owed, lost>>
dumpVars == <<title_id, app_status, dump, is_dumper_running, dumpPc, sigcont, daemonVars,
              game, front, dumpHistory>>

Status == {"APP_NA_STATUS", "NO_APP_OPENED", "RESUMABLE", "OTHER_APP_OPEN"}

DumpTypeOK ==
  /\ title_id \in TitleOrNone /\ app_status \in Status
  /\ dump \in BOOLEAN /\ is_dumper_running \in BOOLEAN
  /\ dumpPc \in {"list", "page", "kill", "ask", "launch"}
  /\ sigcont \in BOOLEAN
  /\ critical_suspend \in BOOLEAN /\ is_home_redirect_enabled \in BOOLEAN
  /\ loopPc \in {"poll", "clear", "failed"}
  /\ game \in TitleOrNone /\ front \in {"app", "game", "home"}
  /\ asked \in TitleOrNone /\ missed \in BOOLEAN /\ owed \in BOOLEAN /\ lost \in BOOLEAN

DumpInit ==
  /\ title_id = NoTitle /\ app_status = "APP_NA_STATUS"
  /\ dump = FALSE /\ is_dumper_running = FALSE
  /\ dumpPc = "list" /\ sigcont = FALSE
  /\ critical_suspend = FALSE /\ is_home_redirect_enabled = FALSE /\ loopPc = "poll"
  /\ game = NoTitle /\ front = "app"
  /\ asked = NoTitle /\ missed = FALSE /\ owed = FALSE /\ lost = FALSE

-----------------------------------------------------------------------------
(* Slips a change to the code could make, for the mutation runs *)

\* The dump flag is not reset after a dump.
EndDump_keeps == is_dumper_running' = FALSE /\ UNCHANGED dump

\* The request stays set after the game has been suspended.
Served_stays == UNCHANGED critical_suspend

\* The request is cleared although no game is open yet.
NoGameYet_clears == critical_suspend' = FALSE

-----------------------------------------------------------------------------
(* The user interface of the app *)

Interactive == front = "app" /\ ~sigcont /\ ~is_dumper_running

StatusOf(t) ==
  IF game = t THEN "RESUMABLE" ELSE IF game # NoTitle THEN "OTHER_APP_OPEN" ELSE "NO_APP_OPENED"

\* X on a game of the list: its page.
OpenPage(t) ==
  /\ Interactive /\ dumpPc = "list"
  /\ title_id' = t /\ app_status' = StatusOf(t) /\ dumpPc' = "page"
  /\ UNCHANGED <<dump, is_dumper_running, sigcont, daemonVars, game, front, dumpHistory>>

ClosePage ==
  /\ Interactive /\ dumpPc = "page" /\ dumpPc' = "list"
  /\ UNCHANGED <<title_id, app_status, dump, is_dumper_running, sigcont, daemonVars, game, front,
                 dumpHistory>>

\* SaveOptions and LoadOptions, which resets dump.
SaveSettings ==
  /\ Interactive /\ dumpPc = "list" /\ dump
  /\ dump' = FALSE
  /\ UNCHANGED <<title_id, app_status, is_dumper_running, dumpPc, sigcont, daemonVars, game,
                 front,
                 dumpHistory>>

\* A game in the background: raise(SIGCONT).
AskDump ==
  /\ Interactive /\ dumpPc = "page"
  /\ dump' = TRUE
  /\ IF app_status # "RESUMABLE" THEN dumpPc' = "kill" /\ UNCHANGED sigcont
                                 ELSE sigcont' = TRUE /\ UNCHANGED dumpPc
  /\ asked' = title_id /\ missed' = FALSE
  /\ UNCHANGED <<title_id, app_status, is_dumper_running, daemonVars, game, front, owed, lost>>

\* Kill_BigApp, which may fail, and says NO_APP_OPENED all the same.
Kill_BigApp ==
  IF app_status \in {"NO_APP_OPENED", "APP_NA_STATUS"} THEN UNCHANGED <<app_status, game>>
  ELSE app_status' = "NO_APP_OPENED" /\ game' \in {game, NoTitle}

KillForDump ==
  /\ Interactive /\ dumpPc = "kill" /\ dumpPc' = "ask"
  /\ Kill_BigApp
  /\ missed' = (missed \/ game' # NoTitle)
  /\ UNCHANGED <<title_id, dump, is_dumper_running, sigcont, daemonVars, front, asked, owed,
                 lost>>

\* CRITICAL_SUSPEND; not for a dump of add-ons, nor if there is no daemon.
AskSuspend ==
  /\ Interactive /\ dumpPc = "ask" /\ dumpPc' = "launch"
  /\ \/ critical_suspend' = TRUE /\ owed' = TRUE /\ lost' = FALSE
     \/ UNCHANGED <<critical_suspend, owed, lost>>
  /\ UNCHANGED <<title_id, app_status, dump, is_dumper_running, sigcont, is_home_redirect_enabled,
                 loopPc, game, front, asked, missed>>

\* Launch_App: a game starts, or comes back, unless another one is open; it may
\* fail for many other reasons.
Launch_App ==
  \/ game \in {NoTitle, title_id} /\ game' = title_id /\ front' = "game"
  \/ UNCHANGED <<game, front>>

LaunchForDump ==
  /\ Interactive /\ dumpPc = "launch" /\ dumpPc' = "page"
  /\ Launch_App
  /\ missed' = (missed \/ front' # "game")
  /\ UNCHANGED <<title_id, app_status, dump, is_dumper_running, sigcont, daemonVars, asked,
                 owed, lost>>

\* itemzCore_Launch_util: play the game, or close the one that is open.  Two errors
\* of Launch_App are reported as success.
LaunchGame ==
  /\ Interactive /\ dumpPc = "page" /\ app_status # "OTHER_APP_OPEN"
  /\ Launch_App
  /\ app_status' \in {"RESUMABLE"} \cup (IF front' = "game" THEN {} ELSE {app_status})
  /\ missed' = (missed \/ title_id # asked)
  /\ UNCHANGED <<title_id, dump, is_dumper_running, dumpPc, sigcont, daemonVars, asked, owed,
                 lost>>

CloseGame ==
  /\ Interactive /\ dumpPc = "page" /\ app_status \in {"RESUMABLE", "OTHER_APP_OPEN"}
  /\ Kill_BigApp
  /\ missed' = (missed \/ game = asked)
  /\ UNCHANGED <<title_id, dump, is_dumper_running, dumpPc, sigcont, daemonVars, front, asked,
                 owed, lost>>

SetHomeRedirect ==
  /\ Interactive
  /\ is_home_redirect_enabled' = ~is_home_redirect_enabled
  /\ UNCHANGED <<title_id, app_status, dump, is_dumper_running, dumpPc, sigcont, critical_suspend,
                 loopPc, game, front, dumpHistory>>

\* SIG_Handler on SIGCONT.
HandleSigcont ==
  /\ sigcont /\ sigcont' = FALSE
  /\ app_status' = IF app_status = "APP_NA_STATUS" \/ game = NoTitle THEN app_status
                   ELSE StatusOf(title_id)
  /\ is_dumper_running' = (is_dumper_running \/ dump)
  /\ UNCHANGED <<title_id, dump, dumpPc, daemonVars, game, front, dumpHistory>>

EndDump == is_dumper_running' = FALSE /\ dump' = FALSE

DumpEnds ==
  /\ is_dumper_running /\ ~sigcont
  /\ EndDump
  /\ UNCHANGED <<title_id, app_status, dumpPc, sigcont, daemonVars, game, front, dumpHistory>>

AppStep ==
  \/ \E t \in Titles : OpenPage(t)
  \/ ClosePage \/ SaveSettings \/ AskDump \/ KillForDump \/ AskSuspend \/ LaunchForDump
  \/ LaunchGame \/ CloseGame \/ SetHomeRedirect \/ HandleSigcont \/ DumpEnds

-----------------------------------------------------------------------------
(* The daemon: PS_Button_loop *)

\* sceLncUtilLaunchApp of the app: it is resumed, unless it is in front.
BringAppBack ==
  /\ front' = "app"
  /\ sigcont' = (sigcont \/ front # "app")

\* The PS button in a game, with the redirection enabled; a launch that fails
\* changes nothing.
RedirectHome ==
  /\ loopPc = "poll" /\ is_home_redirect_enabled /\ front = "game"
  /\ BringAppBack
  /\ UNCHANGED <<title_id, app_status, dump, is_dumper_running, dumpPc, daemonVars, game,
                 dumpHistory>>

FindsGame == loopPc = "poll" /\ critical_suspend /\ game # NoTitle

SuspendGame ==
  /\ FindsGame
  /\ BringAppBack
  /\ loopPc' = "clear" /\ owed' = FALSE
  /\ UNCHANGED <<title_id, app_status, dump, is_dumper_running, dumpPc, critical_suspend,
                 is_home_redirect_enabled, game, asked, missed, lost>>

\* The result of the launch is not looked at.
SuspendFails ==
  /\ FindsGame
  /\ loopPc' = "failed"
  /\ UNCHANGED <<title_id, app_status, dump, is_dumper_running, dumpPc, sigcont, critical_suspend,
                 is_home_redirect_enabled, game, front, dumpHistory>>

Served == critical_suspend' = FALSE

ClearSuspend ==
  /\ loopPc # "poll" /\ loopPc' = "poll"
  /\ Served
  /\ IF loopPc = "clear" THEN owed' = FALSE /\ UNCHANGED lost ELSE lost' = owed /\ UNCHANGED owed
  /\ UNCHANGED <<title_id, app_status, dump, is_dumper_running, dumpPc, sigcont,
                 is_home_redirect_enabled, game, front, asked, missed>>

NoGameYet == UNCHANGED critical_suspend

\* A round of the loop that finds no game.
PollNoGame ==
  /\ loopPc = "poll" /\ critical_suspend /\ game = NoTitle
  /\ NoGameYet
  /\ UNCHANGED <<title_id, app_status, dump, is_dumper_running, dumpPc, sigcont,
                 is_home_redirect_enabled, loopPc, game, front, dumpHistory>>

ButtonLoop == SuspendGame \/ SuspendFails \/ ClearSuspend \/ PollNoGame

\* Rest mode or a crash; the next daemon starts with nothing set.
DaemonReboots ==
  /\ critical_suspend' = FALSE /\ is_home_redirect_enabled' = FALSE /\ loopPc' = "poll"
  /\ owed' = FALSE /\ lost' = FALSE
  /\ UNCHANGED <<title_id, app_status, dump, is_dumper_running, dumpPc, sigcont, game, front,
                 asked, missed>>

-----------------------------------------------------------------------------
(* The user in the system's own menus *)

GoHome ==
  /\ front' = "home" /\ front # "home"
  /\ missed' = (missed \/ dumpPc \in {"kill", "ask", "launch"})
  /\ UNCHANGED <<title_id, app_status, dump, is_dumper_running, dumpPc, sigcont, daemonVars, game,
                 asked, owed, lost>>

ReturnToApp ==
  /\ front = "home" /\ BringAppBack
  /\ UNCHANGED <<title_id, app_status, dump, is_dumper_running, dumpPc, daemonVars, game,
                 dumpHistory>>

ReturnToGame ==
  /\ front = "home" /\ game # NoTitle /\ front' = "game"
  /\ missed' = (missed \/ game # asked)
  /\ UNCHANGED <<title_id, app_status, dump, is_dumper_running, dumpPc, sigcont, daemonVars, game,
                 asked, owed, lost>>

GameCloses ==
  /\ game # NoTitle /\ game' = NoTitle /\ missed' = TRUE
  /\ front' = IF front = "game" THEN "home" ELSE front
  /\ UNCHANGED <<title_id, app_status, dump, is_dumper_running, dumpPc, sigcont, daemonVars,
                 asked, owed, lost>>

StartGame(t) ==
  /\ front = "home" /\ game = NoTitle /\ game' = t /\ front' = "game"
  /\ missed' = (missed \/ t # asked)
  /\ UNCHANGED <<title_id, app_status, dump, is_dumper_running, dumpPc, sigcont, daemonVars,
                 asked,
                 owed, lost>>

User == GoHome \/ ReturnToApp \/ ReturnToGame \/ GameCloses \/ \E t \in Titles : StartGame(t)

DumpNext == AppStep \/ RedirectHome \/ ButtonLoop \/ DaemonReboots \/ User

DumpSpec == DumpInit /\ [][DumpNext]_dumpVars

\* The button loop runs every 15 ms.
DumpFairSpec == DumpSpec /\ WF_dumpVars(ButtonLoop)

-----------------------------------------------------------------------------
(* Properties *)

\* The game that is dumped is the one the dump was asked for, by whatever way
\* the user came back to the app; unless that game was not started, or closed,
\* for then the flag stays and the next game whose page is opened is dumped.
DumpsAsked ==
  [][HandleSigcont /\ dump /\ ~is_dumper_running /\ ~missed => title_id = asked]_dumpVars

\* The loop takes nobody's game away: unless the game of the last request did
\* not start or stay, a game in front is suspended only for a request that has
\* not been served, and it is the game that was asked for.
SuspendsAsked ==
  [][SuspendGame /\ front = "game" /\ ~missed => owed /\ game = asked]_dumpVars

\* A game that was started for a dump does not stay in front: the button loop
\* sees the request that was set before the game was started, however late it
\* is, unless the request is gone: it came between the return of the app for
\* an earlier one and the reset, or the daemon died with it, or bringing the app
\* back failed, after which the loop resets the request all the same.
DumpGoesOn == owed /\ front = "game" ~> ~owed \/ front # "game" \/ lost
=============================================================================
