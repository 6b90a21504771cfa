------------------------------ MODULE MCConsole ------------------------------
(***************************************************************************)
(* The parts of the app, the daemon and the loader that share no state,    *)
(* checked in one run: each behaviour is one of the part that is chosen at *)
(* its start, and the variables of the other parts keep their initial      *)
(* values.  Interleaving them would multiply their states, and show        *)
(* nothing more.                                                           *)
(***************************************************************************)
EXTENDS GameStats, DumpFlow, SelfUpdate, PkgInstall, LoaderBoot, NotifyQueue, PlayTime, AppList,
        AppMove

VARIABLE part

vars == <<part, statsVars, dumpVars, updVars, instVars, loaderVars, noteVars, playVars, appVars,
          moveVars>>

Parts == {"stats", "dump", "update", "install", "loader", "notify", "play", "list", "move"}

Init ==
  /\ part \in Parts
  /\ StatsInit /\ DumpInit /\ UpdInit /\ InstInit /\ LoaderInit /\ NoteInit /\ PlayInit
  /\ AppInit /\ MoveInit

Stats ==
  /\ part = "stats" /\ StatsNext
  /\ UNCHANGED <<part, dumpVars, updVars, instVars, loaderVars, noteVars, playVars, appVars,
                 moveVars>>

Dump ==
  /\ part = "dump" /\ DumpNext
  /\ UNCHANGED <<part, statsVars, updVars, instVars, loaderVars, noteVars, playVars, appVars,
                 moveVars>>

Update ==
  /\ part = "update" /\ UpdNext
  /\ UNCHANGED <<part, statsVars, dumpVars, instVars, loaderVars, noteVars, playVars, appVars,
                 moveVars>>

Install ==
  /\ part = "install" /\ InstNext
  /\ UNCHANGED <<part, statsVars, dumpVars, updVars, loaderVars, noteVars, playVars, appVars,
                 moveVars>>

Load ==
  /\ part = "loader" /\ LoaderNext
  /\ UNCHANGED <<part, statsVars, dumpVars, updVars, instVars, noteVars, playVars, appVars,
                 moveVars>>

Notify ==
  /\ part = "notify" /\ NoteNext
  /\ UNCHANGED <<part, statsVars, dumpVars, updVars, instVars, loaderVars, playVars, appVars,
                 moveVars>>

Play ==
  /\ part = "play" /\ PlayNext
  /\ UNCHANGED <<part, statsVars, dumpVars, updVars, instVars, loaderVars, noteVars, appVars,
                 moveVars>>

List ==
  /\ part = "list" /\ AppListNext
  /\ UNCHANGED <<part, statsVars, dumpVars, updVars, instVars, loaderVars, noteVars, playVars,
                 moveVars>>

Move ==
  /\ part = "move" /\ MoveNext
  /\ UNCHANGED <<part, statsVars, dumpVars, updVars, instVars, loaderVars, noteVars, playVars,
                 appVars>>

Next == Stats \/ Dump \/ Update \/ Install \/ Load \/ Notify \/ Play \/ List \/ Move

\* The fairness of each part, for its own behaviours.
Fairness ==
  /\ WF_statsVars(part = "stats" /\ StatsThread)
  /\ WF_dumpVars(part = "dump" /\ ButtonLoop)
  /\ \A t \in Installers :
       /\ WF_instVars(part = "install" /\ InstallStep(t))
       /\ WF_instVars(part = "install" /\ TaskEnds(t))
  /\ WF_loaderVars(part = "loader" /\ Loader)
  /\ WF_loaderVars(part = "loader" /\ DaemonUp)
  /\ WF_loaderVars(part = "loader" /\ DaemonUpdates)
  /\ WF_noteVars(part = "notify" /\ AnimationEnds)
  /\ WF_noteVars(part = "notify" /\ ShowNext)
  /\ WF_playVars(part = "play" /\ PlayTimeThread)
  /\ WF_playVars(part = "play" /\ (OpenResets \/ DrawEnds))
  /\ SF_playVars(part = "play" /\ DrawMins)
  /\ WF_appVars(part = "list" /\ UtilThread)

Spec == Init /\ [][Next]_vars /\ Fairness

\* The variables of every part stay in their ranges: no queue, list or counter
\* outgrows its bound.
PartsTypeOK ==
  /\ StatsTypeOK /\ DumpTypeOK /\ UpdTypeOK /\ InstTypeOK /\ LoaderTypeOK /\ NoteTypeOK
  /\ PlayTypeOK /\ AppTypeOK /\ MoveTypeOK
=============================================================================
