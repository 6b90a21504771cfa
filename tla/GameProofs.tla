------------------------------ MODULE GameProofs ------------------------------
(***************************************************************************)
(* The parts that follow the game that runs: GameStats, DumpFlow and       *)
(* PlayTime.  None of their properties is inductive; each section begins   *)
(* with the invariant that is, on what the threads have read of each       *)
(* other's variables.                                                      *)
(***************************************************************************)
EXTENDS GameStats, DumpFlow, PlayTime, TLAPS

-----------------------------------------------------------------------------
(* GameStats: which handle is in db, by the place of Game_Stats_thread *)

Unsafe == {"create", "close", "open", "ended"}

StatHandles ==
  /\ db = "own" => statsPc \in {"create", "close"}
  /\ db = "closed" => statsPc \in Unsafe
  /\ statsPc = "close" => db = "own"
  /\ statQuery.db \in {"own", "closed"} => statQuery.at \in Unsafe
  /\ statsPc = "count" => retries <= RetryLimit

StatsIInv == StatsTypeOK /\ StatHandles

\* Every step keeps the types.
LEMMA StatsTypeStep == StatsIInv /\ [StatsNext]_statsVars => StatsTypeOK'
<1> SUFFICES ASSUME StatsIInv, [StatsNext]_statsVars PROVE StatsTypeOK'
  OBVIOUS
<1> USE RetryAssumption DEF StatsIInv, StatsTypeOK, Handle, StatsPc, Fault, NoFault
<1>1. CASE CheckFile \/ CreateOpens
  BY <1>1 DEF CheckFile, CreateOpens
<1>2. CASE CreateTable \/ CreateCloses
  BY <1>2 DEF CreateTable, CreateCloses, CloseDb
<1>3. CASE OpenFile \/ OpenAgain \/ CheckFtp \/ NextRound
  BY <1>3 DEF OpenFile, OpenAgain, DropHandle, CheckFtp, NextRound
<1>4. CASE CountMinute
  <2>1. counted' \in BOOLEAN /\ UNCHANGED <<db, file, bigApp, statQuery>> /\ statsPc' = "sleep"
    BY <1>4, Zenon DEF CountMinute
  <2>2. faults' \in 0..MaxFaults
    BY <1>4 DEF CountMinute
  <2>3. retries' \in {retries, retries + 1}
    BY <1>4, Zenon DEF CountMinute, CountFailure
  <2>4. retries <= RetryLimit
    BY <1>4 DEF CountMinute, StatHandles
  <2> QED BY <2>1, <2>2, <2>3, <2>4
<1>5. CASE QueryBegins \/ QueryEnds
  BY <1>5 DEF QueryBegins, QueryEnds, NoQuery
<1>6. CASE GameEnds \/ \E t \in Titles : GameStarts(t)
  BY <1>6 DEF GameEnds, GameStarts, TitleOrNone
<1>7. CASE FileRemoved \/ DaemonRestarts
  BY <1>7 DEF FileRemoved, DaemonRestarts, NoQuery
<1>8. CASE UNCHANGED statsVars
  BY <1>8 DEF statsVars
<1> QED BY <1>1, <1>2, <1>3, <1>4, <1>5, <1>6, <1>7, <1>8 DEF StatsNext, StatsThread

\* Every step keeps the handles.
LEMMA StatHandlesStep == StatsIInv /\ [StatsNext]_statsVars => StatHandles'
<1> SUFFICES ASSUME StatsIInv, [StatsNext]_statsVars PROVE StatHandles'
  OBVIOUS
<1> USE DEF StatsIInv, StatHandles, Unsafe, StatsTypeOK, Handle, StatsPc
<1>1. CASE CheckFile \/ CreateOpens
  BY <1>1 DEF CheckFile, CreateOpens
<1>2. CASE CreateTable \/ CreateCloses
  BY <1>2 DEF CreateTable, CreateCloses, CloseDb
<1>3. CASE OpenFile \/ OpenAgain \/ CheckFtp \/ NextRound
  BY <1>3 DEF OpenFile, OpenAgain, DropHandle, CheckFtp, NextRound
<1>4. CASE CountMinute
  BY <1>4 DEF CountMinute
<1>5. CASE QueryBegins \/ QueryEnds
  BY <1>5 DEF QueryBegins, QueryEnds, NoQuery
<1>6. CASE GameEnds \/ \E t \in Titles : GameStarts(t)
  BY <1>6 DEF GameEnds, GameStarts
<1>7. CASE FileRemoved \/ DaemonRestarts
  BY <1>7 DEF FileRemoved, DaemonRestarts, NoQuery
<1>8. CASE UNCHANGED statsVars
  BY <1>8 DEF statsVars
<1> QED BY <1>1, <1>2, <1>3, <1>4, <1>5, <1>6, <1>7, <1>8 DEF StatsNext, StatsThread

\* Every state of the statistics satisfies the invariant.
THEOREM StatsInvariant == StatsSpec => []StatsIInv
<1>1. StatsInit => StatsIInv
  BY RetryAssumption DEF StatsInit, StatsIInv, StatsTypeOK, StatHandles, Handle, StatsPc, NoQuery,
     TitleOrNone
<1>2. StatsIInv /\ [StatsNext]_statsVars => StatsIInv'
  BY StatsTypeStep, StatHandlesStep DEF StatsIInv
<1> QED BY <1>1, <1>2, PTL DEF StatsSpec

\* A query of an IPC thread that begins while minutes are counted, or before the
\* file is opened again, uses a handle that is not closed under it, for any
\* number of failures.
THEOREM QueriesKeepHandle == StatsSpec => []QueryHandleLives
<1>1. StatsIInv => QueryHandleLives
  BY DEF StatsIInv, StatHandles, Unsafe, QueryHandleLives
<1> QED BY <1>1, StatsInvariant, PTL

-----------------------------------------------------------------------------
(* DumpFlow: for whom critical_suspend and dump are set *)

AskedFor ==
  /\ loopPc = "poll" /\ critical_suspend => owed
  /\ dumpPc \in {"kill", "ask", "launch"} => title_id = asked
  /\ front = "game" /\ ~missed => game = asked
  /\ dump /\ ~missed => title_id = asked
  /\ dump /\ ~missed /\ Interactive => dumpPc \in {"kill", "ask", "launch"}

\* Every step of the app keeps the invariant.
LEMMA AskedForApp == AskedFor /\ AppStep => AskedFor'
<1> SUFFICES ASSUME AskedFor, AppStep PROVE AskedFor'
  OBVIOUS
<1> USE DEF AskedFor, Interactive, daemonVars, dumpHistory
<1>1. ASSUME NEW t \in Titles, OpenPage(t) PROVE AskedFor'
  BY <1>1 DEF OpenPage
<1>2. CASE ClosePage \/ SaveSettings \/ SetHomeRedirect
  BY <1>2 DEF ClosePage, SaveSettings, SetHomeRedirect
<1>3. CASE AskDump
  BY <1>3 DEF AskDump
<1>4. CASE KillForDump
  BY <1>4 DEF KillForDump
<1>5. CASE AskSuspend
  BY <1>5 DEF AskSuspend
<1>6. CASE LaunchForDump
  BY <1>6 DEF LaunchForDump, Launch_App
<1>7. CASE LaunchGame
  BY <1>7 DEF LaunchGame, Launch_App
<1>8. CASE CloseGame
  BY <1>8 DEF CloseGame
<1>9. CASE HandleSigcont
  BY <1>9 DEF HandleSigcont
<1>10. CASE DumpEnds
  BY <1>10 DEF DumpEnds, EndDump
<1> QED BY <1>1, <1>2, <1>3, <1>4, <1>5, <1>6, <1>7, <1>8, <1>9, <1>10 DEF AppStep

\* So does every step of the daemon and of the user.
LEMMA AskedForStep == AskedFor /\ [DumpNext]_dumpVars => AskedFor'
<1> SUFFICES ASSUME AskedFor, [DumpNext]_dumpVars PROVE AskedFor'
  OBVIOUS
<1> USE DEF AskedFor, Interactive, daemonVars, dumpHistory
<1>1. CASE RedirectHome \/ SuspendGame \/ SuspendFails
  <2>1. BringAppBack => front' = "app" /\ (sigcont' <=> (sigcont \/ front # "app"))
    BY Zenon DEF BringAppBack
  <2>2. CASE RedirectHome
    BY <2>1, <2>2 DEF RedirectHome
  <2>3. CASE SuspendGame
    BY <2>1, <2>3 DEF SuspendGame, FindsGame
  <2>4. CASE SuspendFails
    BY <2>4 DEF SuspendFails
  <2> QED BY <1>1, <2>2, <2>3, <2>4
<1>2. CASE ClearSuspend \/ PollNoGame
  <2>1. CASE ClearSuspend
    BY <2>1 DEF ClearSuspend, Served
  <2>2. CASE PollNoGame
    BY <2>2 DEF PollNoGame, NoGameYet
  <2> QED BY <1>2, <2>1, <2>2
<1>3. CASE DaemonReboots
  BY <1>3 DEF DaemonReboots
<1>4. CASE GoHome
  <2>1. missed' <=> (missed \/ dumpPc \in {"kill", "ask", "launch"})
    BY <1>4, Zenon DEF GoHome
  <2> QED BY <1>4, <2>1 DEF GoHome
<1>5. CASE ReturnToApp
  <2>1. sigcont' <=> (sigcont \/ front # "app")
    BY <1>5, Zenon DEF ReturnToApp, BringAppBack
  <2> QED BY <1>5, <2>1 DEF ReturnToApp, BringAppBack
<1>6. CASE ReturnToGame
  <2>1. missed' <=> (missed \/ game # asked)
    BY <1>6, Zenon DEF ReturnToGame
  <2> QED BY <1>6, <2>1 DEF ReturnToGame
<1>7. CASE GameCloses
  BY <1>7 DEF GameCloses
<1>8. ASSUME NEW t \in Titles, StartGame(t) PROVE AskedFor'
  BY <1>8 DEF StartGame
<1>9. CASE UNCHANGED dumpVars
  BY <1>9 DEF dumpVars
<1> QED BY <1>1, <1>2, <1>3, <1>4, <1>5, <1>6, <1>7, <1>8, <1>9, AskedForApp
    DEF DumpNext, ButtonLoop, User

\* Every state satisfies it.
LEMMA AskedForAlways == DumpSpec => []AskedFor
<1>1. DumpInit => AskedFor
  BY DEF DumpInit, AskedFor, Interactive
<1> QED BY <1>1, AskedForStep, PTL DEF DumpSpec

\* The button loop takes no other game to the background than the one whose dump
\* was asked for, and only for a request it has not served.
THEOREM SuspendsOnlyAsked == DumpSpec => SuspendsAsked
<1>1. AskedFor /\ [DumpNext]_dumpVars
        => [SuspendGame /\ front = "game" /\ ~missed => owed /\ game = asked]_dumpVars
  BY DEF AskedFor, SuspendGame, FindsGame
<1> QED BY <1>1, AskedForAlways, PTL DEF DumpSpec, SuspendsAsked

\* The handler of SIGCONT dumps the game that the dump was asked for, however the
\* user came back, for any number of games.
THEOREM DumpsOnlyAsked == DumpSpec => DumpsAsked
<1>1. AskedFor /\ [DumpNext]_dumpVars
        => [HandleSigcont /\ dump /\ ~is_dumper_running /\ ~missed => title_id = asked]_dumpVars
  BY DEF AskedFor
<1> QED BY <1>1, AskedForAlways, PTL DEF DumpSpec, DumpsAsked

\* Every step of the app keeps the types.
LEMMA DumpTypeByApp == DumpTypeOK /\ AppStep => DumpTypeOK'
<1> SUFFICES ASSUME DumpTypeOK, AppStep PROVE DumpTypeOK'
  OBVIOUS
<1> USE DEF DumpTypeOK, Status, StatusOf, TitleOrNone, daemonVars, dumpHistory
<1>1. ASSUME NEW t \in Titles, OpenPage(t) PROVE DumpTypeOK'
  BY <1>1 DEF OpenPage
<1>2. CASE ClosePage \/ SaveSettings \/ SetHomeRedirect
  <2>1. dump' \in BOOLEAN /\ is_home_redirect_enabled' \in BOOLEAN /\ dumpPc' \in {"list", dumpPc}
    BY <1>2, Zenon DEF ClosePage, SaveSettings, SetHomeRedirect
  <2>2. UNCHANGED <<title_id, app_status, is_dumper_running, sigcont, critical_suspend, loopPc,
                    game, front, asked, missed, owed, lost>>
    BY <1>2, Zenon DEF ClosePage, SaveSettings, SetHomeRedirect
  <2> QED BY <2>1, <2>2
<1>3. CASE AskDump \/ AskSuspend
  <2>1. /\ dump' \in BOOLEAN /\ sigcont' \in BOOLEAN /\ missed' \in BOOLEAN
        /\ critical_suspend' \in BOOLEAN /\ owed' \in BOOLEAN /\ lost' \in BOOLEAN
    BY <1>3, Zenon DEF AskDump, AskSuspend
  <2>2. dumpPc' \in {dumpPc, "kill", "launch"} /\ asked' \in {asked, title_id}
    BY <1>3, Zenon DEF AskDump, AskSuspend
  <2>3. UNCHANGED <<title_id, app_status, is_dumper_running, is_home_redirect_enabled, loopPc,
                    game, front>>
    BY <1>3, Zenon DEF AskDump, AskSuspend
  <2> QED BY <2>1, <2>2, <2>3
<1>4. CASE KillForDump \/ CloseGame
  <2>1. app_status' \in Status /\ game' \in TitleOrNone /\ dumpPc' \in {"ask", dumpPc}
    BY <1>4, Zenon DEF KillForDump, CloseGame, Kill_BigApp
  <2>2. missed' \in BOOLEAN
    BY <1>4, Zenon DEF KillForDump, CloseGame
  <2> QED BY <1>4, <2>1, <2>2 DEF KillForDump, CloseGame
<1>5. CASE LaunchForDump \/ LaunchGame
  <2>1. game' \in TitleOrNone /\ front' \in {front, "game"}
    BY <1>5 DEF LaunchForDump, LaunchGame, Launch_App
  <2>2. missed' \in BOOLEAN
    BY <1>5, Zenon DEF LaunchForDump, LaunchGame
  <2>3. app_status' \in Status
    BY <1>5 DEF LaunchForDump, LaunchGame
  <2> QED BY <1>5, <2>1, <2>2, <2>3 DEF LaunchForDump, LaunchGame
<1>6. CASE HandleSigcont \/ DumpEnds
  <2>1. /\ is_dumper_running' \in BOOLEAN /\ dump' \in BOOLEAN /\ sigcont' \in BOOLEAN
        /\ UNCHANGED <<title_id, dumpPc, daemonVars, game, front, dumpHistory>>
    BY <1>6, Zenon DEF HandleSigcont, DumpEnds, EndDump
  <2>2. app_status' \in Status
    BY <1>6 DEF HandleSigcont, DumpEnds
  <2> QED BY <2>1, <2>2
<1> QED BY <1>1, <1>2, <1>3, <1>4, <1>5, <1>6 DEF AppStep

\* So does every step of the daemon and of the user.
LEMMA DumpTypeStep == DumpTypeOK /\ [DumpNext]_dumpVars => DumpTypeOK'
<1> SUFFICES ASSUME DumpTypeOK, [DumpNext]_dumpVars PROVE DumpTypeOK'
  OBVIOUS
<1> USE DEF DumpTypeOK, TitleOrNone, daemonVars, dumpHistory
<1>1. CASE RedirectHome \/ SuspendGame \/ ReturnToApp
  <2>1. /\ sigcont' \in BOOLEAN /\ owed' \in BOOLEAN
        /\ front' = "app" /\ loopPc' \in {loopPc, "clear"}
    BY <1>1, Zenon DEF RedirectHome, SuspendGame, ReturnToApp, BringAppBack
  <2>2. UNCHANGED <<title_id, app_status, dump, is_dumper_running, dumpPc, critical_suspend,
                    is_home_redirect_enabled, game, asked, missed, lost>>
    BY <1>1, Zenon DEF RedirectHome, SuspendGame, ReturnToApp
  <2> QED BY <2>1, <2>2
<1>2. CASE ClearSuspend \/ DaemonReboots
  <2>1. /\ critical_suspend' \in BOOLEAN /\ owed' \in BOOLEAN /\ lost' \in BOOLEAN
        /\ is_home_redirect_enabled' \in BOOLEAN /\ loopPc' = "poll"
    BY <1>2, Zenon DEF ClearSuspend, Served, DaemonReboots
  <2>2. UNCHANGED <<title_id, app_status, dump, is_dumper_running, dumpPc, sigcont, game, front,
                    asked, missed>>
    BY <1>2, Zenon DEF ClearSuspend, DaemonReboots
  <2> QED BY <2>1, <2>2, Zenon
<1>3. CASE SuspendFails \/ PollNoGame
  BY <1>3 DEF SuspendFails, PollNoGame, NoGameYet
<1>4. CASE GoHome \/ ReturnToGame \/ GameCloses \/ \E t \in Titles : StartGame(t)
  <2>1. missed' \in BOOLEAN
    BY <1>4, Zenon DEF GoHome, ReturnToGame, GameCloses, StartGame
  <2>2. game' \in TitleOrNone /\ front' \in {"app", "game", "home"}
    BY <1>4 DEF GoHome, ReturnToGame, GameCloses, StartGame
  <2> QED BY <1>4, <2>1, <2>2 DEF GoHome, ReturnToGame, GameCloses, StartGame
<1>5. CASE UNCHANGED dumpVars
  BY <1>5 DEF dumpVars
<1> QED BY <1>1, <1>2, <1>3, <1>4, <1>5, DumpTypeByApp DEF DumpNext, ButtonLoop, User

\* The variables of the dump keep their types.
LEMMA DumpTypes == DumpSpec => []DumpTypeOK
<1>1. DumpInit => DumpTypeOK
  BY DEF DumpInit, DumpTypeOK, Status, TitleOrNone
<1> QED BY <1>1, DumpTypeStep, PTL DEF DumpSpec

-----------------------------------------------------------------------------
(* PlayTime: of which game the minutes are, under way and stored *)

MinutesKnown ==
  /\ playPc = "sent" => queried = pageTitle \/ pageChanged
  /\ drawPc # "opening" /\ mins_played \in Titles => mins_played = pageTitle \/ pageChanged
  /\ MinutesOfPage

\* Every step keeps the invariant.
LEMMA MinutesStep == MinutesKnown /\ [PlayNext]_playVars => MinutesKnown'
<1> SUFFICES ASSUME MinutesKnown, [PlayNext]_playVars PROVE MinutesKnown'
  OBVIOUS
<1> USE CodesAssumption DEF MinutesKnown, MinutesOfPage, Codes, Drawable
<1>1. ASSUME NEW t \in Titles, OpenGamePage(t) PROVE MinutesKnown'
  BY <1>1 DEF OpenGamePage
<1>2. CASE OpenResets
  BY <1>2 DEF OpenResets, ResetMins
<1>3. CASE DrawMins \/ DrawEnds
  BY <1>3 DEF DrawMins, DrawEnds
<1>4. CASE RedrawText \/ RenderLoopResets
  BY <1>4 DEF RedrawText, RenderLoopResets
<1>5. CASE SendQuery \/ StoreAnswer \/ WaitEnds
  BY <1>5 DEF SendQuery, StoreAnswer, WaitEnds
<1>6. CASE IdleChanges \/ UNCHANGED playVars
  BY <1>6 DEF IdleChanges, playVars
<1> QED BY <1>1, <1>2, <1>3, <1>4, <1>5, <1>6 DEF PlayNext, PlayTimeThread

\* The minutes on a page are those of its game, for any number of games, unless
\* the page was opened under a request for another one.
THEOREM PageShowsItsMinutes == PlaySpec => []MinutesOfPage
<1>1. PlayInit => MinutesKnown
  BY CodesAssumption DEF PlayInit, MinutesKnown, MinutesOfPage, Codes
<1>2. MinutesKnown => MinutesOfPage
  BY DEF MinutesKnown
<1> QED BY <1>1, <1>2, MinutesStep, PTL DEF PlaySpec

\* The answer that is stored is of a game: of the page that was open.
PlayIInv == PlayTypeOK /\ (playPc = "sent" => queried \in Titles)

\* The variables of the page keep their types.
LEMMA PlayTypes == PlaySpec => []PlayTypeOK
<1>1. PlayInit => PlayIInv
  BY DEF PlayInit, PlayIInv, PlayTypeOK, TitleOrNone, Drawable
<1>2. PlayIInv /\ [PlayNext]_playVars => PlayIInv'
  <2> SUFFICES ASSUME PlayIInv, [PlayNext]_playVars PROVE PlayIInv'
    OBVIOUS
  <2> USE DEF PlayIInv, PlayTypeOK, TitleOrNone, Drawable
  <2>1. CASE \E t \in Titles : OpenGamePage(t)
    <3>1. pageChanged' \in BOOLEAN
      BY <2>1, Zenon DEF OpenGamePage
    <3> QED BY <2>1, <3>1 DEF OpenGamePage
  <2>2. CASE OpenResets \/ DrawMins \/ DrawEnds \/ RedrawText \/ RenderLoopResets
    BY <2>2 DEF OpenResets, ResetMins, DrawMins, DrawEnds, RedrawText, RenderLoopResets
  <2>3. CASE SendQuery \/ StoreAnswer \/ WaitEnds
    BY <2>3 DEF SendQuery, StoreAnswer, WaitEnds
  <2>4. CASE IdleChanges \/ UNCHANGED playVars
    BY <2>4 DEF IdleChanges, playVars
  <2> QED BY <2>1, <2>2, <2>3, <2>4 DEF PlayNext, PlayTimeThread
<1>3. PlayIInv => PlayTypeOK
  BY DEF PlayIInv
<1> QED BY <1>1, <1>2, <1>3, PTL DEF PlaySpec
=============================================================================
