------------------------------ MODULE GameStats ------------------------------
(***************************************************************************)
(* The play time of the games: Game_Stats_thread of the daemon             *)
(* (itemz-daemon/source/main.cpp) adds a minute to the game that runs, in  *)
(* an SQLite file it creates, opens, and opens again after five failures   *)
(* (itemz-daemon/source/utils.cpp).  The handle of the file, db, is a      *)
(* global that the IPC threads query without a lock.                       *)
(*                                                                         *)
(* The daemon dies and starts again, statements fail, and the file can be  *)
(* deleted under the daemon (it is in /data, which the FTP server serves). *)
(* The minutes themselves are not modelled, only whether the last one got  *)
(* into the file that is there.                                            *)
(***************************************************************************)
EXTENDS Naturals, Games

CONSTANTS
  RetryLimit,   \* failures that are put up with: 4 in the code
  MaxFaults     \* bound on what goes wrong: failing calls, deletions, deaths

ASSUME RetryAssumption == RetryLimit \in Nat /\ MaxFaults \in Nat

VARIABLES
  db,          \* what the handle is
  file,        \* what is at the path of the database
  statsPc,     \* of Game_Stats_thread
  retries,
  bigApp,      \* the game that runs
  counted,     \* history: the last round with a game put its minute into the file
  statQuery,   \* the query of an IPC thread: the handle it uses, and (history) where
               \* Game_Stats_thread was when it found that handle
  faults

statsVars == <<db, file, statsPc, retries, bigApp, counted, statQuery, faults>>

\* "NULL" is any handle SQLite refuses to use, "own" that of create_stat_db
\* itself, "closed" one that was closed and is still in db, "unlinked" one of a
\* file that is no longer there.
Handle == {"NULL", "own", "open", "closed", "unlinked"}
StatsPc == {"check", "create", "close", "open", "round", "hung", "count", "sleep", "ended"}
NoQuery == [db |-> "NULL", at |-> "none"]

StatsTypeOK ==
  /\ db \in Handle
  /\ file \in {"missing", "empty", "table"}
  /\ statsPc \in StatsPc
  /\ retries \in 0..RetryLimit + 1
  /\ bigApp \in TitleOrNone
  /\ counted \in BOOLEAN
  /\ statQuery \in [db : Handle, at : StatsPc \cup {"none"}]
  /\ faults \in 0..MaxFaults

StatsInit ==
  /\ db = "NULL" /\ file = "missing"
  /\ statsPc = "check" /\ retries = 0
  /\ bigApp = NoTitle /\ counted = TRUE
  /\ statQuery = NoQuery /\ faults = 0

-----------------------------------------------------------------------------
(* Slips a change to the code could make, for the mutation runs *)

\* The old handle is closed before the file is opened once more.
DropHandle_closes ==
  /\ db' = "closed"
  /\ statQuery' = IF statQuery.at # "none" /\ statQuery.db = db
                  THEN [statQuery EXCEPT !.db = "closed"] ELSE statQuery

\* The limit is never reached, the counter starts again before it.
CountFailure_wraps == retries' = IF retries = RetryLimit THEN 0 ELSE retries + 1

-----------------------------------------------------------------------------
\* SQLite and the file system: calls fail, at most MaxFaults of them.
Fault == faults < MaxFaults /\ faults' = faults + 1
NoFault == UNCHANGED faults

\* sqlite3_close, also under a query that uses the handle; db keeps it.
CloseDb ==
  /\ db' = "closed"
  /\ statQuery' = IF statQuery.db = db THEN [statQuery EXCEPT !.db = "closed"] ELSE statQuery

\* if (!if_exists(STAT_DB)), also after failed_timeout.
CheckFile ==
  /\ statsPc = "check"
  /\ statsPc' = IF file = "missing" THEN "create" ELSE "open"
  /\ UNCHANGED <<db, file, retries, bigApp, counted, statQuery, faults>>

\* create_stat_db opens the file, without a table yet ...
CreateOpens ==
  /\ statsPc = "create" /\ db # "own"
  /\ \/ NoFault /\ file' = "empty" /\ db' = "own" /\ UNCHANGED statsPc
     \/ Fault /\ db' = "closed" /\ statsPc' = "ended" /\ UNCHANGED file
  /\ UNCHANGED <<retries, bigApp, counted, statQuery>>

\* ... and adds the table; a failure closes the handle and ends the thread.
CreateTable ==
  /\ statsPc = "create" /\ db = "own"
  /\ \/ /\ NoFault /\ statsPc' = "close" /\ UNCHANGED <<db, statQuery>>
        /\ file' = IF file = "empty" THEN "table" ELSE file
     \/ Fault /\ statsPc' = "ended" /\ CloseDb /\ UNCHANGED file
  /\ UNCHANGED <<retries, bigApp, counted>>

CreateCloses ==
  /\ statsPc = "close"
  /\ statsPc' = "open" /\ CloseDb
  /\ UNCHANGED <<file, retries, bigApp, counted, faults>>

\* open_stat_db: a file that is not there leaves db as it is, a call of SQLite
\* that fails leaves NULL.  Either ends the thread.
OpenFile ==
  /\ statsPc = "open"
  /\ \/ file # "missing" /\ NoFault /\ db' = "open" /\ statsPc' = "round"
     \/ file = "missing" /\ NoFault /\ UNCHANGED db /\ statsPc' = "ended"
     \/ file # "missing" /\ Fault /\ db' = "NULL" /\ statsPc' = "ended"
  /\ UNCHANGED <<file, retries, bigApp, counted, statQuery>>

\* retries > 4: check the file and open it once more.  The handle is left as it
\* is, and lost when db is assigned.
DropHandle == UNCHANGED <<db, statQuery>>

OpenAgain ==
  /\ statsPc = "round" /\ retries > RetryLimit
  /\ statsPc' = "check" /\ retries' = 0
  /\ DropHandle
  /\ UNCHANGED <<file, bigApp, counted, faults>>

\* A round begins with check_ftp_addr_change, which may restart the FTP server,
\* and a ShutdownFTP may never return (see FtpServer).
CheckFtp ==
  /\ statsPc = "round" /\ retries <= RetryLimit
  /\ statsPc' \in {"count", "hung"}
  /\ UNCHANGED <<db, file, retries, bigApp, counted, statQuery, faults>>

CountFailure == retries' = retries + 1

\* update_game_time_played of the big app: two statements, which SQLite refuses
\* for a file that has been removed, or has no table.  A title id that is not got
\* costs the minute and is no failure.  (Nor is one for the mini app, whose minutes
\* are not modelled.)
CountMinute ==
  /\ statsPc = "count" /\ statsPc' = "sleep"
  /\ IF bigApp = NoTitle THEN NoFault /\ UNCHANGED <<retries, counted>>
     ELSE \/ /\ db = "open" /\ file = "table" /\ NoFault
             /\ counted' = TRUE /\ UNCHANGED retries
          \/ /\ IF db = "open" /\ file = "table" THEN Fault ELSE NoFault
             /\ counted' = FALSE /\ CountFailure
          \/ Fault /\ counted' = FALSE /\ UNCHANGED retries
  /\ UNCHANGED <<db, file, bigApp, statQuery>>

\* sleep(59)
NextRound ==
  /\ statsPc = "sleep" /\ statsPc' = "round"
  /\ UNCHANGED <<db, file, retries, bigApp, counted, statQuery, faults>>

StatsThread ==
  \/ CheckFile \/ CreateOpens \/ CreateTable \/ CreateCloses \/ OpenFile
  \/ OpenAgain \/ CheckFtp \/ CountMinute \/ NextRound

-----------------------------------------------------------------------------
(* Everybody else *)

\* GAME_GET_MINS and GAME_GET_START_TIME under ipc_mutex, one at a time: the
\* handle is read first and used after.
QueryBegins ==
  /\ statQuery = NoQuery /\ statQuery' = [db |-> db, at |-> statsPc]
  /\ UNCHANGED <<db, file, statsPc, retries, bigApp, counted, faults>>

QueryEnds ==
  /\ statQuery # NoQuery /\ statQuery' = NoQuery
  /\ UNCHANGED <<db, file, statsPc, retries, bigApp, counted, faults>>

GameStarts(t) ==
  /\ bigApp = NoTitle /\ t \in Titles /\ bigApp' = t
  /\ UNCHANGED <<db, file, statsPc, retries, counted, statQuery, faults>>

GameEnds ==
  /\ bigApp # NoTitle /\ bigApp' = NoTitle
  /\ UNCHANGED <<db, file, statsPc, retries, counted, statQuery, faults>>

\* The file is removed, by a user or with the folder it is in.
FileRemoved ==
  /\ file # "missing" /\ file' = "missing" /\ Fault
  /\ db' = IF db = "open" THEN "unlinked" ELSE db
  /\ UNCHANGED <<statsPc, retries, bigApp, counted, statQuery>>

\* The daemon is killed, or quits for rest mode or an update, and boots again.
DaemonRestarts ==
  /\ Fault
  /\ db' = "NULL" /\ statsPc' = "check" /\ retries' = 0 /\ statQuery' = NoQuery
  /\ UNCHANGED <<file, bigApp, counted>>

StatsNext ==
  \/ StatsThread \/ QueryBegins \/ QueryEnds
  \/ \E t \in Titles : GameStarts(t)
  \/ GameEnds \/ FileRemoved \/ DaemonRestarts

StatsSpec == StatsInit /\ [][StatsNext]_statsVars

\* The thread of the daemon runs, but for a round that does not come back from
\* check_ftp_addr_change.
StatsFairSpec == StatsSpec /\ WF_statsVars(StatsThread)

-----------------------------------------------------------------------------
(* Properties *)

\* A query that begins while minutes are counted, or before the file is opened
\* again, works on a handle that is not closed before the query ends: what
\* the lack of a lock leaves open is the time between create_stat_db opening the
\* file and open_stat_db, and the time after Game_Stats_thread gave up.
QueryHandleLives ==
  statQuery.db = "closed" => statQuery.at \in {"create", "close", "open", "ended"}

\* A game that goes on running is counted in the end, although the file was
\* deleted under its handle, statements failed, or the daemon died: unless
\* Game_Stats_thread gave up, or hangs in a restart of the FTP server, or left a
\* file without a table behind, which no start of the daemon adds.
GameCounted ==
  (<>[](bigApp # NoTitle)) =>
    <>[](counted \/ statsPc \in {"ended", "hung"} \/ file = "empty")
=============================================================================
