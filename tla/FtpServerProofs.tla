--------------------------- MODULE FtpServerProofs ---------------------------
(***************************************************************************)
(* Safety of FtpServer when only the statistics thread restarts the server, *)
(* for any number of clients, server identities and addresses; and that it *)
(* uses its list as module ClientSet says, which ClientList implements.    *)
(***************************************************************************)
EXTENDS FtpServer, FiniteSetTheorems, TLAPS

-----------------------------------------------------------------------------
(* The inductive invariant, in parts                                       *)

FiniPc == WalkPc \cup {"close_server", "join_server", "lock", "reset"}
StartPc == {"start", "getip", "init", "create"}

\* Whose turn it is, and what ftp_initialized says meanwhile.
Turn ==
  /\ OneCallerAtATime
  /\ ftp_started => caller["main"] = "idle"
  /\ \A k \in Callers : caller[k] \in FiniPc => ftp_initialized
  /\ \A k \in Callers : caller[k] \in StartPc => ~ftp_initialized
  /\ ftp_initialized => server_thid \in Servers

\* One server thread, until it is joined, and the node it is adding.
OneServer ==
  /\ \A s \in Servers : sv[s] # "none" =>
       /\ s = server_thid /\ ftp_initialized
       /\ \A k \in Callers : caller[k] \notin WalkPc \cup {"lock", "reset"}
  /\ \A s \in Servers : sv[s] \in {"add", "create", "log", "inc"} => newcl[s] \in Clients
  /\ \A s \in Servers : sv[s] = "add" => cl[newcl[s]] = "new"
  /\ \A s \in Servers : sv[s] = "create" => cl[newcl[s]] = "listed"
  /\ \A c \in Clients : cl[c] = "new" => \E s \in Servers : sv[s] = "add" /\ newcl[s] = c
  /\ \A c \in Clients : cl[c] = "listed" => \E s \in Servers : sv[s] = "create" /\ newcl[s] = c

\* Who holds the mutex, and when it exists.
MutexHeld ==
  /\ ftp_initialized => client_list_mtx # "destroyed"
  /\ \A k \in Callers : caller[k] = "create" => client_list_mtx # "destroyed"
  /\ \A k \in Callers : caller[k] \in WalkPc => client_list_mtx = k
  /\ \A c \in Clients : cl[c] = "dec" => client_list_mtx = c

\* The walk stands at a node it took out of todo; only that node is aborted.
WalkAt ==
  /\ \A k \in Callers : caller[k] \in {"data", "join"} => it[k] \in Clients \ todo[k]
  /\ \A k \in Callers : caller[k] \notin {"data", "join"} => it[k] = NULL
  /\ \A k \in Callers : caller[k] \notin WalkPc => todo[k] = {}
  /\ \A c \in ctrlAborted : cl[c] \in LinkedPc
  /\ \A c \in ctrlAborted : \E k \in Callers : caller[k] \in {"data", "join"} /\ it[k] = c
  /\ \A c \in Clients : cl[c] = "aborted" => c \in ctrlAborted

\* What is in the list.
InList ==
  /\ ListMatchesThreads
  /\ WalkExact
  /\ QuietAfterFini
  /\ ~ftp_initialized => client_list = {}
  /\ \A k \in Callers : caller[k] = "reset" => \A c \in Clients : cl[c] \in {"none", "close"}

\* What the counter is worth, also to those who have read it.
Counted ==
  /\ IsFiniteSet(client_list)
  /\ NumberCoversList
  /\ \A c \in Clients : cl[c] = "dec" => tmp[c] > Cardinality(client_list)
  /\ \A s \in Servers : sv[s] = "inc" => tmp[s] >= Cardinality(client_list)

IInv == TypeOK /\ Turn /\ OneServer /\ MutexHeld /\ WalkAt /\ InList /\ Counted

\* The names a mutex can hold are told apart.
LEMMA MutexNames ==
  /\ "free" \notin Clients /\ "destroyed" \notin Clients
  /\ Restarters \subseteq {"stats"} =>
       \A k \in Callers : k \notin Clients /\ k # "free" /\ k # "destroyed"
  BY NamesAssumption DEF Callers
-----------------------------------------------------------------------------
(* The step of each part: one leaf per action *)

LEMMA TypeStep ==
  ASSUME Restarters \subseteq {"stats"}, IInv, [Next]_vars
  PROVE  TypeOK'
<1> USE DEF IInv, TypeOK, ServerPc, ClientPc, CallerPc, DataConnectionType
<1>1. CASE NetChange
  BY <1>1, BoundsAssumption DEF NetChange, list, server, client, walk
<1>2. ASSUME NEW k \in Callers, Restart(k) PROVE TypeOK'
  BY <1>2 DEF Restart, At, globals, list, server, client, walk
<1>3. ASSUME NEW k \in Callers, CloseServer(k) PROVE TypeOK'
  BY <1>3 DEF CloseServer, At, globals, list, server, client, walk
<1>4. ASSUME NEW k \in Callers, JoinServer(k) PROVE TypeOK'
  BY <1>4 DEF JoinServer, At, globals, list, server, client, walk
<1>5. ASSUME NEW k \in Callers, WalkLock(k) PROVE TypeOK'
  BY <1>5 DEF WalkLock, At, CanLock, Lock, globals, list, server, client, walk
<1>6. ASSUME NEW k \in Callers, WalkAbort(k) PROVE TypeOK'
  BY <1>6 DEF WalkAbort, At, globals, list, server, client, walk
<1>7. ASSUME NEW k \in Callers, WalkData(k) PROVE TypeOK'
  BY <1>7 DEF WalkData, At, globals, list, server, client, walk, WalkAt
<1>8. ASSUME NEW k \in Callers, WalkJoin(k) PROVE TypeOK'
  BY <1>8 DEF WalkJoin, At, globals, list, server, client, walk
<1>9. ASSUME NEW k \in Callers, WalkEnd(k) PROVE TypeOK'
  BY <1>9 DEF WalkEnd, At, Unlock, globals, list, server, client, walk
<1>10. ASSUME NEW k \in Callers, FiniReset(k) PROVE TypeOK'
  BY <1>10 DEF FiniReset, At, globals, list, server, client, walk
<1>11. ASSUME NEW k \in Callers, StartFTP(k) PROVE TypeOK'
  BY <1>11 DEF StartFTP, At, globals, list, server, client, walk
<1>12. ASSUME NEW k \in Callers, GetIp(k) PROVE TypeOK'
  BY <1>12 DEF GetIp, At, globals, list, server, client, walk
<1>13. ASSUME NEW k \in Callers, InitServer(k) PROVE TypeOK'
  BY <1>13 DEF InitServer, At, globals, list, server, client, walk
<1>14. ASSUME NEW k \in Callers, CreateServer(k) PROVE TypeOK'
  BY <1>14 DEF CreateServer, At, globals, list, server, client, walk
<1>15. ASSUME NEW s \in Servers, OpenSocket(s) PROVE TypeOK'
  BY <1>15 DEF OpenSocket, ServerAt, globals, list, server, client, walk
<1>16. ASSUME NEW s \in Servers, Accept(s) PROVE TypeOK'
  BY <1>16 DEF Accept, ServerAt, globals, list, server, client, walk
<1>17. ASSUME NEW s \in Servers, AcceptFails(s) PROVE TypeOK'
  BY <1>17 DEF AcceptFails, ServerAt, globals, list, server, client, walk
<1>18. ASSUME NEW s \in Servers, client_list_add(s) PROVE TypeOK'
  BY <1>18 DEF client_list_add, ServerAt, CanLock, globals, list, server, client, walk, OneServer
<1>19. ASSUME NEW s \in Servers, CreateClient(s) PROVE TypeOK'
  BY <1>19 DEF CreateClient, ServerAt, globals, list, server, client, walk
<1>20. ASSUME NEW s \in Servers, LogClient(s) PROVE TypeOK'
  BY <1>20 DEF LogClient, ServerAt, globals, list, server, client, walk
<1>21. ASSUME NEW s \in Servers, IncClients(s) PROVE TypeOK'
  BY <1>21 DEF IncClients, ServerAt, globals, list, server, client, walk
<1>22. ASSUME NEW c \in Clients, RecvCommand(c) PROVE TypeOK'
  BY <1>22 DEF RecvCommand, ClientAt, globals, list, server, client, walk
<1>23. ASSUME NEW c \in Clients, EndCommand(c) PROVE TypeOK'
  BY <1>23 DEF EndCommand, ClientAt, globals, list, server, client, walk
<1>24. ASSUME NEW c \in Clients, EndTransfer(c) PROVE TypeOK'
  BY <1>24 DEF EndTransfer, ClientAt, Spins, globals, list, server, client, walk
<1>25. ASSUME NEW c \in Clients, RecvEnd(c) PROVE TypeOK'
  BY <1>25 DEF RecvEnd, ClientAt, globals, list, server, client, walk
<1>26. ASSUME NEW c \in Clients, ReadFails(c) PROVE TypeOK'
  BY <1>26 DEF ReadFails, ClientAt, globals, list, server, client, walk
<1>27. ASSUME NEW c \in Clients, RecvAborted(c) PROVE TypeOK'
  BY <1>27 DEF RecvAborted, ClientAt, globals, list, server, client, walk
<1>28. ASSUME NEW c \in Clients, client_list_delete(c) PROVE TypeOK'
  BY <1>28 DEF client_list_delete, ClientAt, CanLock, Lock, globals, list, server, client, walk
<1>29. ASSUME NEW c \in Clients, DecClients(c) PROVE TypeOK'
  BY <1>29, FS_CardinalityType DEF Counted, DecClients, ClientAt, Unlock, globals, list,
      server, client, walk
<1>30. ASSUME NEW c \in Clients, CloseClient(c) PROVE TypeOK'
  BY <1>30 DEF CloseClient, ClientAt, globals, list, server, client, walk
<1>31. CASE UNCHANGED vars
  BY <1>31 DEF vars, globals, list, server, client, walk
<1> QED
  BY <1>1, <1>2, <1>3, <1>4, <1>5, <1>6, <1>7, <1>8, <1>9, <1>10, <1>11, <1>12, <1>13, <1>14,
      <1>15, <1>16, <1>17, <1>18, <1>19, <1>20, <1>21, <1>22, <1>23, <1>24, <1>25, <1>26,
      <1>27, <1>28, <1>29, <1>30, <1>31
     DEF Next, CallerStep, ServerStep, ClientStep, ClientEvent


LEMMA TurnStep ==
  ASSUME Restarters \subseteq {"stats"}, IInv, [Next]_vars
  PROVE  Turn'
<1> USE DEF IInv, TypeOK, Turn, OneCallerAtATime, FiniPc, StartPc, WalkPc, Callers
<1>1. CASE NetChange
  BY <1>1 DEF NetChange, list, server, client, walk
<1>2. ASSUME NEW k \in Callers, Restart(k) PROVE Turn'
  BY <1>2 DEF Restart, At, globals, list, server, client, walk
<1>3. ASSUME NEW k \in Callers, CloseServer(k) PROVE Turn'
  BY <1>3 DEF CloseServer, At, globals, list, server, client, walk
<1>4. ASSUME NEW k \in Callers, JoinServer(k) PROVE Turn'
  BY <1>4 DEF JoinServer, At, globals, list, server, client, walk
<1>5. ASSUME NEW k \in Callers, WalkLock(k) PROVE Turn'
  BY <1>5 DEF WalkLock, At, CanLock, Lock, globals, list, server, client, walk
<1>6. ASSUME NEW k \in Callers, WalkAbort(k) PROVE Turn'
  BY <1>6 DEF WalkAbort, At, globals, list, server, client, walk
<1>7. ASSUME NEW k \in Callers, WalkData(k) PROVE Turn'
  BY <1>7 DEF WalkData, At, globals, list, server, client, walk
<1>8. ASSUME NEW k \in Callers, WalkJoin(k) PROVE Turn'
  BY <1>8 DEF WalkJoin, At, globals, list, server, client, walk
<1>9. ASSUME NEW k \in Callers, WalkEnd(k) PROVE Turn'
  BY <1>9 DEF WalkEnd, At, Unlock, globals, list, server, client, walk
<1>10. ASSUME NEW k \in Callers, FiniReset(k) PROVE Turn'
  BY <1>10 DEF FiniReset, At, globals, list, server, client, walk
<1>11. ASSUME NEW k \in Callers, StartFTP(k) PROVE Turn'
  BY <1>11 DEF StartFTP, At, globals, list, server, client, walk
<1>12. ASSUME NEW k \in Callers, GetIp(k) PROVE Turn'
  BY <1>12 DEF GetIp, At, globals, list, server, client, walk
<1>13. ASSUME NEW k \in Callers, InitServer(k) PROVE Turn'
  BY <1>13 DEF InitServer, At, globals, list, server, client, walk
<1>14. ASSUME NEW k \in Callers, CreateServer(k) PROVE Turn'
  BY <1>14 DEF CreateServer, At, globals, list, server, client, walk
<1>15. ASSUME NEW s \in Servers, OpenSocket(s) PROVE Turn'
  BY <1>15 DEF OpenSocket, ServerAt, globals, list, server, client, walk
<1>16. ASSUME NEW s \in Servers, Accept(s) PROVE Turn'
  BY <1>16 DEF Accept, ServerAt, globals, list, server, client, walk
<1>17. ASSUME NEW s \in Servers, AcceptFails(s) PROVE Turn'
  BY <1>17 DEF AcceptFails, ServerAt, globals, list, server, client, walk
<1>18. ASSUME NEW s \in Servers, client_list_add(s) PROVE Turn'
  BY <1>18 DEF client_list_add, ServerAt, CanLock, globals, list, server, client, walk
<1>19. ASSUME NEW s \in Servers, CreateClient(s) PROVE Turn'
  BY <1>19 DEF CreateClient, ServerAt, globals, list, server, client, walk
<1>20. ASSUME NEW s \in Servers, LogClient(s) PROVE Turn'
  BY <1>20 DEF LogClient, ServerAt, globals, list, server, client, walk
<1>21. ASSUME NEW s \in Servers, IncClients(s) PROVE Turn'
  BY <1>21 DEF IncClients, ServerAt, globals, list, server, client, walk
<1>22. ASSUME NEW c \in Clients, RecvCommand(c) PROVE Turn'
  BY <1>22 DEF RecvCommand, ClientAt, globals, list, server, client, walk
<1>23. ASSUME NEW c \in Clients, EndCommand(c) PROVE Turn'
  BY <1>23 DEF EndCommand, ClientAt, globals, list, server, client, walk
<1>24. ASSUME NEW c \in Clients, EndTransfer(c) PROVE Turn'
  BY <1>24 DEF EndTransfer, ClientAt, Spins, globals, list, server, client, walk
<1>25. ASSUME NEW c \in Clients, RecvEnd(c) PROVE Turn'
  BY <1>25 DEF RecvEnd, ClientAt, globals, list, server, client, walk
<1>26. ASSUME NEW c \in Clients, ReadFails(c) PROVE Turn'
  BY <1>26 DEF ReadFails, ClientAt, globals, list, server, client, walk
<1>27. ASSUME NEW c \in Clients, RecvAborted(c) PROVE Turn'
  BY <1>27 DEF RecvAborted, ClientAt, globals, list, server, client, walk
<1>28. ASSUME NEW c \in Clients, client_list_delete(c) PROVE Turn'
  BY <1>28 DEF client_list_delete, ClientAt, CanLock, Lock, globals, list, server, client, walk
<1>29. ASSUME NEW c \in Clients, DecClients(c) PROVE Turn'
  BY <1>29 DEF DecClients, ClientAt, Unlock, globals, list, server, client, walk
<1>30. ASSUME NEW c \in Clients, CloseClient(c) PROVE Turn'
  BY <1>30 DEF CloseClient, ClientAt, globals, list, server, client, walk
<1>31. CASE UNCHANGED vars
  BY <1>31 DEF vars, globals, list, server, client, walk
<1> QED
  BY <1>1, <1>2, <1>3, <1>4, <1>5, <1>6, <1>7, <1>8, <1>9, <1>10, <1>11, <1>12, <1>13, <1>14,
      <1>15, <1>16, <1>17, <1>18, <1>19, <1>20, <1>21, <1>22, <1>23, <1>24, <1>25, <1>26,
      <1>27, <1>28, <1>29, <1>30, <1>31
     DEF Next, CallerStep, ServerStep, ClientStep, ClientEvent


LEMMA OneServerStep ==
  ASSUME Restarters \subseteq {"stats"}, IInv, [Next]_vars
  PROVE  OneServer'
<1> USE DEF IInv, TypeOK, Turn, OneCallerAtATime, OneServer, FiniPc, StartPc, WalkPc, ServerPc,
    ClientPc, CallerPc
<1>1. CASE NetChange
  BY <1>1 DEF NetChange, list, server, client, walk
<1>2. ASSUME NEW k \in Callers, Restart(k) PROVE OneServer'
  BY <1>2 DEF Restart, At, globals, list, server, client, walk
<1>3. ASSUME NEW k \in Callers, CloseServer(k) PROVE OneServer'
  BY <1>3 DEF CloseServer, At, globals, list, server, client, walk
<1>4. ASSUME NEW k \in Callers, JoinServer(k) PROVE OneServer'
  BY <1>4 DEF JoinServer, At, globals, list, server, client, walk
<1>5. ASSUME NEW k \in Callers, WalkLock(k) PROVE OneServer'
  BY <1>5 DEF WalkLock, At, CanLock, Lock, globals, list, server, client, walk
<1>6. ASSUME NEW k \in Callers, WalkAbort(k) PROVE OneServer'
  BY <1>6 DEF WalkAbort, At, globals, list, server, client, walk
<1>7. ASSUME NEW k \in Callers, WalkData(k) PROVE OneServer'
  BY <1>7 DEF WalkData, At, globals, list, server, client, walk
<1>8. ASSUME NEW k \in Callers, WalkJoin(k) PROVE OneServer'
  BY <1>8 DEF WalkJoin, At, globals, list, server, client, walk
<1>9. ASSUME NEW k \in Callers, WalkEnd(k) PROVE OneServer'
  BY <1>9 DEF WalkEnd, At, Unlock, globals, list, server, client, walk
<1>10. ASSUME NEW k \in Callers, FiniReset(k) PROVE OneServer'
  BY <1>10 DEF FiniReset, At, globals, list, server, client, walk
<1>11. ASSUME NEW k \in Callers, StartFTP(k) PROVE OneServer'
  BY <1>11 DEF StartFTP, At, globals, list, server, client, walk
<1>12. ASSUME NEW k \in Callers, GetIp(k) PROVE OneServer'
  BY <1>12 DEF GetIp, At, globals, list, server, client, walk
<1>13. ASSUME NEW k \in Callers, InitServer(k) PROVE OneServer'
  BY <1>13 DEF InitServer, At, globals, list, server, client, walk
<1>14. ASSUME NEW k \in Callers, CreateServer(k) PROVE OneServer'
  BY <1>14 DEF CreateServer, At, globals, list, server, client, walk
<1>15. ASSUME NEW s \in Servers, OpenSocket(s) PROVE OneServer'
  BY <1>15 DEF OpenSocket, ServerAt, globals, list, server, client, walk
<1>16. ASSUME NEW s \in Servers, Accept(s) PROVE OneServer'
  BY <1>16 DEF Accept, ServerAt, globals, list, server, client, walk
<1>17. ASSUME NEW s \in Servers, AcceptFails(s) PROVE OneServer'
  BY <1>17 DEF AcceptFails, ServerAt, globals, list, server, client, walk
<1>18. ASSUME NEW s \in Servers, client_list_add(s) PROVE OneServer'
  BY <1>18 DEF client_list_add, ServerAt, CanLock, globals, list, server, client, walk
<1>19. ASSUME NEW s \in Servers, CreateClient(s) PROVE OneServer'
  BY <1>19 DEF CreateClient, ServerAt, globals, list, server, client, walk
<1>20. ASSUME NEW s \in Servers, LogClient(s) PROVE OneServer'
  BY <1>20 DEF LogClient, ServerAt, globals, list, server, client, walk
<1>21. ASSUME NEW s \in Servers, IncClients(s) PROVE OneServer'
  BY <1>21 DEF IncClients, ServerAt, globals, list, server, client, walk
<1>22. ASSUME NEW c \in Clients, RecvCommand(c) PROVE OneServer'
  BY <1>22 DEF RecvCommand, ClientAt, globals, list, server, client, walk
<1>23. ASSUME NEW c \in Clients, EndCommand(c) PROVE OneServer'
  BY <1>23 DEF EndCommand, ClientAt, globals, list, server, client, walk
<1>24. ASSUME NEW c \in Clients, EndTransfer(c) PROVE OneServer'
  BY <1>24 DEF EndTransfer, ClientAt, Spins, globals, list, server, client, walk
<1>25. ASSUME NEW c \in Clients, RecvEnd(c) PROVE OneServer'
  BY <1>25 DEF RecvEnd, ClientAt, globals, list, server, client, walk
<1>26. ASSUME NEW c \in Clients, ReadFails(c) PROVE OneServer'
  BY <1>26 DEF ReadFails, ClientAt, globals, list, server, client, walk
<1>27. ASSUME NEW c \in Clients, RecvAborted(c) PROVE OneServer'
  BY <1>27 DEF RecvAborted, ClientAt, globals, list, server, client, walk
<1>28. ASSUME NEW c \in Clients, client_list_delete(c) PROVE OneServer'
  BY <1>28 DEF client_list_delete, ClientAt, CanLock, Lock, globals, list, server, client, walk
<1>29. ASSUME NEW c \in Clients, DecClients(c) PROVE OneServer'
  BY <1>29 DEF DecClients, ClientAt, Unlock, globals, list, server, client, walk
<1>30. ASSUME NEW c \in Clients, CloseClient(c) PROVE OneServer'
  BY <1>30 DEF CloseClient, ClientAt, globals, list, server, client, walk
<1>31. CASE UNCHANGED vars
  BY <1>31 DEF vars, globals, list, server, client, walk
<1> QED
  BY <1>1, <1>2, <1>3, <1>4, <1>5, <1>6, <1>7, <1>8, <1>9, <1>10, <1>11, <1>12, <1>13, <1>14,
      <1>15, <1>16, <1>17, <1>18, <1>19, <1>20, <1>21, <1>22, <1>23, <1>24, <1>25, <1>26,
      <1>27, <1>28, <1>29, <1>30, <1>31
     DEF Next, CallerStep, ServerStep, ClientStep, ClientEvent


LEMMA MutexStep ==
  ASSUME Restarters \subseteq {"stats"}, IInv, [Next]_vars
  PROVE  MutexHeld'
<1> USE DEF IInv, TypeOK, Turn, OneCallerAtATime, MutexHeld, FiniPc, StartPc, WalkPc, ServerPc,
    ClientPc, CallerPc
<1>1. CASE NetChange
  BY <1>1 DEF NetChange, list, server, client, walk
<1>2. ASSUME NEW k \in Callers, Restart(k) PROVE MutexHeld'
  BY <1>2 DEF Restart, At, globals, list, server, client, walk
<1>3. ASSUME NEW k \in Callers, CloseServer(k) PROVE MutexHeld'
  BY <1>3 DEF CloseServer, At, globals, list, server, client, walk
<1>4. ASSUME NEW k \in Callers, JoinServer(k) PROVE MutexHeld'
  BY <1>4 DEF JoinServer, At, globals, list, server, client, walk
<1>5. ASSUME NEW k \in Callers, WalkLock(k) PROVE MutexHeld'
  BY <1>5, MutexNames DEF WalkLock, At, CanLock, Lock, globals, list, server, client, walk
<1>6. ASSUME NEW k \in Callers, WalkAbort(k) PROVE MutexHeld'
  BY <1>6 DEF WalkAbort, At, globals, list, server, client, walk
<1>7. ASSUME NEW k \in Callers, WalkData(k) PROVE MutexHeld'
  BY <1>7 DEF WalkData, At, globals, list, server, client, walk
<1>8. ASSUME NEW k \in Callers, WalkJoin(k) PROVE MutexHeld'
  BY <1>8 DEF WalkJoin, At, globals, list, server, client, walk
<1>9. ASSUME NEW k \in Callers, WalkEnd(k) PROVE MutexHeld'
  BY <1>9, MutexNames DEF WalkEnd, At, Unlock, globals, list, server, client, walk
<1>10. ASSUME NEW k \in Callers, FiniReset(k) PROVE MutexHeld'
  BY <1>10 DEF FiniReset, At, globals, list, server, client, walk, InList
<1>11. ASSUME NEW k \in Callers, StartFTP(k) PROVE MutexHeld'
  BY <1>11 DEF StartFTP, At, globals, list, server, client, walk
<1>12. ASSUME NEW k \in Callers, GetIp(k) PROVE MutexHeld'
  BY <1>12 DEF GetIp, At, globals, list, server, client, walk
<1>13. ASSUME NEW k \in Callers, InitServer(k) PROVE MutexHeld'
  BY <1>13 DEF InitServer, At, globals, list, server, client, walk, InList, QuietAfterFini
<1>14. ASSUME NEW k \in Callers, CreateServer(k) PROVE MutexHeld'
  BY <1>14 DEF CreateServer, At, globals, list, server, client, walk, InList
<1>15. ASSUME NEW s \in Servers, OpenSocket(s) PROVE MutexHeld'
  BY <1>15 DEF OpenSocket, ServerAt, globals, list, server, client, walk
<1>16. ASSUME NEW s \in Servers, Accept(s) PROVE MutexHeld'
  BY <1>16 DEF Accept, ServerAt, globals, list, server, client, walk
<1>17. ASSUME NEW s \in Servers, AcceptFails(s) PROVE MutexHeld'
  BY <1>17 DEF AcceptFails, ServerAt, globals, list, server, client, walk
<1>18. ASSUME NEW s \in Servers, client_list_add(s) PROVE MutexHeld'
  BY <1>18 DEF client_list_add, ServerAt, CanLock, globals, list, server, client, walk
<1>19. ASSUME NEW s \in Servers, CreateClient(s) PROVE MutexHeld'
  BY <1>19 DEF CreateClient, ServerAt, globals, list, server, client, walk
<1>20. ASSUME NEW s \in Servers, LogClient(s) PROVE MutexHeld'
  BY <1>20 DEF LogClient, ServerAt, globals, list, server, client, walk
<1>21. ASSUME NEW s \in Servers, IncClients(s) PROVE MutexHeld'
  BY <1>21 DEF IncClients, ServerAt, globals, list, server, client, walk
<1>22. ASSUME NEW c \in Clients, RecvCommand(c) PROVE MutexHeld'
  BY <1>22 DEF RecvCommand, ClientAt, globals, list, server, client, walk
<1>23. ASSUME NEW c \in Clients, EndCommand(c) PROVE MutexHeld'
  BY <1>23 DEF EndCommand, ClientAt, globals, list, server, client, walk
<1>24. ASSUME NEW c \in Clients, EndTransfer(c) PROVE MutexHeld'
  BY <1>24 DEF EndTransfer, ClientAt, Spins, globals, list, server, client, walk
<1>25. ASSUME NEW c \in Clients, RecvEnd(c) PROVE MutexHeld'
  BY <1>25 DEF RecvEnd, ClientAt, globals, list, server, client, walk
<1>26. ASSUME NEW c \in Clients, ReadFails(c) PROVE MutexHeld'
  BY <1>26 DEF ReadFails, ClientAt, globals, list, server, client, walk
<1>27. ASSUME NEW c \in Clients, RecvAborted(c) PROVE MutexHeld'
  BY <1>27 DEF RecvAborted, ClientAt, globals, list, server, client, walk
<1>28. ASSUME NEW c \in Clients, client_list_delete(c) PROVE MutexHeld'
  BY <1>28, MutexNames DEF client_list_delete, ClientAt, CanLock, Lock, globals, list, server,
      client, walk, InList, QuietAfterFini
<1>29. ASSUME NEW c \in Clients, DecClients(c) PROVE MutexHeld'
  BY <1>29, MutexNames DEF DecClients, ClientAt, Unlock, globals, list, server, client, walk
<1>30. ASSUME NEW c \in Clients, CloseClient(c) PROVE MutexHeld'
  BY <1>30 DEF CloseClient, ClientAt, globals, list, server, client, walk
<1>31. CASE UNCHANGED vars
  BY <1>31 DEF vars, globals, list, server, client, walk
<1> QED
  BY <1>1, <1>2, <1>3, <1>4, <1>5, <1>6, <1>7, <1>8, <1>9, <1>10, <1>11, <1>12, <1>13, <1>14,
      <1>15, <1>16, <1>17, <1>18, <1>19, <1>20, <1>21, <1>22, <1>23, <1>24, <1>25, <1>26,
      <1>27, <1>28, <1>29, <1>30, <1>31
     DEF Next, CallerStep, ServerStep, ClientStep, ClientEvent


LEMMA WalkAtStep ==
  ASSUME Restarters \subseteq {"stats"}, IInv, [Next]_vars
  PROVE  WalkAt'
<1> USE DEF IInv, TypeOK, Turn, OneCallerAtATime, WalkAt, FiniPc, StartPc, WalkPc, ServerPc,
    ClientPc, CallerPc, LinkedPc
<1>1. CASE NetChange
  BY <1>1 DEF NetChange, list, server, client, walk
<1>2. ASSUME NEW k \in Callers, Restart(k) PROVE WalkAt'
  BY <1>2 DEF Restart, At, globals, list, server, client, walk
<1>3. ASSUME NEW k \in Callers, CloseServer(k) PROVE WalkAt'
  BY <1>3 DEF CloseServer, At, globals, list, server, client, walk
<1>4. ASSUME NEW k \in Callers, JoinServer(k) PROVE WalkAt'
  BY <1>4 DEF JoinServer, At, globals, list, server, client, walk
<1>5. ASSUME NEW k \in Callers, WalkLock(k) PROVE WalkAt'
  BY <1>5 DEF WalkLock, At, CanLock, Lock, globals, list, server, client, walk
<1>6. ASSUME NEW k \in Callers, WalkAbort(k) PROVE WalkAt'
  BY <1>6 DEF WalkAbort, At, globals, list, server, client, walk, InList, WalkExact, Walking, Linked
<1>7. ASSUME NEW k \in Callers, WalkData(k) PROVE WalkAt'
  BY <1>7 DEF WalkData, At, globals, list, server, client, walk
<1>8. ASSUME NEW k \in Callers, WalkJoin(k) PROVE WalkAt'
  BY <1>8 DEF WalkJoin, At, globals, list, server, client, walk
<1>9. ASSUME NEW k \in Callers, WalkEnd(k) PROVE WalkAt'
  BY <1>9 DEF WalkEnd, At, Unlock, globals, list, server, client, walk
<1>10. ASSUME NEW k \in Callers, FiniReset(k) PROVE WalkAt'
  BY <1>10 DEF FiniReset, At, globals, list, server, client, walk
<1>11. ASSUME NEW k \in Callers, StartFTP(k) PROVE WalkAt'
  BY <1>11 DEF StartFTP, At, globals, list, server, client, walk
<1>12. ASSUME NEW k \in Callers, GetIp(k) PROVE WalkAt'
  BY <1>12 DEF GetIp, At, globals, list, server, client, walk
<1>13. ASSUME NEW k \in Callers, InitServer(k) PROVE WalkAt'
  BY <1>13 DEF InitServer, At, globals, list, server, client, walk
<1>14. ASSUME NEW k \in Callers, CreateServer(k) PROVE WalkAt'
  BY <1>14 DEF CreateServer, At, globals, list, server, client, walk
<1>15. ASSUME NEW s \in Servers, OpenSocket(s) PROVE WalkAt'
  BY <1>15 DEF OpenSocket, ServerAt, globals, list, server, client, walk
<1>16. ASSUME NEW s \in Servers, Accept(s) PROVE WalkAt'
  BY <1>16 DEF Accept, ServerAt, globals, list, server, client, walk, OneServer
<1>17. ASSUME NEW s \in Servers, AcceptFails(s) PROVE WalkAt'
  BY <1>17 DEF AcceptFails, ServerAt, globals, list, server, client, walk
<1>18. ASSUME NEW s \in Servers, client_list_add(s) PROVE WalkAt'
  BY <1>18 DEF client_list_add, ServerAt, CanLock, globals, list, server, client, walk, OneServer
<1>19. ASSUME NEW s \in Servers, CreateClient(s) PROVE WalkAt'
  BY <1>19 DEF CreateClient, ServerAt, globals, list, server, client, walk, OneServer
<1>20. ASSUME NEW s \in Servers, LogClient(s) PROVE WalkAt'
  BY <1>20 DEF LogClient, ServerAt, globals, list, server, client, walk
<1>21. ASSUME NEW s \in Servers, IncClients(s) PROVE WalkAt'
  BY <1>21 DEF IncClients, ServerAt, globals, list, server, client, walk
<1>22. ASSUME NEW c \in Clients, RecvCommand(c) PROVE WalkAt'
  BY <1>22 DEF RecvCommand, ClientAt, globals, list, server, client, walk
<1>23. ASSUME NEW c \in Clients, EndCommand(c) PROVE WalkAt'
  BY <1>23 DEF EndCommand, ClientAt, globals, list, server, client, walk
<1>24. ASSUME NEW c \in Clients, EndTransfer(c) PROVE WalkAt'
  BY <1>24 DEF EndTransfer, ClientAt, Spins, globals, list, server, client, walk
<1>25. ASSUME NEW c \in Clients, RecvEnd(c) PROVE WalkAt'
  BY <1>25 DEF RecvEnd, ClientAt, globals, list, server, client, walk
<1>26. ASSUME NEW c \in Clients, ReadFails(c) PROVE WalkAt'
  BY <1>26 DEF ReadFails, ClientAt, globals, list, server, client, walk
<1>27. ASSUME NEW c \in Clients, RecvAborted(c) PROVE WalkAt'
  BY <1>27 DEF RecvAborted, ClientAt, globals, list, server, client, walk
<1>28. ASSUME NEW c \in Clients, client_list_delete(c) PROVE WalkAt'
  BY <1>28, MutexNames DEF client_list_delete, ClientAt, CanLock, Lock, globals, list, server,
      client, walk, MutexHeld
<1>29. ASSUME NEW c \in Clients, DecClients(c) PROVE WalkAt'
  BY <1>29, MutexNames DEF DecClients, ClientAt, Unlock, globals, list, server, client, walk
<1>30. ASSUME NEW c \in Clients, CloseClient(c) PROVE WalkAt'
  BY <1>30 DEF CloseClient, ClientAt, globals, list, server, client, walk
<1>31. CASE UNCHANGED vars
  BY <1>31 DEF vars, globals, list, server, client, walk
<1> QED
  BY <1>1, <1>2, <1>3, <1>4, <1>5, <1>6, <1>7, <1>8, <1>9, <1>10, <1>11, <1>12, <1>13, <1>14,
      <1>15, <1>16, <1>17, <1>18, <1>19, <1>20, <1>21, <1>22, <1>23, <1>24, <1>25, <1>26,
      <1>27, <1>28, <1>29, <1>30, <1>31
     DEF Next, CallerStep, ServerStep, ClientStep, ClientEvent


LEMMA InListStep ==
  ASSUME Restarters \subseteq {"stats"}, IInv, [Next]_vars
  PROVE  InList'
<1> USE DEF IInv, TypeOK, Turn, OneCallerAtATime, InList, ListMatchesThreads, WalkExact,
    QuietAfterFini, Linked, Walking, FiniPc, StartPc, WalkPc, ServerPc, ClientPc, CallerPc,
    LinkedPc
<1>1. CASE NetChange
  BY <1>1 DEF NetChange, list, server, client, walk
<1>2. ASSUME NEW k \in Callers, Restart(k) PROVE InList'
  BY <1>2 DEF Restart, At, globals, list, server, client, walk
<1>3. ASSUME NEW k \in Callers, CloseServer(k) PROVE InList'
  BY <1>3 DEF CloseServer, At, globals, list, server, client, walk
<1>4. ASSUME NEW k \in Callers, JoinServer(k) PROVE InList'
  BY <1>4 DEF JoinServer, At, globals, list, server, client, walk, OneServer
<1>5. ASSUME NEW k \in Callers, WalkLock(k) PROVE InList'
  BY <1>5 DEF WalkLock, At, CanLock, Lock, globals, list, server, client, walk
<1>6. ASSUME NEW k \in Callers, WalkAbort(k) PROVE InList'
  <2> PICK x \in todo[k] : /\ it' = [it EXCEPT ![k] = x]
                        /\ todo' = [todo EXCEPT ![k] = @ \ {x}]
    BY <1>6 DEF WalkAbort
  <2>1. caller[k] = "walk" /\ caller' = [caller EXCEPT ![k] = "data"] /\ cl' = cl
        /\ client_list' = client_list /\ ftp_initialized' = ftp_initialized /\ sv' = sv
    BY <1>6 DEF WalkAbort, At, globals, list, server
  <2>2. todo[k] \subseteq Linked /\ Linked \subseteq todo[k]
    BY <2>1, NamesAssumption DEF WalkAt
  <2>3. \A j \in Callers : caller'[j] # "idle" => j = k
    BY <2>1
  <2>4. WalkExact'
    BY <2>1, <2>2, <2>3
  <2> QED
    BY <2>1, <2>3, <2>4
<1>7. ASSUME NEW k \in Callers, WalkData(k) PROVE InList'
  BY <1>7 DEF WalkData, At, globals, list, server, client, walk
<1>8. ASSUME NEW k \in Callers, WalkJoin(k) PROVE InList'
  BY <1>8 DEF WalkJoin, At, globals, list, server, client, walk, WalkAt
<1>9. ASSUME NEW k \in Callers, WalkEnd(k) PROVE InList'
  <2>1. caller[k] = "walk" /\ caller' = [caller EXCEPT ![k] = "reset"] /\ todo[k] = {}
        /\ cl' = cl /\ client_list' = client_list /\ ftp_initialized' = ftp_initialized
        /\ sv' = sv
    BY <1>9 DEF WalkEnd, At, globals, list, server, client
  <2>2. Linked = {}
    BY <2>1, NamesAssumption DEF WalkAt
  <2>3. ASSUME NEW c \in Clients PROVE cl[c] \notin {"new", "dec"}
    BY <2>1, MutexNames DEF MutexHeld, OneServer
  <2>4. \A c \in Clients : cl[c] \in {"none", "close"}
    BY <2>2, <2>3
  <2>5. \A j \in Callers : caller'[j] # "idle" => j = k
    BY <2>1
  <2> QED
    BY <2>1, <2>4, <2>5
<1>10. ASSUME NEW k \in Callers, FiniReset(k) PROVE InList'
  <2>1. caller[k] = "reset" /\ caller' = [caller EXCEPT ![k] = "start"] /\ cl' = cl
        /\ client_list' = {} /\ sv' = sv /\ ~ftp_initialized'
    BY <1>10 DEF FiniReset, At, list, server, client
  <2>2. Linked' = {} /\ \A c \in Clients : cl'[c] \in {"none", "close"}
    BY <2>1
  <2>3. \A s \in Servers : sv'[s] = "none"
    BY <2>1 DEF OneServer
  <2>4. \A j \in Callers : caller'[j] # "idle" => j = k
    BY <2>1
  <2> QED
    BY <2>1, <2>2, <2>3, <2>4
<1>11. ASSUME NEW k \in Callers, StartFTP(k) PROVE InList'
  BY <1>11 DEF StartFTP, At, globals, list, server, client, walk
<1>12. ASSUME NEW k \in Callers, GetIp(k) PROVE InList'
  BY <1>12 DEF GetIp, At, globals, list, server, client, walk
<1>13. ASSUME NEW k \in Callers, InitServer(k) PROVE InList'
  BY <1>13 DEF InitServer, At, globals, list, server, client, walk
<1>14. ASSUME NEW k \in Callers, CreateServer(k) PROVE InList'
  BY <1>14 DEF CreateServer, At, globals, list, server, client, walk
<1>15. ASSUME NEW s \in Servers, OpenSocket(s) PROVE InList'
  BY <1>15 DEF OpenSocket, ServerAt, globals, list, server, client, walk, OneServer
<1>16. ASSUME NEW s \in Servers, Accept(s) PROVE InList'
  BY <1>16 DEF Accept, ServerAt, globals, list, server, client, walk, OneServer
<1>17. ASSUME NEW s \in Servers, AcceptFails(s) PROVE InList'
  BY <1>17 DEF AcceptFails, ServerAt, globals, list, server, client, walk
<1>18. ASSUME NEW s \in Servers, client_list_add(s) PROVE InList'
  BY <1>18 DEF client_list_add, ServerAt, CanLock, globals, list, server, client, walk, OneServer
<1>19. ASSUME NEW s \in Servers, CreateClient(s) PROVE InList'
  BY <1>19 DEF CreateClient, ServerAt, globals, list, server, client, walk, OneServer
<1>20. ASSUME NEW s \in Servers, LogClient(s) PROVE InList'
  BY <1>20 DEF LogClient, ServerAt, globals, list, server, client, walk
<1>21. ASSUME NEW s \in Servers, IncClients(s) PROVE InList'
  BY <1>21 DEF IncClients, ServerAt, globals, list, server, client, walk
<1>22. ASSUME NEW c \in Clients, RecvCommand(c) PROVE InList'
  BY <1>22 DEF RecvCommand, ClientAt, globals, list, server, client, walk
<1>23. ASSUME NEW c \in Clients, EndCommand(c) PROVE InList'
  BY <1>23 DEF EndCommand, ClientAt, globals, list, server, client, walk
<1>24. ASSUME NEW c \in Clients, EndTransfer(c) PROVE InList'
  BY <1>24 DEF EndTransfer, ClientAt, Spins, globals, list, server, client, walk
<1>25. ASSUME NEW c \in Clients, RecvEnd(c) PROVE InList'
  BY <1>25 DEF RecvEnd, ClientAt, globals, list, server, client, walk
<1>26. ASSUME NEW c \in Clients, ReadFails(c) PROVE InList'
  BY <1>26 DEF ReadFails, ClientAt, globals, list, server, client, walk
<1>27. ASSUME NEW c \in Clients, RecvAborted(c) PROVE InList'
  BY <1>27 DEF RecvAborted, ClientAt, globals, list, server, client, walk
<1>28. ASSUME NEW c \in Clients, client_list_delete(c) PROVE InList'
  BY <1>28, MutexNames DEF client_list_delete, ClientAt, CanLock, Lock, globals, list, server,
      client, walk, MutexHeld
<1>29. ASSUME NEW c \in Clients, DecClients(c) PROVE InList'
  BY <1>29, MutexNames DEF DecClients, ClientAt, Unlock, globals, list, server, client, walk
<1>30. ASSUME NEW c \in Clients, CloseClient(c) PROVE InList'
  BY <1>30 DEF CloseClient, ClientAt, globals, list, server, client, walk, WalkAt
<1>31. CASE UNCHANGED vars
  BY <1>31 DEF vars, globals, list, server, client, walk
<1> QED
  BY <1>1, <1>2, <1>3, <1>4, <1>5, <1>6, <1>7, <1>8, <1>9, <1>10, <1>11, <1>12, <1>13, <1>14,
      <1>15, <1>16, <1>17, <1>18, <1>19, <1>20, <1>21, <1>22, <1>23, <1>24, <1>25, <1>26,
      <1>27, <1>28, <1>29, <1>30, <1>31
     DEF Next, CallerStep, ServerStep, ClientStep, ClientEvent


LEMMA CountedStep ==
  ASSUME Restarters \subseteq {"stats"}, IInv, [Next]_vars
  PROVE  Counted'
<1> USE DEF IInv, TypeOK, Turn, OneCallerAtATime, Counted, NumberCoversList, ServerPc,
    ClientPc, CallerPc
<1>1. CASE NetChange
  BY <1>1 DEF NetChange, list, server, client, walk
<1>2. ASSUME NEW k \in Callers, Restart(k) PROVE Counted'
  BY <1>2 DEF Restart, At, globals, list, server, client, walk
<1>3. ASSUME NEW k \in Callers, CloseServer(k) PROVE Counted'
  BY <1>3 DEF CloseServer, At, globals, list, server, client, walk
<1>4. ASSUME NEW k \in Callers, JoinServer(k) PROVE Counted'
  BY <1>4 DEF JoinServer, At, globals, list, server, client, walk
<1>5. ASSUME NEW k \in Callers, WalkLock(k) PROVE Counted'
  BY <1>5 DEF WalkLock, At, CanLock, Lock, globals, list, server, client, walk
<1>6. ASSUME NEW k \in Callers, WalkAbort(k) PROVE Counted'
  BY <1>6 DEF WalkAbort, At, globals, list, server, client, walk
<1>7. ASSUME NEW k \in Callers, WalkData(k) PROVE Counted'
  BY <1>7 DEF WalkData, At, globals, list, server, client, walk
<1>8. ASSUME NEW k \in Callers, WalkJoin(k) PROVE Counted'
  BY <1>8 DEF WalkJoin, At, globals, list, server, client, walk
<1>9. ASSUME NEW k \in Callers, WalkEnd(k) PROVE Counted'
  BY <1>9 DEF WalkEnd, At, Unlock, globals, list, server, client, walk
<1>10. ASSUME NEW k \in Callers, FiniReset(k) PROVE Counted'
  <2>1. client_list' = {} /\ number_clients' = 0 /\ tmp' = tmp /\ cl' = cl /\ sv' = sv
        /\ caller[k] = "reset"
    BY <1>10 DEF FiniReset, At, server, client
  <2>2. IsFiniteSet(client_list') /\ Cardinality(client_list') = 0
    BY <2>1, FS_EmptySet
  <2>3. /\ \A c \in Clients : cl[c] # "dec"
        /\ \A s \in Servers : sv[s] # "inc"
    BY <2>1 DEF InList, OneServer
  <2> QED
    BY <2>1, <2>2, <2>3
<1>11. ASSUME NEW k \in Callers, StartFTP(k) PROVE Counted'
  BY <1>11 DEF StartFTP, At, globals, list, server, client, walk
<1>12. ASSUME NEW k \in Callers, GetIp(k) PROVE Counted'
  BY <1>12 DEF GetIp, At, globals, list, server, client, walk
<1>13. ASSUME NEW k \in Callers, InitServer(k) PROVE Counted'
  BY <1>13 DEF InitServer, At, globals, list, server, client, walk
<1>14. ASSUME NEW k \in Callers, CreateServer(k) PROVE Counted'
  BY <1>14 DEF CreateServer, At, globals, list, server, client, walk
<1>15. ASSUME NEW s \in Servers, OpenSocket(s) PROVE Counted'
  BY <1>15 DEF OpenSocket, ServerAt, globals, list, server, client, walk
<1>16. ASSUME NEW s \in Servers, Accept(s) PROVE Counted'
  BY <1>16 DEF Accept, ServerAt, globals, list, server, client, walk
<1>17. ASSUME NEW s \in Servers, AcceptFails(s) PROVE Counted'
  BY <1>17 DEF AcceptFails, ServerAt, globals, list, server, client, walk
<1>18. ASSUME NEW s \in Servers, client_list_add(s) PROVE Counted'
  <2>1. /\ sv[s] = "add" /\ sv' = [sv EXCEPT ![s] = "create"]
        /\ client_list' = client_list \cup {newcl[s]} /\ number_clients' = number_clients + 1
        /\ cl' = [cl EXCEPT ![newcl[s]] = "listed"] /\ tmp' = tmp /\ CanLock
    BY <1>18 DEF client_list_add, ServerAt
  <2>2. /\ IsFiniteSet(client_list')
        /\ Cardinality(client_list') \in Nat
        /\ number_clients' >= Cardinality(client_list')
    <3>1. /\ IsFiniteSet(client_list \cup {newcl[s]})
          /\ Cardinality(client_list \cup {newcl[s]})
               = IF newcl[s] \in client_list THEN Cardinality(client_list)
                 ELSE Cardinality(client_list) + 1
      BY FS_AddElement
    <3>2. Cardinality(client_list) \in Nat
      BY FS_CardinalityType
    <3> QED
      BY <2>1, <3>1, <3>2
  <2>3. \A c \in Clients : cl'[c] # "dec"
    BY <2>1, MutexNames DEF MutexHeld, CanLock, OneServer
  <2>4. \A r \in Servers : sv'[r] # "inc"
    BY <2>1 DEF OneServer
  <2> QED
    BY <2>1, <2>2, <2>3, <2>4
<1>19. ASSUME NEW s \in Servers, CreateClient(s) PROVE Counted'
  BY <1>19 DEF CreateClient, ServerAt, globals, list, server, client, walk
<1>20. ASSUME NEW s \in Servers, LogClient(s) PROVE Counted'
  BY <1>20, NamesAssumption, FS_CardinalityType DEF LogClient, ServerAt, globals, list, server,
      client, walk
<1>21. ASSUME NEW s \in Servers, IncClients(s) PROVE Counted'
  BY <1>21, NamesAssumption, FS_CardinalityType DEF IncClients, ServerAt, globals, list,
      server, client, walk
<1>22. ASSUME NEW c \in Clients, RecvCommand(c) PROVE Counted'
  BY <1>22 DEF RecvCommand, ClientAt, globals, list, server, client, walk
<1>23. ASSUME NEW c \in Clients, EndCommand(c) PROVE Counted'
  BY <1>23 DEF EndCommand, ClientAt, globals, list, server, client, walk
<1>24. ASSUME NEW c \in Clients, EndTransfer(c) PROVE Counted'
  BY <1>24 DEF EndTransfer, ClientAt, Spins, globals, list, server, client, walk
<1>25. ASSUME NEW c \in Clients, RecvEnd(c) PROVE Counted'
  BY <1>25 DEF RecvEnd, ClientAt, globals, list, server, client, walk
<1>26. ASSUME NEW c \in Clients, ReadFails(c) PROVE Counted'
  BY <1>26 DEF ReadFails, ClientAt, globals, list, server, client, walk
<1>27. ASSUME NEW c \in Clients, RecvAborted(c) PROVE Counted'
  BY <1>27 DEF RecvAborted, ClientAt, globals, list, server, client, walk
<1>28. ASSUME NEW c \in Clients, client_list_delete(c) PROVE Counted'
  <2>1. /\ cl[c] = "unlink" /\ cl' = [cl EXCEPT ![c] = "dec"] /\ sv' = sv /\ CanLock
        /\ client_list' = client_list \ {c} /\ number_clients' = number_clients
        /\ tmp' = [tmp EXCEPT ![c] = number_clients]
    BY <1>28 DEF client_list_delete, ClientAt, server
  <2>2. c \in client_list
    <3>1. ftp_initialized /\ client_list_mtx # "destroyed"
      BY <2>1 DEF InList, QuietAfterFini, MutexHeld
    <3>2. \A k \in Callers : caller[k] \notin WalkPc \cup {"reset"}
      BY <2>1, <3>1, MutexNames DEF MutexHeld, InList, CanLock
    <3> QED
      BY <2>1, <3>2 DEF InList, ListMatchesThreads, Linked, LinkedPc
  <2>3. /\ IsFiniteSet(client_list')
        /\ Cardinality(client_list') = Cardinality(client_list) - 1
        /\ Cardinality(client_list) \in Nat
    BY <2>1, <2>2, FS_RemoveElement, FS_CardinalityType
  <2>4. \A d \in Clients : d # c => cl[d] # "dec"
    BY <2>1, MutexNames DEF MutexHeld, CanLock
  <2>5. \A s \in Servers : sv'[s] = "inc" => tmp'[s] >= Cardinality(client_list')
    BY <2>1, <2>3, NamesAssumption
  <2>6. tmp'[c] = number_clients /\ number_clients >= Cardinality(client_list)
    BY <2>1
  <2>7. \A d \in Clients : cl'[d] = "dec" => d = c
    BY <2>1, <2>4
  <2>8. tmp'[c] > Cardinality(client_list') /\ number_clients' >= Cardinality(client_list')
    BY <2>1, <2>3, <2>6
  <2> QED
    BY <2>3, <2>5, <2>7, <2>8
<1>29. ASSUME NEW c \in Clients, DecClients(c) PROVE Counted'
  <2>1. /\ cl[c] = "dec" /\ cl' = [cl EXCEPT ![c] = "close"] /\ sv' = sv
        /\ client_list' = client_list /\ number_clients' = tmp[c] - 1
        /\ tmp' = [tmp EXCEPT ![c] = 0]
    BY <1>29 DEF DecClients, ClientAt, server
  <2>2. Cardinality(client_list) \in Nat
    BY FS_CardinalityType
  <2>3. \A d \in Clients : d # c => cl[d] # "dec"
    BY <2>1 DEF MutexHeld
  <2>4. \A s \in Servers : sv'[s] = "inc" => tmp'[s] >= Cardinality(client_list')
    BY <2>1, NamesAssumption
  <2> QED
    BY <2>1, <2>2, <2>3, <2>4
<1>30. ASSUME NEW c \in Clients, CloseClient(c) PROVE Counted'
  BY <1>30 DEF CloseClient, ClientAt, globals, list, server, client, walk
<1>31. CASE UNCHANGED vars
  BY <1>31 DEF vars, globals, list, server, client, walk
<1> QED
  BY <1>1, <1>2, <1>3, <1>4, <1>5, <1>6, <1>7, <1>8, <1>9, <1>10, <1>11, <1>12, <1>13, <1>14,
      <1>15, <1>16, <1>17, <1>18, <1>19, <1>20, <1>21, <1>22, <1>23, <1>24, <1>25, <1>26,
      <1>27, <1>28, <1>29, <1>30, <1>31
     DEF Next, CallerStep, ServerStep, ClientStep, ClientEvent

-----------------------------------------------------------------------------
LEMMA InitInv == Init => IInv
<1> SUFFICES ASSUME Init PROVE IInv
  OBVIOUS
<1>1. TypeOK
  <2>1. netChanges \in 0..MaxNet /\ caller \in [Callers -> CallerPc]
    BY BoundsAssumption DEF Init, CallerPc
  <2>2. /\ cl \in [Clients -> ClientPc] /\ sv \in [Servers -> ServerPc]
        /\ data_con_type \in [Clients -> DataConnectionType]
    BY DEF Init, ClientPc, ServerPc, DataConnectionType
  <2> QED
    BY <2>1, <2>2 DEF Init, TypeOK
<1>2. Turn
  BY DEF Init, Turn, OneCallerAtATime, FiniPc, StartPc, WalkPc, Callers
<1>3. OneServer /\ MutexHeld /\ WalkAt
  BY DEF Init, OneServer, MutexHeld, WalkAt, WalkPc, Callers
<1>4. InList
  BY DEF Init, InList, ListMatchesThreads, WalkExact, QuietAfterFini, Linked, LinkedPc,
         Walking, WalkPc, Callers
<1>5. Counted
  BY FS_EmptySet DEF Init, Counted, NumberCoversList
<1> QED
  BY <1>1, <1>2, <1>3, <1>4, <1>5 DEF IInv

\* The invariant, of which every property below is a part.
THEOREM InvariantHolds == ASSUME Restarters \subseteq {"stats"} PROVE Spec => []IInv
<1>1. IInv /\ [Next]_vars => IInv'
  BY TypeStep, TurnStep, OneServerStep, MutexStep, WalkAtStep, InListStep, CountedStep DEF IInv
<1> QED
  BY <1>1, InitInv, PTL DEF Spec

\* Every variable keeps its type; number_clients and what was read of it are
\* never negative.
THEOREM TypeCorrect == ASSUME Restarters \subseteq {"stats"} PROVE Spec => []TypeOK
  <1>1. IInv => TypeOK
    BY DEF IInv, Turn, InList, Counted
  <1> QED
    BY <1>1, InvariantHolds, PTL

\* main() and the statistics thread never start or stop the server together
\* (ftp.cpp:1272-1293).
THEOREM RestartsDoNotOverlap ==
  ASSUME Restarters \subseteq {"stats"} PROVE Spec => []OneCallerAtATime
  <1>1. IInv => OneCallerAtATime
    BY DEF IInv, Turn, InList, Counted
  <1> QED
    BY <1>1, InvariantHolds, PTL

\* Outside a shutdown client_list holds exactly the clients whose threads count
\* on it (ftp.cpp:855-895).
THEOREM ListIsExact == ASSUME Restarters \subseteq {"stats"} PROVE Spec => []ListMatchesThreads
  <1>1. IInv => ListMatchesThreads
    BY DEF IInv, Turn, InList, Counted
  <1> QED
    BY <1>1, InvariantHolds, PTL

\* client_list_thread_end misses no client and finds every next node alive
\* (ftp.cpp:897-933).
THEOREM WalkIsSafe == ASSUME Restarters \subseteq {"stats"} PROVE Spec => []WalkExact
  <1>1. IInv => WalkExact
    BY DEF IInv, Turn, InList, Counted
  <1> QED
    BY <1>1, InvariantHolds, PTL

\* After ftps4_fini no thread is left that uses the list or the mutex
\* (ftp.cpp:1168-1194).
THEOREM FiniIsQuiet == ASSUME Restarters \subseteq {"stats"} PROVE Spec => []QuietAfterFini
  <1>1. IInv => QuietAfterFini
    BY DEF IInv, Turn, InList, Counted
  <1> QED
    BY <1>1, InvariantHolds, PTL

\* number_clients is at least the length of the list in spite of the unlocked
\* increment (ftp.cpp:872, 892, 1085).
THEOREM CounterCoversList == ASSUME Restarters \subseteq {"stats"} PROVE Spec => []NumberCoversList
  <1>1. IInv => NumberCoversList
    BY DEF IInv, Turn, InList, Counted
  <1> QED
    BY <1>1, InvariantHolds, PTL
-----------------------------------------------------------------------------
(* The list as a set                                                       *)

\* Those who are in client_list_thread_end, or have yet to reset the head.
Fini == {k \in Callers : caller[k] \in WalkPc \cup {"reset"}}

\* The list as ClientSet has it: a shutdown takes the members over as what it
\* has still to visit.
Members == IF Fini = {} THEN client_list ELSE {}
Todo == {c \in Clients : \E k \in Fini : c \in todo[k]}
Visited == IF \A k \in Fini : it[k] = NULL THEN NULL
           ELSE CHOOSE c \in Clients : \E k \in Fini : it[k] = c

Set == INSTANCE ClientSet WITH
  members <- Members, walking <- Fini # {}, todo <- Todo, it <- Visited

\* At most one is in Fini, and there is nothing to visit otherwise.
FiniAlone ==
  /\ \A k \in Fini : Fini = {k} /\ Members = {} /\ Todo = todo[k] /\ Visited = it[k]
  /\ Fini = {} => Members = client_list /\ Todo = {} /\ Visited = NULL

LEMMA AloneInFini == IInv => FiniAlone
<1> SUFFICES ASSUME IInv PROVE FiniAlone
  OBVIOUS
<1>1. ASSUME NEW k \in Fini
      PROVE  Fini = {k} /\ Members = {} /\ Todo = todo[k] /\ Visited = it[k]
  <2>1. Fini = {k}
    BY DEF Fini, IInv, Turn, OneCallerAtATime, WalkPc
  <2>2. todo[k] \in SUBSET Clients /\ it[k] \in Clients \cup {NULL}
    BY DEF Fini, IInv, TypeOK
  <2>3. Members = {} /\ Todo = todo[k]
    BY <2>1, <2>2 DEF Members, Todo
  <2>4. Visited = it[k]
    <3>1. CASE it[k] = NULL
      BY <2>1, <3>1 DEF Visited
    <3>2. CASE it[k] # NULL
      <4>1. Visited = CHOOSE c \in Clients : it[k] = c
        BY <2>1, <3>2 DEF Visited
      <4> QED BY <2>2, <3>2, <4>1
    <3> QED BY <3>1, <3>2
  <2> QED BY <2>1, <2>3, <2>4
<1>2. Fini = {} => Members = client_list /\ Todo = {} /\ Visited = NULL
  BY DEF Members, Todo, Visited
<1> QED BY <1>1, <1>2 DEF FiniAlone

\* A step that leaves the list, the walk and Fini alone is none of the set's.
LEMMA SetUntouched ==
  ASSUME UNCHANGED <<client_list, walk>>, Fini' = Fini
  PROVE  UNCHANGED Set!vars
BY DEF Set!vars, Members, Todo, Visited, walk

\* The steps between those of the list.
LEMMA SetRests ==
  ASSUME TypeOK,
         \/ NetChange \/ UNCHANGED vars
         \/ \E k \in Callers :
              \/ Restart(k) \/ CloseServer(k) \/ JoinServer(k) \/ WalkData(k) \/ WalkEnd(k)
              \/ StartFTP(k) \/ GetIp(k) \/ InitServer(k) \/ CreateServer(k)
         \/ \E s \in Servers :
              \/ OpenSocket(s) \/ Accept(s) \/ AcceptFails(s) \/ CreateClient(s)
              \/ LogClient(s) \/ IncClients(s)
         \/ \E c \in Clients :
              \/ RecvCommand(c) \/ EndCommand(c) \/ ReadFails(c) \/ EndTransfer(c) \/ RecvEnd(c)
              \/ RecvAborted(c) \/ DecClients(c) \/ CloseClient(c)
  PROVE  UNCHANGED Set!vars
<1> USE DEF list, server, client, globals, walk
<1>1. CASE NetChange \/ UNCHANGED vars
  BY <1>1, SetUntouched DEF NetChange, vars, Fini
<1>2. ASSUME NEW k \in Callers,
             \/ Restart(k) \/ CloseServer(k) \/ JoinServer(k) \/ WalkData(k) \/ WalkEnd(k)
             \/ StartFTP(k) \/ GetIp(k) \/ InitServer(k) \/ CreateServer(k)
      PROVE  UNCHANGED <<client_list, walk>> /\ Fini' = Fini
  <2>1. UNCHANGED <<client_list, walk>>
    BY <1>2 DEF Restart, CloseServer, JoinServer, WalkData, WalkEnd, StartFTP, GetIp,
        InitServer, CreateServer
  <2>2. \E from, to \in CallerPc :
          /\ At(k, from, to)
          /\ from \in WalkPc \cup {"reset"} <=> to \in WalkPc \cup {"reset"}
    BY <1>2 DEF Restart, CloseServer, JoinServer, WalkData, WalkEnd, StartFTP, GetIp,
        InitServer, CreateServer, WalkPc, CallerPc
  <2> QED BY <2>1, <2>2 DEF At, Fini, TypeOK
<1>3. ASSUME NEW s \in Servers,
             \/ OpenSocket(s) \/ Accept(s) \/ AcceptFails(s) \/ CreateClient(s)
             \/ LogClient(s) \/ IncClients(s)
      PROVE  UNCHANGED <<client_list, walk, caller>>
  BY <1>3 DEF OpenSocket, Accept, AcceptFails, CreateClient, LogClient, IncClients
<1>4. ASSUME NEW c \in Clients,
             \/ RecvCommand(c) \/ EndCommand(c) \/ ReadFails(c) \/ EndTransfer(c) \/ RecvEnd(c)
             \/ RecvAborted(c) \/ DecClients(c) \/ CloseClient(c)
      PROVE  UNCHANGED <<client_list, walk, caller>>
  BY <1>4 DEF RecvCommand, EndCommand, ReadFails, EndTransfer, RecvEnd, RecvAborted, DecClients,
               CloseClient
<1>5. UNCHANGED <<client_list, walk, caller>> => UNCHANGED Set!vars
  BY SetUntouched DEF Fini
<1> QED BY <1>1, <1>2, <1>3, <1>4, <1>5, SetUntouched
\* Every step of the list is one of the set: above all, nobody adds or deletes
\* a client during a shutdown.
LEMMA SetStep ==
  ASSUME Restarters \subseteq {"stats"}, IInv, FiniAlone, FiniAlone', [Next]_vars
  PROVE  [Set!Next]_(Set!vars)
<1> USE DEF list, server, client, globals, walk
<1>1. TypeOK
  BY DEF IInv
<1>2. ASSUME NEW k \in Callers, WalkLock(k) PROVE Set!StartWalk
  <2>1. /\ caller[k] = "lock" /\ caller' = [caller EXCEPT ![k] = "walk"]
        /\ todo' = [todo EXCEPT ![k] = client_list] /\ UNCHANGED it
    BY <1>2 DEF WalkLock, At
  <2>2. k \notin Fini /\ k \in Fini' /\ caller[k] # "idle"
    BY <1>1, <2>1 DEF Fini, WalkPc, TypeOK
  <2>3. Fini = {}
    BY <2>1, <2>2 DEF Fini, WalkPc, IInv, Turn, OneCallerAtATime
  <2>4. Members = client_list /\ Visited = NULL
    BY <2>3 DEF FiniAlone
  <2>5. todo'[k] = client_list /\ it[k] = NULL
    BY <1>1, <2>1 DEF TypeOK, IInv, WalkAt
  <2>6. Members' = {} /\ Todo' = client_list /\ Visited' = NULL
    BY <2>1, <2>2, <2>5 DEF FiniAlone
  <2> QED BY <2>2, <2>3, <2>4, <2>6 DEF Set!StartWalk
<1>3. ASSUME NEW k \in Callers, WalkAbort(k) PROVE \E c \in Clients : Set!Visit(c)
  <2>1. PICK c \in todo[k] : it' = [it EXCEPT ![k] = c] /\ todo' = [todo EXCEPT ![k] = @ \ {c}]
    BY <1>3 DEF WalkAbort
  <2>2. caller[k] = "walk" /\ caller' = [caller EXCEPT ![k] = "data"]
    BY <1>3 DEF WalkAbort, At
  <2>3. c \in Clients /\ it[k] = NULL /\ it'[k] = c /\ todo'[k] = todo[k] \ {c}
    BY <1>1, <2>1, <2>2 DEF TypeOK, IInv, WalkAt
  <2>4. k \in Fini /\ k \in Fini'
    BY <1>1, <2>2 DEF Fini, WalkPc, TypeOK
  <2>5. Members = {} /\ Todo = todo[k] /\ Visited = NULL
    BY <2>3, <2>4 DEF FiniAlone
  <2>6. Members' = {} /\ Todo' = todo[k] \ {c} /\ Visited' = c
    BY <2>3, <2>4 DEF FiniAlone
  <2> QED BY <2>1, <2>3, <2>4, <2>5, <2>6 DEF Set!Visit
<1>4. ASSUME NEW k \in Callers, WalkJoin(k) PROVE Set!Leave
  <2>1. /\ caller[k] = "join" /\ caller' = [caller EXCEPT ![k] = "walk"]
        /\ it' = [it EXCEPT ![k] = NULL] /\ UNCHANGED todo
    BY <1>4 DEF WalkJoin, At
  <2>2. k \in Fini /\ k \in Fini'
    BY <1>1, <2>1 DEF Fini, WalkPc, TypeOK
  <2>3. it[k] # NULL /\ it'[k] = NULL
    BY <1>1, <2>1, NamesAssumption DEF TypeOK, IInv, WalkAt
  <2>4. Members = {} /\ Todo = todo[k] /\ Visited # NULL
    BY <2>2, <2>3 DEF FiniAlone
  <2>5. Members' = {} /\ Todo' = todo[k] /\ Visited' = NULL
    BY <2>1, <2>2, <2>3 DEF FiniAlone
  <2> QED BY <2>2, <2>4, <2>5 DEF Set!Leave
<1>5. ASSUME NEW k \in Callers, FiniReset(k) PROVE Set!EndWalk
  <2>1. /\ caller[k] = "reset" /\ caller' = [caller EXCEPT ![k] = "start"]
        /\ client_list' = {} /\ UNCHANGED <<it, todo>>
    BY <1>5 DEF FiniReset, At
  <2>2. k \in Fini /\ k \notin Fini'
    BY <1>1, <2>1 DEF Fini, WalkPc, TypeOK
  <2>3. Fini = {k} /\ Members = {} /\ Todo = todo[k] /\ Visited = it[k]
    BY <2>2 DEF FiniAlone
  <2>4. todo[k] = {} /\ it[k] = NULL
    BY <2>1 DEF IInv, WalkAt, WalkPc
  <2>5. Fini' = {}
    BY <1>1, <2>1, <2>2, <2>3 DEF Fini, TypeOK
  <2>6. Members' = {} /\ Todo' = {} /\ Visited' = NULL
    BY <2>1, <2>5 DEF FiniAlone
  <2> QED BY <2>2, <2>3, <2>4, <2>5, <2>6 DEF Set!EndWalk
<1>6. ASSUME NEW s \in Servers, client_list_add(s) PROVE \E c \in Clients : Set!Add(c)
  <2>1. /\ sv[s] = "add" /\ client_list' = client_list \cup {newcl[s]}
        /\ UNCHANGED <<caller, walk>>
    BY <1>6 DEF client_list_add, ServerAt
  <2>2. Fini = {} /\ Fini' = {}
    BY <2>1 DEF Fini, IInv, OneServer
  <2>3. newcl[s] \in Clients /\ cl[newcl[s]] = "new"
    BY <2>1 DEF IInv, OneServer
  <2>4. client_list = Linked
    BY <2>2 DEF Fini, IInv, InList, ListMatchesThreads
  <2>5. newcl[s] \notin client_list
    BY <2>3, <2>4 DEF Linked, LinkedPc
  <2>6. Members = client_list /\ Todo = {} /\ Visited = NULL
    BY <2>2 DEF FiniAlone
  <2>7. Members' = client_list \cup {newcl[s]} /\ Todo' = {} /\ Visited' = NULL
    BY <2>1, <2>2 DEF FiniAlone
  <2> QED BY <2>2, <2>3, <2>5, <2>6, <2>7 DEF Set!Add
<1>7. ASSUME NEW c \in Clients, client_list_delete(c) PROVE Set!Delete(c)
  <2>1. /\ CanLock /\ cl[c] = "unlink" /\ client_list' = client_list \ {c}
        /\ UNCHANGED <<caller, walk>>
    BY <1>7 DEF client_list_delete, ClientAt
  <2>2. ftp_initialized /\ client_list_mtx # "destroyed"
    BY <2>1 DEF IInv, InList, QuietAfterFini, MutexHeld
  <2>3. Fini = {} /\ Fini' = {}
    BY <2>1, <2>2, MutexNames DEF Fini, IInv, MutexHeld, InList, CanLock
  <2>4. client_list = Linked
    BY <2>3 DEF Fini, IInv, InList, ListMatchesThreads
  <2>5. c \in client_list
    BY <2>1, <2>4 DEF Linked, LinkedPc
  <2>6. Members = client_list /\ Todo = {} /\ Visited = NULL
    BY <2>3 DEF FiniAlone
  <2>7. Members' = client_list \ {c} /\ Todo' = {} /\ Visited' = NULL
    BY <2>1, <2>3 DEF FiniAlone
  <2> QED BY <2>3, <2>5, <2>6, <2>7 DEF Set!Delete
<1> QED
  BY <1>1, <1>2, <1>3, <1>4, <1>5, <1>6, <1>7, SetRests
  DEF Next, CallerStep, ServerStep, ClientStep, ClientEvent, Set!Next

\* The server uses its list as a set that is not changed while it is walked
\* (ftp.cpp:855-933, 1168-1194): what ClientList gives it.
THEOREM ListIsClientSet == ASSUME Restarters \subseteq {"stats"} PROVE Spec => Set!Spec
<1>1. Init => Set!Init
  <2> SUFFICES ASSUME Init PROVE Set!Init
    OBVIOUS
  <2>1. Fini = {}
    BY DEF Init, Fini, WalkPc
  <2> QED BY <2>1 DEF Init, Members, Todo, Visited, Set!Init
<1>2. FiniAlone /\ FiniAlone' /\ IInv /\ [Next]_vars => [Set!Next]_(Set!vars)
  BY SetStep
<1> QED
  BY <1>1, <1>2, AloneInFini, InvariantHolds, PTL DEF Spec, Set!Spec
=============================================================================
