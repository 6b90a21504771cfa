------------------------------ MODULE FtpServer ------------------------------
(***************************************************************************)
(* The life cycle of the daemon's FTP server (itemz-daemon/source/ftp.cpp): *)
(* who starts, restarts and stops it, the server thread that accepts       *)
(* connections, one thread per connection, the list of clients they share  *)
(* and the mutex that guards it.                                           *)
(*                                                                         *)
(* The list is kept here as the SET of its nodes: module ClientList shows  *)
(* that the pointer code implements it.  What a command does inside a      *)
(* session is module FtpSession; here a command may change the type of the *)
(* data connection, or block in a transfer.                                *)
(***************************************************************************)
EXTENDS Integers, FiniteSets

CONSTANTS
  Clients,      \* heap nodes of ftps4_client_info_t, each with its thread
  Servers,      \* identities of server threads and of their sockets
  Restarters,   \* who restarts a running server: "stats", "ipc" or both
  Ips,          \* addresses the console may be given
  NULL,
  MaxNumber,    \* bound on number_clients
  MaxNet        \* bound on the changes of the console's address

ASSUME RestartersAssumption == Restarters \subseteq {"stats", "ipc"}
ASSUME NamesAssumption ==
  /\ NULL \notin Clients \cup Servers \cup Ips
  /\ Clients \cap Servers = {}
  /\ ({"main", "stats", "ipc", "free", "destroyed"} \cap (Clients \cup Servers)) = {}
ASSUME BoundsAssumption == MaxNumber \in Nat /\ MaxNet \in Nat

\* The threads that call StartFTP: main() once, the others to restart.
Callers == {"main"} \cup Restarters

VARIABLES
  netip,            \* the address get_ip_address would return, NULL if it fails
  netChanges,       \* how often it changed, for MaxNet
  ip_address, ftp_started, ftp_initialized,
  server_thid, server_sockfd,
  client_list_mtx,  \* "destroyed", "free" or the thread that holds it
  client_list, number_clients,
  sockOpen,         \* the server sockets not yet aborted and closed
  sv,               \* where each server thread is
  sfd,              \* the socket a server thread waits on in sceNetAccept
  newcl,            \* its local `client`
  cl,               \* where each client thread is
  data_con_type, ctrlAborted, dataAborted,
  tmp,              \* number_clients as read by an unfinished ++ or --
  caller,           \* where each caller is
  it, todo          \* client_list_thread_end: current node, nodes after it

globals == <<netip, netChanges, ip_address, ftp_started, ftp_initialized,
             server_thid, server_sockfd>>
list    == <<client_list_mtx, client_list, number_clients>>
server  == <<sockOpen, sv, sfd, newcl>>
client  == <<cl, data_con_type, ctrlAborted, dataAborted>>
walk    == <<it, todo>>
vars == <<globals, list, server, client, tmp, caller, walk>>

-----------------------------------------------------------------------------
DataConnectionType == {"NONE", "ACTIVE", "PASSIVE"}

ClientPc == {"none",     \* no such node: not allocated, or deleted
             "new",      \* allocated, not yet in the list
             "listed",   \* in the list, its thread not yet created
             "recv",     \* in sceNetRecv on the control socket
             "cmd",      \* in a command that ends by itself
             "send",     \* blocked in a transfer that sends, or in accept
             "store",    \* in the receive loop of an upload
             "reread",   \* in the send loop of a file that cannot be read
             "poll",     \* in pkginstall, polling a task that has failed
             "unlink",   \* about to take the mutex in client_list_delete
             "dec",      \* inside client_list_delete, unlinked
             "close",    \* out of the list, closing its sockets
             "aborted"}  \* told to stop by ftps4_fini, closing its sockets

ServerPc == {"none", "socket", "accept", "add", "create", "log", "inc", "done"}

CallerPc == {"idle", "close_server", "join_server", "lock", "walk", "data",
             "join", "reset", "start", "getip", "init", "create"}

WalkPc == {"walk", "data", "join"}

\* The nodes whose thread believes it is in the list.
LinkedPc == {"listed", "recv", "cmd", "send", "store", "reread", "poll", "unlink",
             "aborted"}

TypeOK ==
  /\ netip \in Ips \cup {NULL} /\ netChanges \in 0..MaxNet
  /\ ip_address \in Ips \cup {NULL}
  /\ ftp_started \in BOOLEAN /\ ftp_initialized \in BOOLEAN
  /\ server_thid \in Servers \cup {NULL} /\ server_sockfd \in Servers \cup {NULL}
  /\ client_list_mtx \in {"destroyed", "free"} \cup Clients \cup Servers \cup Callers
  /\ client_list \in SUBSET Clients /\ number_clients \in Nat
  /\ sockOpen \in SUBSET Servers
  /\ sv \in [Servers -> ServerPc] /\ sfd \in [Servers -> Servers \cup {NULL}]
  /\ newcl \in [Servers -> Clients \cup {NULL}]
  /\ cl \in [Clients -> ClientPc]
  /\ data_con_type \in [Clients -> DataConnectionType]
  /\ ctrlAborted \in SUBSET Clients /\ dataAborted \in SUBSET Clients
  /\ tmp \in [Clients \cup Servers -> Nat]
  /\ caller \in [Callers -> CallerPc]
  /\ it \in [Callers -> Clients \cup {NULL}] /\ todo \in [Callers -> SUBSET Clients]

\* main() reaches StartFTP after it created the IPC and the statistics threads.
Init ==
  /\ netip \in Ips \cup {NULL} /\ netChanges = 0
  /\ ip_address = NULL /\ ftp_started = FALSE /\ ftp_initialized = FALSE
  /\ server_thid = NULL /\ server_sockfd = NULL
  /\ client_list_mtx = "destroyed" /\ client_list = {} /\ number_clients = 0
  /\ sockOpen = {} /\ sv = [s \in Servers |-> "none"]
  /\ sfd = [s \in Servers |-> NULL] /\ newcl = [s \in Servers |-> NULL]
  /\ cl = [c \in Clients |-> "none"]
  /\ data_con_type = [c \in Clients |-> "NONE"]
  /\ ctrlAborted = {} /\ dataAborted = {}
  /\ tmp = [t \in Clients \cup Servers |-> 0]
  /\ caller = [k \in Callers |-> IF k = "main" THEN "start" ELSE "idle"]
  /\ it = [k \in Callers |-> NULL] /\ todo = [k \in Callers |-> {}]

\* scePthreadMutexLock waits for the holder; on a mutex that was never
\* initialised or is destroyed it fails at once, and no caller looks.
CanLock == client_list_mtx \in {"free", "destroyed"}
Lock(t) == client_list_mtx' = IF client_list_mtx = "free" THEN t ELSE client_list_mtx
Unlock(t) == client_list_mtx' = IF client_list_mtx = t THEN "free" ELSE client_list_mtx

\* A thread of each kind moves from one place to another.
At(k, from, to) == caller[k] = from /\ caller' = [caller EXCEPT ![k] = to]
ServerAt(s, from, to) == sv[s] = from /\ sv' = [sv EXCEPT ![s] = to]
ClientAt(c, from, to) == cl[c] = from /\ cl' = [cl EXCEPT ![c] = to]

-----------------------------------------------------------------------------
(* Slips a change to the code could make: each replaces the definition it is *)
(* named after in a mutation run, and no action below uses one.              *)

\* ftp_started is set before the server runs, not after.
StartFTP_early(k) ==
  /\ At(k, "start", "getip")
  /\ ftp_started' = TRUE
  /\ UNCHANGED <<netip, netChanges, ip_address, ftp_initialized, server_thid,
                 server_sockfd, list, server, client, tmp, walk>>


\* The control socket of `it` is not aborted.
WalkAbort_data_only(k) ==
  /\ At(k, "walk", "data")
  /\ \E c \in todo[k] : /\ it' = [it EXCEPT ![k] = c]
                        /\ todo' = [todo EXCEPT ![k] = @ \ {c}]
  /\ UNCHANGED <<globals, list, server, client, tmp>>

\* The mutex is released before the join, which would avoid the deadlock.
WalkData_unlocks(k) ==
  /\ At(k, "data", "join")
  /\ Unlock(k)
  /\ UNCHANGED <<globals, client_list, number_clients, server, client, tmp, walk>>

\* The client thread is not waited for.
WalkJoin_detached(k) ==
  /\ At(k, "join", "walk")
  /\ it' = [it EXCEPT ![k] = NULL]
  /\ UNCHANGED <<globals, list, server, client, tmp, todo>>

\* The increment is left to server_thread, which makes one of its own.
client_list_add_uncounted(s) ==
  /\ CanLock
  /\ ServerAt(s, "add", "create")
  /\ client_list' = client_list \cup {newcl[s]}
  /\ cl' = [cl EXCEPT ![newcl[s]] = "listed"]
  /\ UNCHANGED <<globals, client_list_mtx, number_clients, sockOpen, sfd, newcl,
                 data_con_type, ctrlAborted, dataAborted, tmp, caller, walk>>

\* A closed connection ends its thread like an aborted one.
RecvEnd_stays_listed(c) ==
  /\ c \notin ctrlAborted
  /\ ClientAt(c, "recv", "close")
  /\ UNCHANGED <<globals, list, server, data_con_type, ctrlAborted, dataAborted,
                 tmp, caller, walk>>

\* The decrement takes back both increments, one of which may be still to come.
DecClients_twice(c) ==
  /\ ClientAt(c, "dec", "close")
  /\ number_clients' = tmp[c] - 2
  /\ tmp' = [tmp EXCEPT ![c] = 0]
  /\ Unlock(c)
  /\ UNCHANGED <<globals, client_list, server, data_con_type, ctrlAborted,
                 dataAborted, caller, walk>>

-----------------------------------------------------------------------------
(* The network *)

\* The console gets another address, or loses the network.
NetChange ==
  /\ netChanges < MaxNet
  /\ netip' \in (Ips \cup {NULL}) \ {netip}
  /\ netChanges' = netChanges + 1
  /\ UNCHANGED <<ip_address, ftp_started, ftp_initialized, server_thid,
                 server_sockfd, list, server, client, tmp, caller, walk>>

-----------------------------------------------------------------------------
(* StartFTP and ShutdownFTP, run by main, the statistics thread, IPC *)

\* check_ftp_addr_change() in the statistics thread, RESTART_FTP_SERVICE in
\* an IPC thread: both go on to ShutdownFTP, whose body runs only if the server
\* is initialised, and then to StartFTP.
Restart(k) ==
  /\ k \in Restarters
  /\ k = "stats" => netip # NULL /\ ftp_started /\ ip_address # netip
  /\ At(k, "idle", IF ftp_initialized THEN "close_server" ELSE "start")
  /\ UNCHANGED <<globals, list, server, client, tmp, walk>>

\* Abort and close whatever server_sockfd holds now.
CloseServer(k) ==
  /\ At(k, "close_server", "join_server")
  /\ sockOpen' = sockOpen \ {server_sockfd}
  /\ UNCHANGED <<globals, list, sv, sfd, newcl, client, tmp, walk>>

\* scePthreadJoin(server_thid): a thread that was joined already is no error
\* anybody looks at.
JoinServer(k) ==
  /\ At(k, "join_server", "lock")
  /\ sv[server_thid] \in {"done", "none"}
  /\ sv' = [sv EXCEPT ![server_thid] = "none"]
  /\ UNCHANGED <<globals, list, sockOpen, sfd, newcl, client, tmp, walk>>

WalkLock(k) ==
  /\ CanLock
  /\ Lock(k)
  /\ At(k, "lock", "walk")
  /\ todo' = [todo EXCEPT ![k] = client_list]
  /\ UNCHANGED <<globals, client_list, number_clients, server, client, tmp, it>>

\* next = it->next; abort receiving on the control socket of `it`.
WalkAbort(k) ==
  /\ At(k, "walk", "data")
  /\ \E c \in todo[k] :
       /\ it' = [it EXCEPT ![k] = c]
       /\ todo' = [todo EXCEPT ![k] = @ \ {c}]
       /\ ctrlAborted' = ctrlAborted \cup {c}
  /\ UNCHANGED <<globals, list, server, cl, data_con_type, dataAborted, tmp>>

\* Look at it->data_con_type, which a client thread that has seen the abort may
\* already have freed, and abort the data sockets.
WalkData(k) ==
  /\ At(k, "data", "join")
  /\ dataAborted' = IF cl[it[k]] # "none" /\ data_con_type[it[k]] # "NONE"
                    THEN dataAborted \cup {it[k]} ELSE dataAborted
  /\ UNCHANGED <<globals, list, server, cl, data_con_type, ctrlAborted, tmp, walk>>

\* scePthreadJoin(client_thid), with the mutex held.
WalkJoin(k) ==
  /\ At(k, "join", "walk")
  /\ cl[it[k]] = "none"
  /\ it' = [it EXCEPT ![k] = NULL]
  /\ UNCHANGED <<globals, list, server, client, tmp, todo>>

WalkEnd(k) ==
  /\ todo[k] = {}
  /\ At(k, "walk", "reset")
  /\ Unlock(k)
  /\ UNCHANGED <<globals, client_list, number_clients, server, client, tmp, walk>>

\* The end of ftps4_fini: nothing is freed, the list head is forgotten.
FiniReset(k) ==
  /\ At(k, "reset", "start")
  /\ client_list_mtx' = "destroyed"
  /\ client_list' = {}
  /\ number_clients' = 0
  /\ ftp_initialized' = FALSE
  /\ UNCHANGED <<netip, netChanges, ip_address, ftp_started, server_thid,
                 server_sockfd, server, client, tmp, walk>>

StartFTP(k) ==
  /\ At(k, "start", "getip")
  /\ ftp_started' = FALSE
  /\ UNCHANGED <<netip, netChanges, ip_address, ftp_initialized, server_thid,
                 server_sockfd, list, server, client, tmp, walk>>

\* StartFTP gives up if there is no address: ftp_started stays false.
GetIp(k) ==
  /\ At(k, "getip", IF netip = NULL THEN "idle" ELSE "init")
  /\ ip_address' = IF netip = NULL THEN ip_address ELSE netip
  /\ UNCHANGED <<netip, netChanges, ftp_started, ftp_initialized, server_thid,
                 server_sockfd, list, server, client, tmp, walk>>

\* ftps4_init returns false if the server is initialised already, and StartFTP
\* stores what it returns.
InitServer(k) ==
  /\ At(k, "init", IF ftp_initialized THEN "idle" ELSE "create")
  /\ client_list_mtx' = IF ftp_initialized THEN client_list_mtx ELSE "free"
  /\ ftp_started' = (ftp_started /\ ~ftp_initialized)
  /\ UNCHANGED <<netip, netChanges, ip_address, ftp_initialized, server_thid,
                 server_sockfd, client_list, number_clients, server, client, tmp,
                 walk>>

CreateServer(k) ==
  /\ At(k, "create", "idle")
  /\ \E s \in Servers :
       /\ sv[s] = "none"
       /\ sv' = [sv EXCEPT ![s] = "socket"]
       /\ server_thid' = s
  /\ ftp_initialized' = TRUE
  /\ ftp_started' = TRUE
  /\ UNCHANGED <<netip, netChanges, ip_address, server_sockfd, list, sockOpen,
                 sfd, newcl, client, tmp, walk>>

CallerStep(k) ==
  \/ CloseServer(k) \/ JoinServer(k) \/ WalkLock(k) \/ WalkAbort(k)
  \/ WalkData(k) \/ WalkJoin(k) \/ WalkEnd(k) \/ FiniReset(k)
  \/ StartFTP(k) \/ GetIp(k) \/ InitServer(k) \/ CreateServer(k)

-----------------------------------------------------------------------------
(* The server thread *)

\* Create the socket, store it in the global, listen, and go to accept.
OpenSocket(s) ==
  /\ ServerAt(s, "socket", "accept")
  /\ server_sockfd' = s
  /\ sockOpen' = sockOpen \cup {s}
  /\ sfd' = [sfd EXCEPT ![s] = s]
  /\ UNCHANGED <<netip, netChanges, ip_address, ftp_started, ftp_initialized,
                 server_thid, list, newcl, client, tmp, caller, walk>>

\* A connection arrives: allocate its node.
Accept(s) ==
  /\ sfd[s] \in sockOpen
  /\ number_clients + 2 <= MaxNumber   \* bound
  /\ ServerAt(s, "accept", "add")
  /\ \E c \in Clients :
       /\ cl[c] = "none"
       /\ cl' = [cl EXCEPT ![c] = "new"]
       /\ newcl' = [newcl EXCEPT ![s] = c]
  /\ UNCHANGED <<globals, list, sockOpen, sfd, data_con_type, ctrlAborted,
                 dataAborted, tmp, caller, walk>>

\* The socket was aborted or closed: the thread ends.
AcceptFails(s) ==
  /\ sfd[s] \notin sockOpen
  /\ ServerAt(s, "accept", "done")
  /\ UNCHANGED <<globals, list, sockOpen, sfd, newcl, client, tmp, caller, walk>>

\* client_list_add, one critical section.
client_list_add(s) ==
  /\ CanLock
  /\ ServerAt(s, "add", "create")
  /\ client_list' = client_list \cup {newcl[s]}
  /\ cl' = [cl EXCEPT ![newcl[s]] = "listed"]
  /\ number_clients' = number_clients + 1
  /\ UNCHANGED <<globals, client_list_mtx, sockOpen, sfd, newcl, data_con_type,
                 ctrlAborted, dataAborted, tmp, caller, walk>>

CreateClient(s) ==
  /\ ServerAt(s, "create", "log")
  /\ cl' = [cl EXCEPT ![newcl[s]] = "recv"]
  /\ UNCHANGED <<globals, list, sockOpen, sfd, newcl, data_con_type,
                 ctrlAborted, dataAborted, tmp, caller, walk>>

\* Log client->thid, then read number_clients for the second, unlocked ++.
LogClient(s) ==
  /\ ServerAt(s, "log", "inc")
  /\ tmp' = [tmp EXCEPT ![s] = number_clients]
  /\ UNCHANGED <<globals, list, sockOpen, sfd, newcl, client, caller, walk>>

\* Write it, and read server_sockfd again for the next accept.
IncClients(s) ==
  /\ ServerAt(s, "inc", "accept")
  /\ number_clients' = tmp[s] + 1
  /\ tmp' = [tmp EXCEPT ![s] = 0]
  /\ newcl' = [newcl EXCEPT ![s] = NULL]
  /\ sfd' = [sfd EXCEPT ![s] = server_sockfd]
  /\ UNCHANGED <<globals, client_list_mtx, client_list, sockOpen, client,
                 caller, walk>>

ServerStep(s) ==
  \/ OpenSocket(s) \/ AcceptFails(s) \/ client_list_add(s) \/ CreateClient(s)
  \/ LogClient(s) \/ IncClients(s)

-----------------------------------------------------------------------------
(* The client threads *)

\* A command arrives; it may block on its data connection, or be an installation
\* whose task fails: pkginstall polls the progress of that task for ever.
RecvCommand(c) ==
  /\ c \notin ctrlAborted
  /\ \E pc \in {"cmd", "send", "store", "poll"} : ClientAt(c, "recv", pc)
  /\ UNCHANGED <<globals, list, server, data_con_type, ctrlAborted, dataAborted,
                 tmp, caller, walk>>

\* A command without a transfer ends.  PASV and PORT make a new data socket,
\* which carries no abort.
EndCommand(c) ==
  /\ ClientAt(c, "cmd", "recv")
  /\ \/ UNCHANGED <<data_con_type, dataAborted>>
     \/ /\ \E d \in {"ACTIVE", "PASSIVE"} :
             data_con_type' = [data_con_type EXCEPT ![c] = d]
        /\ dataAborted' = dataAborted \ {c}
  /\ UNCHANGED <<globals, list, server, ctrlAborted, tmp, caller, walk>>

\* send_file keeps the result of read in an unsigned: the error is taken for data,
\* which is sent, or not, and the file is read again, for ever.
ReadFails(c) ==
  /\ ClientAt(c, "send", "reread")
  /\ UNCHANGED <<globals, list, server, data_con_type, ctrlAborted, dataAborted,
                 tmp, caller, walk>>

\* An upload whose data socket only returns errors, which receive_file takes for
\* data in the same way, or a download of a file that cannot be read.
Spins(c) == \/ cl[c] = "store" /\ (c \in dataAborted \/ data_con_type[c] = "NONE")
            \/ cl[c] = "reread"

\* A transfer ends and closes its data connection.
EndTransfer(c) ==
  /\ ~Spins(c)
  /\ \E pc \in {"send", "store"} : ClientAt(c, pc, "recv")
  /\ data_con_type' = [data_con_type EXCEPT ![c] = "NONE"]
  /\ UNCHANGED <<globals, list, server, ctrlAborted, dataAborted, tmp, caller, walk>>

\* sceNetRecv returns 0, or an error other than the abort.
RecvEnd(c) ==
  /\ c \notin ctrlAborted
  /\ ClientAt(c, "recv", "unlink")
  /\ UNCHANGED <<globals, list, server, data_con_type, ctrlAborted, dataAborted,
                 tmp, caller, walk>>

\* sceNetRecv returns 0x80410104: leave without touching the list.
RecvAborted(c) ==
  /\ c \in ctrlAborted
  /\ ClientAt(c, "recv", "aborted")
  /\ UNCHANGED <<globals, list, server, data_con_type, ctrlAborted, dataAborted,
                 tmp, caller, walk>>

\* client_list_delete up to the read of number_clients--.
client_list_delete(c) ==
  /\ CanLock
  /\ Lock(c)
  /\ ClientAt(c, "unlink", "dec")
  /\ client_list' = client_list \ {c}
  /\ tmp' = [tmp EXCEPT ![c] = number_clients]
  /\ UNCHANGED <<globals, number_clients, server, data_con_type, ctrlAborted,
                 dataAborted, caller, walk>>

DecClients(c) ==
  /\ ClientAt(c, "dec", "close")
  /\ number_clients' = tmp[c] - 1
  /\ tmp' = [tmp EXCEPT ![c] = 0]
  /\ Unlock(c)
  /\ UNCHANGED <<globals, client_list, server, data_con_type, ctrlAborted,
                 dataAborted, caller, walk>>

\* Close the sockets, `delete client`, and end the thread.
CloseClient(c) ==
  /\ \E pc \in {"close", "aborted"} : ClientAt(c, pc, "none")
  /\ data_con_type' = [data_con_type EXCEPT ![c] = "NONE"]
  /\ ctrlAborted' = ctrlAborted \ {c}
  /\ dataAborted' = dataAborted \ {c}
  /\ UNCHANGED <<globals, list, server, tmp, caller, walk>>

\* What a client thread does without waiting for its peer.
ClientStep(c) ==
  \/ EndCommand(c) \/ RecvAborted(c) \/ client_list_delete(c)
  \/ DecClients(c) \/ CloseClient(c)
  \/ EndTransfer(c) /\ (c \in dataAborted \/ data_con_type[c] = "NONE")

ClientEvent(c) == RecvCommand(c) \/ ReadFails(c) \/ EndTransfer(c) \/ RecvEnd(c)

-----------------------------------------------------------------------------
Next ==
  \/ NetChange
  \/ \E k \in Callers : Restart(k) \/ CallerStep(k)
  \/ \E s \in Servers : Accept(s) \/ ServerStep(s)
  \/ \E c \in Clients : ClientEvent(c) \/ ClientStep(c)

Spec == Init /\ [][Next]_vars

\* Threads run; the statistics thread polls the address every minute.  Nothing
\* obliges a peer to connect, to send, to close, or the user to ask for a
\* restart.
Fairness ==
  /\ \A k \in Callers : WF_vars(CallerStep(k)) /\ WF_vars(k = "stats" /\ Restart(k))
  /\ \A s \in Servers : WF_vars(ServerStep(s))
  /\ \A c \in Clients : WF_vars(ClientStep(c))

FairSpec == Spec /\ Fairness

-----------------------------------------------------------------------------
(* Properties.  The first four need that restarts do not overlap, which     *)
(* Restarters = {"stats"} gives; what overlapping ones do is a run of its own. *)

Linked == {c \in Clients : cl[c] \in LinkedPc}
Walking == {k \in Callers : caller[k] \in WalkPc}

\* main() and the statistics thread are never inside StartFTP or ShutdownFTP
\* together: ftp_started, false until the end of a start, hands the server over.
OneCallerAtATime ==
  \A k, j \in Callers : caller[k] # "idle" /\ caller[j] # "idle" => k = j

\* Outside a shutdown the list holds exactly the clients whose thread still
\* counts on being in it: no thread frees its node before client_list_delete,
\* and none that left stays reachable for client_list_add or another delete.
ListMatchesThreads ==
  (\A k \in Callers : caller[k] \notin WalkPc \cup {"reset"}) => client_list = Linked

\* client_list_thread_end visits every linked client, and the nodes it still
\* has to visit, the saved `next` among them, are alive when it gets there:
\* the mutex it keeps across scePthreadJoin is what prevents their deletion.
WalkExact ==
  \A k \in Walking : todo[k] \subseteq Linked /\ Linked \subseteq todo[k] \cup {it[k]}

\* Once ftps4_fini has run, the only threads left are client threads that have
\* already left the list and the mutex: ftps4_init may set up both anew.
QuietAfterFini ==
  ~ftp_initialized => /\ \A s \in Servers : sv[s] = "none"
                      /\ \A c \in Clients : cl[c] \in {"none", "close"}

\* number_clients, which client_list_delete decrements under the mutex and
\* server_thread increments without it, may lose an update but never falls
\* below the number of clients in the list.
NumberCoversList == number_clients >= Cardinality(client_list)

\* ftps4_fini waits for a server thread that opened its socket after
\* ftps4_fini had closed the previous value of server_sockfd.
ServerMissed(k) == /\ caller[k] = "join_server"
                   /\ sv[server_thid] = "accept" /\ sfd[server_thid] \in sockOpen

\* client_list_thread_end waits, holding the mutex, for a client that waits
\* for the mutex, for a transfer that takes an error for data, or for an
\* installation that never reaches 99 per cent.
ClientStuck(k) ==
  caller[k] = "join" /\ (cl[it[k]] \in {"unlink", "poll"} \/ Spins(it[k]))

\* A shutdown that has begun ends, unless it waits for a server thread whose
\* socket it missed or for a client stuck in one of these ways.
ShutdownEnds ==
  \A k \in Callers :
    caller[k] = "close_server" ~>
      (caller[k] = "start" \/ ServerMissed(k) \/ ClientStuck(k))


\* "Wait until the client threads ends" (ftp.cpp:926): the client thread that
\* is waited for can end without the mutex the waiter holds.
JoinedClientCanEnd ==
  \A k \in Callers : caller[k] = "join" => cl[it[k]] # "unlink"

\* "Wait until the server threads ends" (ftp.cpp:1179): a server that is not
\* initialised has no server thread.
ServerThreadEnded == ~ftp_initialized => \A s \in Servers : sv[s] = "none"
=============================================================================
