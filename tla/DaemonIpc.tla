------------------------------ MODULE DaemonIpc ------------------------------
(***************************************************************************)
(* Commands from the app to the daemon: IPC_Client in the app              *)
(* (itemzflow/include/ipc_client.hpp), IPC_loop, ipc_client and handleIPC  *)
(* in the daemon (itemz-daemon/source/net.cpp, rpc.cpp), and the network   *)
(* share they set up, which takes two commands.  App and daemon die and    *)
(* start again independently.                                              *)
(*                                                                         *)
(* The commands that only set a flag, read the statistics or do their work *)
(* in another part (GAME_GET_MINS, GAME_GET_START_TIME, CONNECTION_TEST,   *)
(* ENABLE_ and DISABLE_HOME_REDIRECT, CRITICAL_SUSPEND,                    *)
(* FUSE_SET_DEBUG_FLAG, RESTART_FTP_SERVICE, INSTALL_IF_UPDATE) are one    *)
(* command here, "plain"; SHUTDOWN_DAEMON is as RESTART_FUSE_FS: whether    *)
(* the daemon boots again is left open after both.  Two of the plain ones  *)
(* may never end: RESTART_FTP_SERVICE, whose ShutdownFTP may not (see      *)
(* FtpServer), and INSTALL_IF_UPDATE, whose pkginstall may not (see        *)
(* PkgInstall).                                                            *)
(***************************************************************************)
EXTENDS Integers, Sequences, FiniteSets

CONSTANTS
  IPs,       \* the shares a user may enter
  NULL,      \* no share, no command
  Conns,     \* connections that may exist at once
  MaxFails   \* bound on the failures of recv in the daemon

ASSUME NullAssumption == NULL \notin IPs \cup Conns
ASSUME FailsAssumption == MaxFails \in Nat

VARIABLES
  \* the app
  DaemonSocket,      \* its connection, NULL if it has none
  call,              \* the command it waits for the answer of, or NULL
  mount,             \* where its IPCMountFUSE is, and for which share
  \* the connections
  alive,             \* who has them open
  requests, replies, \* what is in the socket buffers
  failed,            \* history: on which of them the daemon's recv has failed
  \* the daemon
  up,
  pc, ipcMessage,    \* of the ipc_client thread of a connection
  fuse_session_ip,
  mounted,           \* the share the file system serves
  fuse_ip_txt,       \* the share that is mounted when the daemon starts
  fuse_startup,      \* where the thread is that does so
  fails

app == <<DaemonSocket, call, mount>>
wires == <<alive, requests, replies, failed>>
fuse == <<fuse_session_ip, mounted, fuse_ip_txt, fuse_startup>>
threads == <<pc, ipcMessage>>
vars == <<app, wires, up, threads, fuse, fails>>

Share == IPs \cup {NULL}
Simple == {"plain", "FUSE_START_W_PATH", "RESTART_FUSE_FS", "DEAMON_UPDATE"}
Command == [cmd : {"FUSE_SET_SESSION_IP"}, ip : IPs] \cup [cmd : Simple, ip : {NULL}]
ASSUME NoCommandAssumption == NULL \notin Command
Exits == {"RESTART_FUSE_FS", "DEAMON_UPDATE"}
Result == {"NO_ERROR", "FUSE_IP_ALREADY_SET", "FUSE_IP_NOT_SET", "FAILED"}
Reply == [to : Command, result : Result]
Both == {"app", "daemon"}

Do(cmd) == [cmd |-> cmd, ip |-> NULL]
SetIP(ip) == [cmd |-> "FUSE_SET_SESSION_IP", ip |-> ip]

NotMounting == [pc |-> "idle", ip |-> NULL, set |-> "INVALID", alone |-> FALSE]

\* mount.set is what the first command answered, mount.alone (history) says
\* that nobody else was about to use fuse_session_ip, and that the connection
\* has not been closed since.
TypeOK ==
  /\ DaemonSocket \in Conns \cup {NULL} /\ call \in Command \cup {NULL}
  /\ mount \in [pc : {"idle", "setting", "set", "starting"}, ip : Share,
                set : Result \cup {"INVALID"}, alone : BOOLEAN]
  /\ alive \in [Conns -> SUBSET Both]
  /\ requests \in [Conns -> Seq(Command)] /\ replies \in [Conns -> Seq(Reply)]
  /\ failed \subseteq Conns
  /\ up \in BOOLEAN
  /\ pc \in [Conns -> {"recv", "lock", "run", "mounting", "exiting", "stuck"}]
  /\ ipcMessage \in [Conns -> Command]
  /\ fuse_session_ip \in Share /\ mounted \in Share /\ fuse_ip_txt \in Share
  /\ fuse_startup \in {"read", "start", "mounting", "done"}
  /\ fails \in 0..MaxFails

Init ==
  /\ DaemonSocket = NULL /\ call = NULL /\ mount = NotMounting
  /\ alive = [c \in Conns |-> {}]
  /\ requests = [c \in Conns |-> <<>>] /\ replies = [c \in Conns |-> <<>>]
  /\ failed = {}
  /\ up = TRUE
  /\ pc = [c \in Conns |-> "recv"]
  /\ ipcMessage = [c \in Conns |-> Do("plain")]
  /\ fuse_session_ip = NULL /\ mounted = NULL /\ fuse_ip_txt \in Share
  /\ fuse_startup = "read"
  /\ fails = 0

-----------------------------------------------------------------------------
(* Slips a change to the code could make, for the mutation runs *)

\* Setting the session ip answers in its branch and again at the end.
Answer_twice(c, result) ==
  replies' = [replies EXCEPT ![c] =
    IF "app" \notin alive[c] THEN @
    ELSE LET r == [to |-> ipcMessage[c], result |-> result]
         IN IF ipcMessage[c].ip # NULL THEN @ \o <<r, r>> ELSE Append(@, r)]

\* An ip that is set already is reported as set.
set_fuse_session_ip_hides(c) ==
  /\ fuse_session_ip' = IF fuse_session_ip = NULL THEN ipcMessage[c].ip ELSE fuse_session_ip
  /\ replies' = [replies EXCEPT ![c] =
       IF "app" \in alive[c]
       THEN Append(@, [to |-> ipcMessage[c], result |-> "NO_ERROR"]) ELSE @]

\* FUSE_START_W_PATH returns at once if no ip is set, without an answer.
NotSet_silent(c) == UNCHANGED replies

-----------------------------------------------------------------------------
(* The app: IPCSendCommand, one at a time under socketMutex *)

\* Who else may come to write or clear fuse_session_ip.
NobodyElse == fuse_startup = "done" /\ \A c \in Conns \ {DaemonSocket} : "daemon" \notin alive[c]

\* A connection nobody has open; buffers and threads of such are reset.
Free(c) == alive[c] = {}
NewConnection == CHOOSE c \in Conns : Free(c)

\* IPCOpenIfNotConnected and IPCSendData.  If there is no connection to be had
\* the answer is INVALID; a message to a daemon that is gone is lost.
\* DEAMON_UPDATE is not waited for.
Open(c) ==
  IF DaemonSocket = NULL
  THEN /\ up /\ (\E d \in Conns : Free(d)) /\ c = NewConnection
       \* the daemon's ipcMessage is garbage with a good magic number
       /\ \E g \in {Do("plain"), Do("FUSE_START_W_PATH")} :
            ipcMessage' = [ipcMessage EXCEPT ![c] = g]
       /\ failed' = failed \ {c}
  ELSE c = DaemonSocket /\ UNCHANGED <<ipcMessage, failed>>

Ends(c) == IF DaemonSocket = NULL THEN Both ELSE alive[c]

Send(m) ==
  /\ call = NULL
  /\ \E c \in Conns :
       /\ Open(c)
       /\ requests' = [requests EXCEPT ![c] = IF "daemon" \in Ends(c) THEN Append(@, m) ELSE @]
       /\ IF m.cmd = "DEAMON_UPDATE"
          THEN /\ alive' = [alive EXCEPT ![c] = Ends(c) \ {"app"}]
               /\ replies' = [replies EXCEPT ![c] = <<>>]
               /\ DaemonSocket' = NULL /\ call' = NULL
          ELSE /\ alive' = [alive EXCEPT ![c] = Ends(c)]
               /\ DaemonSocket' = c /\ call' = m
               /\ UNCHANGED replies
  /\ UNCHANGED <<up, pc, fuse, fails>>

CannotSend == call = NULL /\ DaemonSocket = NULL /\ ~up

\* IPCReceiveData.  An answer that is there is read, in the order of arrival.
\* When the daemon is gone, recv may return 0, which is taken for success and
\* leaves DaemonSocket open, or -1, which closes it.
HangUp == /\ alive' = [alive EXCEPT ![DaemonSocket] = @ \ {"app"}]
          /\ replies' = [replies EXCEPT ![DaemonSocket] = <<>>]
          /\ DaemonSocket' = NULL

Receive(result) ==
  /\ call # NULL
  /\ IF replies[DaemonSocket] # <<>> THEN result = Head(replies[DaemonSocket]).result
     ELSE "daemon" \notin alive[DaemonSocket] /\ result = "INVALID"
  /\ \/ (call.cmd \in Exits \/ replies[DaemonSocket] = <<>>) /\ HangUp
     \/ /\ call.cmd \notin Exits
        /\ replies' = [replies EXCEPT ![DaemonSocket] = IF @ = <<>> THEN @ ELSE Tail(@)]
        /\ UNCHANGED <<alive, DaemonSocket>>
  /\ call' = NULL
  /\ UNCHANGED <<requests, failed, up, threads, fuse, fails>>

\* Commands outside of IPCMountFUSE, from the user interface or from the
\* thread that asks for the play time.
SendOther ==
  /\ mount.pc \in {"setting", "starting"} => call = NULL
  /\ \E cmd \in {"plain"} \cup (IF mount.pc = "idle" THEN Exits ELSE {}) : Send(Do(cmd))
  /\ UNCHANGED mount

ReceiveOther ==
  /\ call # NULL /\ (mount.pc = "setting" => call.cmd # "FUSE_SET_SESSION_IP")
  /\ mount.pc = "starting" => call.cmd # "FUSE_START_W_PATH"
  /\ \E result \in Result \cup {"INVALID"} : Receive(result)
  /\ mount' = [mount EXCEPT !.alone = @ /\ DaemonSocket' # NULL]

\* IPCMountFUSE: whatever the first command answers, the second is sent.
SendSet ==
  /\ mount.pc = "idle"
  /\ \E ip \in IPs :
       /\ Send(SetIP(ip))
       /\ mount' = [pc |-> "setting", ip |-> ip, set |-> "INVALID", alone |-> NobodyElse]

ReceiveSet ==
  /\ mount.pc = "setting" /\ call # NULL /\ call.cmd = "FUSE_SET_SESSION_IP"
  /\ \E result \in Result \cup {"INVALID"} :
       /\ Receive(result)
       /\ mount' = [mount EXCEPT !.pc = "set", !.set = result]

SendStart ==
  /\ mount.pc = "set"
  /\ Send(Do("FUSE_START_W_PATH"))
  /\ mount' = [mount EXCEPT !.pc = "starting"]

ReceiveStart(result) ==
  /\ mount.pc = "starting" /\ call # NULL /\ call.cmd = "FUSE_START_W_PATH"
  /\ Receive(result)
  /\ mount' = NotMounting

\* No daemon to connect to: the mount fails.
CannotStart ==
  /\ CannotSend /\ mount.pc = "set"
  /\ mount' = NotMounting
  /\ UNCHANGED <<DaemonSocket, call, wires, up, threads, fuse, fails>>

\* The app is closed or crashes, and may be started again.
AppDies ==
  /\ IF DaemonSocket = NULL THEN UNCHANGED <<alive, replies, DaemonSocket>> ELSE HangUp
  /\ DaemonSocket # NULL \/ mount # NotMounting
  /\ call' = NULL /\ mount' = NotMounting
  /\ UNCHANGED <<requests, failed, up, threads, fuse, fails>>

-----------------------------------------------------------------------------
(* The daemon: ipc_client, one thread for each connection *)

Go(c, to) == pc' = [pc EXCEPT ![c] = to]

\* The answer at the end of handleIPC; nobody gets it when the app is gone.
Answer(c, result) ==
  replies' = [replies EXCEPT ![c] =
    IF "app" \in alive[c] THEN Append(@, [to |-> ipcMessage[c], result |-> result]) ELSE @]

ReceiveCommand(c) ==
  /\ "daemon" \in alive[c] /\ pc[c] = "recv" /\ requests[c] # <<>>
  /\ ipcMessage' = [ipcMessage EXCEPT ![c] = Head(requests[c])]
  /\ requests' = [requests EXCEPT ![c] = Tail(@)]
  /\ Go(c, "lock")
  /\ UNCHANGED <<app, alive, replies, failed, up, fuse, fails>>

\* recv returns 0: the thread ends.
Disconnected(c) ==
  /\ "daemon" \in alive[c] /\ pc[c] = "recv" /\ requests[c] = <<>> /\ "app" \notin alive[c]
  /\ alive' = [alive EXCEPT ![c] = {}]
  /\ ipcMessage' = [ipcMessage EXCEPT ![c] = Do("plain")]
  /\ failed' = failed \ {c}
  /\ UNCHANGED <<app, requests, replies, up, pc, fuse, fails>>

\* recv returns -1, which is more than 0 in the unsigned readSize: the message
\* of before is handled again.
ReceiveFails(c) ==
  /\ "daemon" \in alive[c] /\ pc[c] = "recv"
  /\ fails < MaxFails   \* bound
  /\ fails' = fails + 1
  /\ failed' = failed \cup {c}
  /\ Go(c, "lock")
  /\ UNCHANGED <<app, alive, requests, replies, up, ipcMessage, fuse>>

Handling ==
  {c \in Conns : "daemon" \in alive[c] /\ pc[c] \in {"run", "mounting", "exiting", "stuck"}}

\* handleIPC: under ipc_mutex from here to the answer.
Lock(c) ==
  /\ "daemon" \in alive[c] /\ pc[c] = "lock" /\ Handling = {}
  /\ Go(c, "run")
  /\ UNCHANGED <<app, wires, up, ipcMessage, fuse, fails>>

Runs(c, cmd) == c \in Handling /\ pc[c] = "run" /\ ipcMessage[c].cmd = cmd

HandlePlain(c) ==
  /\ Runs(c, "plain")
  /\ Answer(c, "NO_ERROR")
  /\ Go(c, "recv")
  /\ UNCHANGED <<app, alive, requests, failed, up, ipcMessage, fuse, fails>>

\* RESTART_FTP_SERVICE or INSTALL_IF_UPDATE, under ipc_mutex for ever.
NeverEnds(c) ==
  /\ Runs(c, "plain")
  /\ Go(c, "stuck")
  /\ UNCHANGED <<app, wires, up, ipcMessage, fuse, fails>>

set_fuse_session_ip(c) ==
  IF fuse_session_ip # NULL THEN Answer(c, "FUSE_IP_ALREADY_SET") /\ UNCHANGED fuse_session_ip
  ELSE Answer(c, "NO_ERROR") /\ fuse_session_ip' = ipcMessage[c].ip

HandleSet(c) ==
  /\ Runs(c, "FUSE_SET_SESSION_IP")
  /\ set_fuse_session_ip(c)
  /\ Go(c, "recv")
  /\ UNCHANGED <<app, alive, requests, failed, up, ipcMessage, mounted, fuse_ip_txt,
                 fuse_startup, fails>>

NotSet(c) == Answer(c, "FUSE_IP_NOT_SET")

\* The mount takes its time; it uses the share named when it begins.
HandleStart(c) ==
  /\ Runs(c, "FUSE_START_W_PATH")
  /\ IF fuse_session_ip = NULL
     THEN NotSet(c) /\ Go(c, "recv") /\ UNCHANGED mounted
     ELSE mounted' = fuse_session_ip /\ Go(c, "mounting") /\ UNCHANGED replies
  /\ UNCHANGED <<app, alive, requests, failed, up, ipcMessage, fuse_session_ip, fuse_ip_txt,
                 fuse_startup, fails>>

Mounted(c) ==
  /\ c \in Handling /\ pc[c] = "mounting"
  /\ \/ /\ fuse_ip_txt' = fuse_session_ip /\ UNCHANGED mounted
        /\ Answer(c, "NO_ERROR")
     \/ /\ mounted' = NULL /\ UNCHANGED fuse_ip_txt
        /\ Answer(c, "FAILED")
  /\ fuse_session_ip' = NULL
  /\ Go(c, "recv")
  /\ UNCHANGED <<app, alive, requests, failed, up, ipcMessage, fuse_startup, fails>>

\* The answer comes first, then the daemon goes.
HandleExit(c) ==
  /\ c \in Handling /\ pc[c] = "run" /\ ipcMessage[c].cmd \in Exits
  /\ Answer(c, "NO_ERROR")
  /\ Go(c, "exiting")
  /\ UNCHANGED <<app, alive, requests, failed, up, ipcMessage, fuse, fails>>

-----------------------------------------------------------------------------
(* The daemon process *)

Gone ==
  /\ up' = FALSE
  /\ alive' = [c \in Conns |-> alive[c] \ {"daemon"}]
  /\ requests' = [c \in Conns |-> <<>>] /\ pc' = [c \in Conns |-> "recv"]
  /\ ipcMessage' = [c \in Conns |-> Do("plain")]
  /\ failed' = {c \in failed : c = DaemonSocket}
  /\ fuse_session_ip' = NULL /\ mounted' = NULL /\ fuse_startup' = "done"
  /\ UNCHANGED <<app, replies, fuse_ip_txt, fails>>

Exit == (\E c \in Handling : pc[c] = "exiting") /\ Gone

\* A crash, or rest mode: PS_Button_loop raises SIGQUIT.
DaemonDies == up /\ Gone

Boot ==
  /\ ~up /\ up' = TRUE
  /\ fuse_startup' = "read"
  /\ UNCHANGED <<app, wires, threads, fuse_session_ip, mounted, fuse_ip_txt, fails>>

\* fuse_startup, a thread that does not take ipc_mutex.
StartupReads ==
  /\ up /\ fuse_startup = "read"
  /\ IF fuse_ip_txt = NULL
     THEN \* no file, or an empty one, which clears the ip
          fuse_startup' = "done" /\ fuse_session_ip' \in {fuse_session_ip, NULL}
     ELSE fuse_startup' = "start" /\ fuse_session_ip' = fuse_ip_txt
  /\ UNCHANGED <<app, wires, up, threads, mounted, fuse_ip_txt, fails>>

StartupMounts ==
  /\ up /\ fuse_startup = "start"
  /\ fuse_startup' = "mounting" /\ mounted' = fuse_session_ip
  /\ UNCHANGED <<app, wires, up, threads, fuse_session_ip, fuse_ip_txt, fails>>

StartupEnds ==
  /\ up /\ fuse_startup = "mounting"
  /\ fuse_startup' = "done" /\ fuse_session_ip' = NULL
  /\ mounted' \in {mounted, NULL}
  /\ UNCHANGED <<app, wires, up, threads, fuse_ip_txt, fails>>

-----------------------------------------------------------------------------
Serve(c) ==
  \/ ReceiveCommand(c) \/ Disconnected(c) \/ Lock(c)
  \/ HandlePlain(c) \/ NeverEnds(c) \/ HandleSet(c) \/ HandleStart(c) \/ Mounted(c)
  \/ HandleExit(c)

AppReceives ==
  \/ ReceiveOther \/ ReceiveSet
  \/ \E result \in Result \cup {"INVALID"} : ReceiveStart(result)

Next ==
  \/ SendOther \/ SendSet \/ SendStart \/ CannotStart \/ AppReceives \/ AppDies
  \/ \E c \in Conns : Serve(c) \/ ReceiveFails(c)
  \/ Exit \/ DaemonDies \/ Boot \/ StartupReads \/ StartupMounts \/ StartupEnds

Spec == Init /\ [][Next]_vars

\* The threads of the daemon run, ipc_mutex is got by who waits for it, a
\* mount ends in success or failure, and a process that was told to exit exits.
Fairness ==
  /\ \A c \in Conns : SF_vars(Serve(c))
  /\ WF_vars(Exit) /\ WF_vars(AppReceives)

FairSpec == Spec /\ Fairness

-----------------------------------------------------------------------------
(* Properties *)

\* An answer the app reads is the answer to the command it has sent: on a
\* connection where the daemon's recv has not failed, there is never an answer
\* too many, neither after a crash of either side, nor after a mount that was
\* refused, nor after an exit of the daemon that overtakes its own answer.
AnswersInStep ==
  \A c \in Conns \ failed :
    "app" \in alive[c] =>
      \/ replies[c] = <<>>
      \/ call # NULL /\ c = DaemonSocket /\ Len(replies[c]) = 1 /\ Head(replies[c]).to = call

\* A mount that is reported as successful mounted the share that was asked
\* for, if its ip was accepted, both commands went over one connection, and
\* nobody else was about to use fuse_session_ip: the two commands act as one,
\* although the play time thread sends its own in between and the daemon may
\* die and start again.
Reports == mount.pc = "starting" /\ ReceiveStart("NO_ERROR")
MountIsAsked ==
  [][Reports /\ mount.alone /\ mount.set = "NO_ERROR" /\ failed = {} =>
       mounted \in {mount.ip, NULL}]_vars

\* A command is answered, or fails when the daemon is gone: the user interface,
\* which waits without a timeout, is not blocked for ever; unless a restart of
\* the FTP service or an update of the app never ends, which keeps ipc_mutex and
\* with it every later command, of this connection and of all others.
CallReturns == call # NULL ~> (call = NULL \/ \E c \in Conns : pc[c] = "stuck")

\* "Successfully connected the NFS Share" (itemzflow/lang.ini:477) is what
\* the user reads who entered a share: that share is the one mounted.
ConnectedIsMounted ==
  [][Reports /\ failed = {} => mounted \in {mount.ip, NULL}]_vars
=============================================================================
