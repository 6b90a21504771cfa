------------------------------ MODULE FtpSession ------------------------------
(***************************************************************************)
(* The commands of FTP sessions (itemz-daemon/source/ftp.cpp) as far as    *)
(* they touch socket descriptors and the restore point.  A session runs    *)
(* its commands one after another; several sessions run at once and share  *)
(* the descriptors of the process.  A transfer is split where its thread   *)
(* blocks: it begins, it ends.                                             *)
(*                                                                         *)
(* Commands that only answer, and the refusals that change nothing (a      *)
(* missing argument, a file that is not there), are stuttering steps: a    *)
(* refused RETR leaves its data connection prepared, and the session may   *)
(* then prepare another, or end, by its client's choice or without it.     *)
(* Paths and the contents of files are left out: a file can be opened or   *)
(* it cannot, and a transfer is known by the offset it was opened with.    *)
(***************************************************************************)
EXTENDS Integers, FiniteSets

CONSTANTS
  Sessions,   \* nodes of client_list, each with its thread
  Fds,        \* the socket descriptors the process may have
  NULL,       \* no session; also the error code in place of a descriptor
  MaxOffset,  \* bound on the offsets of REST
  Orderly,    \* whether clients ask for transfers only after PASV or PORT
  Beyond      \* bound: whether sessions and data connections are still begun
              \* once a session has closed another's socket

ASSUME NullAssumption == NULL \notin Fds \cup Sessions
ASSUME OffsetAssumption == MaxOffset \in Nat \ {0}
ASSUME OrderlyAssumption == Orderly \in BOOLEAN /\ Beyond \in BOOLEAN

\* restore_point = -1, the largest unsigned: beyond the end of any file.
ALL == MaxOffset + 1

VARIABLES
  owner,          \* the session that opened each open descriptor, or NULL
  pc,             \* "none", "idle", or the transfer a session is in
  ctrl_sockfd, data_sockfd, pasv_sockfd, data_con_type,
  restore_point,
  from,           \* the restore point the transfer under way was opened with, or 0
  asked,          \* history: what the client asked for, by REST or by an APPE that
                  \* began, since a transfer of a file last ended, or an APPE failed
  refused,        \* history: sessions where an APPE failed since then
  lost,           \* history: sockets a second PASV or PORT has replaced
  struck          \* history: a session has closed what was another's

sockets == <<ctrl_sockfd, data_sockfd, pasv_sockfd, data_con_type>>
offsets == <<restore_point, from, asked, refused>>
leaks == <<lost, struck>>
vars == <<owner, pc, sockets, offsets, leaks>>

Descriptor == Fds \cup {NULL}
Transfer == {"list", "retr", "stor", "appe"}

TypeOK ==
  /\ owner \in [Fds -> Sessions \cup {NULL}]
  /\ pc \in [Sessions -> {"none", "idle"} \cup Transfer]
  /\ ctrl_sockfd \in [Sessions -> Descriptor]
  /\ data_sockfd \in [Sessions -> Descriptor]
  /\ pasv_sockfd \in [Sessions -> Descriptor]
  /\ data_con_type \in [Sessions -> {"NONE", "ACTIVE", "PASSIVE"}]
  /\ restore_point \in [Sessions -> 0..ALL]
  /\ from \in [Sessions -> 0..ALL]
  /\ asked \in [Sessions -> 0..ALL] /\ refused \in SUBSET Sessions
  /\ lost \in SUBSET Fds /\ struck \in BOOLEAN

\* A node fresh from the heap has arbitrary data and pasv descriptors until a
\* command sets them.
Init ==
  /\ owner = [f \in Fds |-> NULL]
  /\ pc = [s \in Sessions |-> "none"]
  /\ ctrl_sockfd = [s \in Sessions |-> NULL]
  /\ data_sockfd \in [Sessions -> Descriptor]
  /\ pasv_sockfd \in [Sessions -> Descriptor]
  /\ data_con_type = [s \in Sessions |-> "NONE"]
  /\ restore_point = [s \in Sessions |-> 0]
  /\ from = [s \in Sessions |-> 0]
  /\ asked = [s \in Sessions |-> 0] /\ refused = {}
  /\ lost = {} /\ struck = FALSE

-----------------------------------------------------------------------------
(* Slips a change to the code could make, for the mutation runs *)

\* In passive mode only the accepted socket is closed, not the listening one.
DataFds_one(s) == IF data_con_type[s] = "PASSIVE" THEN {pasv_sockfd[s]}
                                                  ELSE {data_sockfd[s]}

\* A transfer that ends leaves restore_point where it was.
ForgetOffset_keeps(s) ==
  /\ asked' = [asked EXCEPT ![s] = 0]
  /\ refused' = refused \ {s}
  /\ UNCHANGED restore_point

\* The offset of REST is taken relative to the restore point there is.
REST_adds(s) ==
  /\ pc[s] = "idle"
  /\ \E n \in 0..MaxOffset :
       /\ restore_point' = [restore_point EXCEPT ![s] = @ + n]
       /\ asked' = [asked EXCEPT ![s] = n]
  /\ refused' = refused \ {s}
  /\ UNCHANGED <<owner, pc, sockets, from, leaks>>

-----------------------------------------------------------------------------
(* Descriptors *)

Open == {f \in Fds : owner[f] # NULL}

\* What sceNetSocket or sceNetAccept returns: a free descriptor, or an error
\* if there is none.
NewFd(f) == IF Open = Fds THEN f = NULL ELSE f \in Fds \ Open

Opened(s, f) == [g \in Fds |-> IF g = f THEN s ELSE owner[g]]

\* sceNetSocketClose closes a number, whoever opened what it stands for now.
Closed(fds) == [f \in Fds |-> IF f \in fds THEN NULL ELSE owner[f]]

\* What client_close_data_connection closes.
DataFds(s) == {data_sockfd[s]} \cup
              (IF data_con_type[s] = "PASSIVE" THEN {pasv_sockfd[s]} ELSE {})

\* What client_thread closes when it ends.
EndFds(s) == {ctrl_sockfd[s]} \cup (IF data_con_type[s] # "NONE" THEN DataFds(s) ELSE {})

\* The socket the data of a transfer goes through.
DataSocket(s) == IF data_con_type[s] = "ACTIVE" THEN data_sockfd[s] ELSE pasv_sockfd[s]

-----------------------------------------------------------------------------
(* The session begins and ends *)

\* A transfer of a file, unlike a listing, forgets the restore point.
ForgetOffset(s) ==
  /\ restore_point' = [restore_point EXCEPT ![s] = 0]
  /\ asked' = [asked EXCEPT ![s] = 0]
  /\ refused' = refused \ {s}

\* server_thread: accept, allocate the node, client_list_add.
Connect(s) ==
  /\ pc[s] = "none" /\ (struck => Beyond)
  /\ \E f \in Fds \ Open :
       /\ owner' = Opened(s, f)
       /\ ctrl_sockfd' = [ctrl_sockfd EXCEPT ![s] = f]
  /\ pc' = [pc EXCEPT ![s] = "idle"]
  /\ data_con_type' = [data_con_type EXCEPT ![s] = "NONE"]
  /\ ForgetOffset(s)
  /\ UNCHANGED <<data_sockfd, pasv_sockfd, from, leaks>>

\* client_thread after sceNetRecv has returned 0 or an error: the client has
\* left, the network is gone, or ftps4_fini has aborted the socket, whatever
\* the session had prepared.  In passive mode pasv_sockfd is then the number of
\* an earlier transfer, or of none.
Disconnect(s) ==
  /\ pc[s] = "idle"
  /\ owner' = Closed(EndFds(s))
  /\ pc' = [pc EXCEPT ![s] = "none"]
  /\ lost' = lost \ EndFds(s)
  /\ struck' = (struck \/ \E f \in EndFds(s) \cap Open : owner[f] # s)
  /\ ctrl_sockfd' = [ctrl_sockfd EXCEPT ![s] = NULL]
  /\ data_con_type' = [data_con_type EXCEPT ![s] = "NONE"]
  /\ ForgetOffset(s)
  /\ UNCHANGED <<data_sockfd, pasv_sockfd, from>>

-----------------------------------------------------------------------------
(* Data connections *)

\* PASV and PORT create the data socket; one that is there already is lost.
Prepare(s, type) ==
  /\ pc[s] = "idle" /\ (struck => Beyond)
  /\ \E f \in Descriptor :
       /\ NewFd(f)
       /\ owner' = Opened(s, f)
       /\ data_sockfd' = [data_sockfd EXCEPT ![s] = f]
  /\ data_con_type' = [data_con_type EXCEPT ![s] = type]
  /\ lost' = IF data_con_type[s] = "NONE" THEN lost
             ELSE lost \cup ({data_sockfd[s]} \cap Fds)
  /\ UNCHANGED <<pc, ctrl_sockfd, pasv_sockfd, offsets, struck>>

PASV(s) == Prepare(s, "PASSIVE")
PORT(s) == Prepare(s, "ACTIVE")

\* ACTIVE connects and ignores the result; any other type accepts, which may
\* fail, and does on a descriptor that is not open.
client_open_data_connection(s) ==
  IF data_con_type[s] = "ACTIVE" THEN UNCHANGED <<owner, pasv_sockfd>>
  ELSE \E f \in Descriptor :
         /\ f = NULL \/ (data_sockfd[s] \in Open /\ NewFd(f))
         /\ owner' = Opened(s, f)
         /\ pasv_sockfd' = [pasv_sockfd EXCEPT ![s] = f]

client_close_data_connection(s) ==
  /\ owner' = Closed(DataFds(s))
  /\ data_con_type' = [data_con_type EXCEPT ![s] = "NONE"]

-----------------------------------------------------------------------------
(* Transfers *)

Begin(s, transfer) ==
  /\ pc[s] = "idle" /\ (Orderly => data_con_type[s] # "NONE")
  /\ client_open_data_connection(s)
  /\ pc' = [pc EXCEPT ![s] = transfer]
  /\ UNCHANGED <<ctrl_sockfd, data_sockfd, data_con_type, leaks>>

End(s) ==
  /\ client_close_data_connection(s)
  /\ pc' = [pc EXCEPT ![s] = "idle"]
  /\ from' = [from EXCEPT ![s] = 0]
  /\ UNCHANGED <<ctrl_sockfd, data_sockfd, pasv_sockfd, leaks>>

\* LIST and NLST of a directory that can be opened.
LIST(s) == Begin(s, "list") /\ UNCHANGED offsets
EndList(s) == pc[s] = "list" /\ End(s) /\ UNCHANGED <<restore_point, asked, refused>>

\* RETR seeks to the restore point.
RETR(s) ==
  /\ Begin(s, "retr")
  /\ from' = [from EXCEPT ![s] = restore_point[s]]
  /\ UNCHANGED <<restore_point, asked, refused>>

EndRetr(s) == pc[s] = "retr" /\ End(s) /\ ForgetOffset(s)

\* STOR appends if there is a restore point, and truncates if there is none.
STOR(s) ==
  /\ Begin(s, "stor")
  /\ from' = [from EXCEPT ![s] = restore_point[s]]
  /\ UNCHANGED <<restore_point, asked, refused>>

\* APPE is a STOR that sets the restore point first ...
APPE(s) ==
  /\ Begin(s, "appe")
  /\ restore_point' = [restore_point EXCEPT ![s] = ALL]
  /\ from' = [from EXCEPT ![s] = ALL]
  /\ asked' = [asked EXCEPT ![s] = ALL]
  /\ refused' = refused \ {s}

\* ... and leaves it set when the file cannot be opened.
AppeFails(s) ==
  /\ pc[s] = "idle"
  /\ restore_point' = [restore_point EXCEPT ![s] = ALL]
  /\ asked' = [asked EXCEPT ![s] = 0]
  /\ refused' = refused \cup {s}
  /\ UNCHANGED <<owner, pc, sockets, from, leaks>>

\* receive_file ends when sceNetRecv returns 0.  An error it takes for data,
\* in an unsigned: where every call fails it never leaves its loop.
EndUpload(s) ==
  /\ pc[s] \in {"stor", "appe"} /\ DataSocket(s) \in Open
  /\ End(s) /\ ForgetOffset(s)

REST(s) ==
  /\ pc[s] = "idle"
  /\ \E n \in 0..MaxOffset :
       /\ restore_point' = [restore_point EXCEPT ![s] = n]
       /\ asked' = [asked EXCEPT ![s] = n]
  /\ refused' = refused \ {s}
  /\ UNCHANGED <<owner, pc, sockets, from, leaks>>

Next ==
  \E s \in Sessions :
    \/ Connect(s) \/ Disconnect(s) \/ PASV(s) \/ PORT(s) \/ REST(s)
    \/ LIST(s) \/ EndList(s) \/ RETR(s) \/ EndRetr(s)
    \/ STOR(s) \/ APPE(s) \/ AppeFails(s) \/ EndUpload(s)

Spec == Init /\ [][Next]_vars

-----------------------------------------------------------------------------
(* Properties *)

\* The descriptors a session has use for: its control socket, the socket of a
\* prepared data connection, and in a passive transfer the accepted socket.
InUse(s) ==
  IF pc[s] = "none" THEN {}
  ELSE {ctrl_sockfd[s]}
       \cup (IF data_con_type[s] # "NONE" THEN {data_sockfd[s]} ELSE {})
       \cup (IF data_con_type[s] = "PASSIVE" /\ pc[s] \in Transfer
             THEN {pasv_sockfd[s]} ELSE {})

\* If clients ask for transfers only after PASV or PORT, every open descriptor
\* is in use by the session that opened it and by no other, or is one that a
\* second PASV or PORT has replaced, which stays open after its session; nothing
\* in use is closed: no other leak, no double close, no reading from another
\* session's socket, whatever was on the heap before, however sessions end and
\* even when descriptors run out.  It holds until the number that a session
\* ended in passive mode closes in vain turns out to be another's socket.
FdsExact ==
  ~struck => \A s \in Sessions : InUse(s) \ {NULL} = {f \in Fds \ lost : owner[f] = s}

\* A download begins at the offset, and an upload appends or overwrites, as
\* the client asked since the last transfer ended.  Only a refused APPE leaves an
\* offset nobody asked for, and only for the next transfer of the session, unless
\* a REST comes first: it survives neither of them, nor the session.
AsAsked ==
  \A s \in Sessions :
    LET due == IF s \in refused THEN ALL ELSE asked[s]
    IN  /\ pc[s] \in {"idle", "list"} => restore_point[s] = due
        /\ pc[s] \in {"retr", "stor", "appe"} => from[s] = due

\* "If there's an open data connection, close it" (ftp.cpp:992): the sockets a
\* session closes when it ends are its own.
ClosesItsOwn ==
  [][\A s \in Sessions : pc[s] # "none" /\ pc'[s] = "none" =>
       \A f \in Fds : owner[f] # owner'[f] => owner[f] = s]_vars
=============================================================================
