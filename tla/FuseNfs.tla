------------------------------- MODULE FuseNfs -------------------------------
(***************************************************************************)
(* The network share of the daemon (itemz-daemon/source/fuse-nfs.cpp).     *)
(* libfuse calls a handler on one of its threads; the handler issues an    *)
(* asynchronous request to libnfs and waits for the reply.  One waiting    *)
(* thread at a time, the one that holds reply_mutex, polls the connection  *)
(* and runs the callbacks of everyone's replies; a callback writes to the  *)
(* stack frame of the handler that issued the request.                     *)
(*                                                                         *)
(* The handlers differ, for what is checked here, in what they do after    *)
(* the reply: readdir goes on to read the directory if the reply is good,  *)
(* mkdir issues a second request with the same frame, release and all      *)
(* others return; and release does not look whether its request was        *)
(* issued.  The others are as readdir with a bad reply.                    *)
(***************************************************************************)
EXTENDS Integers, FiniteSets

CONSTANTS
  Threads,    \* threads of libfuse
  NULL,       \* no thread
  MaxMounts,  \* bound on the mounts made in the life of the daemon
  Keeping,    \* bound: the contexts of which libnfs may keep requests when
              \* nfs_service fails
  Beyond      \* bound: whether a thread that was disturbed begins further calls

ASSUME NullAssumption == NULL \notin Threads
ASSUME MountsAssumption == MaxMounts \in Nat \ {0}
ASSUME KeepingAssumption == Keeping \subseteq 1..MaxMounts
ASSUME BeyondAssumption == Beyond \in BOOLEAN

VARIABLES
  nfs,          \* the global context, 0 before the first mount
  context,      \* what became of each context
  mount,        \* of each who mounts: is it at it
  pc, op, part, \* of each thread: where it is, in which handler, and whether
                \* it is at the first or the second request of mkdir
  is_finished,  \* in the frame of the call (status is left out)
  waits_on,     \* the context wait_for_nfs_reply was called with
  nfs_mutex, reply_mutex,
  pending,      \* requests libnfs has to call back for
  arrived,      \* those of them whose reply is at the socket
  kept,         \* those of them that it kept when nfs_service failed
  disturbed     \* history: the threads in a call when a mount began, or that
                \* left a request behind when nfs_service failed

mutexes == <<nfs_mutex, reply_mutex>>
call == <<op, part>>
mounts == <<nfs, context, mount>>
requests == <<pending, arrived, kept>>
vars == <<mounts, pc, call, is_finished, waits_on, mutexes, requests, disturbed>>

Contexts == 1..MaxMounts
Ops == {"readdir", "mkdir", "release"}

\* fuse_startup mounts once, on a thread of its own; the IPC commands mount one
\* at a time (ipc_mutex), which fuse_startup does not take.
Mounters == {"startup", "ipc"}
\* A request is not told apart from one its thread left behind on a context.
Request == [thread : Threads, context : Contexts]

TypeOK ==
  /\ nfs \in 0..MaxMounts
  /\ context \in [Contexts -> {"none", "mounting", "mounted", "destroyed"}]
  /\ mount \in [Mounters -> {"idle", "busy", "done"}]
  /\ pc \in [Threads -> {"idle", "want", "issue", "issued", "wait", "poll",
                         "service", "replied", "reading"}]
  /\ op \in [Threads -> Ops] /\ part \in [Threads -> {1, 2}]
  /\ is_finished \in [Threads -> BOOLEAN]
  /\ waits_on \in [Threads -> 0..MaxMounts]
  /\ nfs_mutex \in Threads \cup {NULL} /\ reply_mutex \in Threads \cup {NULL}
  /\ pending \subseteq Request /\ arrived \subseteq Request /\ kept \subseteq Request
  /\ disturbed \subseteq Threads

Init ==
  /\ nfs = 0
  /\ context = [c \in Contexts |-> "none"]
  /\ mount = [m \in Mounters |-> "idle"]
  /\ pc = [t \in Threads |-> "idle"]
  /\ op = [t \in Threads |-> "readdir"] /\ part = [t \in Threads |-> 1]
  /\ is_finished = [t \in Threads |-> FALSE]
  /\ waits_on = [t \in Threads |-> 0]
  /\ nfs_mutex = NULL /\ reply_mutex = NULL
  /\ pending = {} /\ arrived = {} /\ kept = {}
  /\ disturbed = {}

Go(t, to) == pc' = [pc EXCEPT ![t] = to]
InCall(t) == pc[t] # "idle"

-----------------------------------------------------------------------------
(* Slips a change to the code could make, for the mutation runs *)

\* mkdir does not reset is_finished between its two requests.
NextPart_stays_finished(t) ==
  /\ part' = [part EXCEPT ![t] = 2]
  /\ UNCHANGED is_finished

\* The loop is left by a return after an error of nfs_service.
LeaveWait_by_return(t) ==
  /\ Go(t, "replied")
  /\ waits_on' = [waits_on EXCEPT ![t] = 0]
  /\ IF is_finished[t] THEN reply_mutex' = NULL ELSE UNCHANGED reply_mutex

-----------------------------------------------------------------------------
(* Mounting: fuse_nfs_main *)

\* The global context is replaced at once, and mounted afterwards, whatever
\* the threads of an earlier mount are doing.
MountBegin(m) ==
  /\ nfs < MaxMounts   \* bound
  /\ mount[m] = "idle"
  /\ mount' = [mount EXCEPT ![m] = "busy"]
  /\ nfs' = nfs + 1
  /\ context' = [context EXCEPT ![nfs + 1] = "mounting"]
  /\ disturbed' = disturbed \cup {t \in Threads : InCall(t)}
  /\ UNCHANGED <<pc, call, is_finished, waits_on, mutexes, requests>>

\* nfs_mount succeeds, or fatal_fuse_error destroys the context and leaves
\* the global pointer as it is; either takes the context that is global by now,
\* which another mount may have made, or have destroyed.
MountEnd(m) ==
  /\ mount[m] = "busy"
  /\ mount' = [mount EXCEPT ![m] = IF m = "startup" THEN "done" ELSE "idle"]
  /\ \E result \in {"mounted", "destroyed"} :
       /\ context[nfs] = "destroyed" => result = "destroyed"
       /\ context' = [context EXCEPT ![nfs] = result]
  /\ UNCHANGED <<nfs, pc, call, is_finished, waits_on, mutexes, requests, disturbed>>

\* Using a context that is being mounted or is destroyed is undefined.  The
\* outcome modelled is that the thread does not come back from it.
Usable(c) == c > 0 /\ context[c] = "mounted"

-----------------------------------------------------------------------------
(* Issuing a request *)

Call(t, o) ==
  /\ pc[t] = "idle" /\ \E c \in Contexts : context[c] = "mounted"
  /\ Beyond \/ t \notin disturbed   \* bound
  /\ Go(t, "want")
  /\ op' = [op EXCEPT ![t] = o]
  /\ UNCHANGED <<mounts, part, is_finished, waits_on, mutexes, requests, disturbed>>

\* The handler returns; the frame of the next call is blank again.
Leave(t) ==
  /\ Go(t, "idle")
  /\ op' = [op EXCEPT ![t] = "readdir"] /\ part' = [part EXCEPT ![t] = 1]
  /\ is_finished' = [is_finished EXCEPT ![t] = FALSE]

LockNfs(t) ==
  /\ pc[t] = "want" /\ nfs_mutex = NULL
  /\ nfs_mutex' = t
  /\ Go(t, "issue")
  /\ UNCHANGED <<mounts, call, is_finished, waits_on, reply_mutex, requests, disturbed>>

\* nfs_..._async, then unlock; an error makes the handler return, but for
\* release, which goes on to wait for a reply to nothing.
Issue(t) ==
  /\ pc[t] = "issue" /\ Usable(nfs)
  /\ nfs_mutex' = NULL
  /\ \/ /\ IF op[t] = "release" THEN Go(t, "issued") /\ UNCHANGED <<call, is_finished>>
                                ELSE Leave(t)
        /\ UNCHANGED <<pending, kept>>
     \/ /\ Go(t, "issued")
        /\ pending' = pending \cup {[thread |-> t, context |-> nfs]}
        /\ kept' = kept \ {[thread |-> t, context |-> nfs]}
        /\ UNCHANGED <<call, is_finished>>
  /\ UNCHANGED <<mounts, waits_on, reply_mutex, arrived, disturbed>>

-----------------------------------------------------------------------------
(* wait_for_nfs_reply *)

EnterWait(t) ==
  /\ pc[t] = "issued"
  /\ waits_on' = [waits_on EXCEPT ![t] = nfs]
  /\ Go(t, "wait")
  /\ UNCHANGED <<mounts, call, is_finished, mutexes, requests, disturbed>>

LockReply(t) ==
  /\ pc[t] = "wait" /\ reply_mutex = NULL
  /\ reply_mutex' = t
  /\ Go(t, "poll")
  /\ UNCHANGED <<mounts, call, is_finished, waits_on, nfs_mutex, requests, disturbed>>

\* poll() returns within 100 ms in any case.
Poll(t) ==
  /\ pc[t] = "poll" /\ ~is_finished[t]
  /\ Usable(waits_on[t]) /\ nfs_mutex = NULL
  /\ nfs_mutex' = t
  /\ Go(t, "service")
  /\ UNCHANGED <<mounts, call, is_finished, waits_on, reply_mutex, requests, disturbed>>

On(c) == {q \in pending : q.context = c}

\* The callbacks of a set of requests are run.
CallBack(done) ==
  /\ is_finished' = [u \in Threads |-> is_finished[u] \/ \E q \in done : q.thread = u]
  /\ pending' = pending \ done

\* nfs_service runs the callbacks of the replies that have arrived.
Service(t) ==
  /\ pc[t] = "service" /\ Usable(waits_on[t])
  /\ CallBack(On(waits_on[t]) \cap arrived)
  /\ arrived' = arrived \cap pending'
  /\ nfs_mutex' = NULL
  /\ Go(t, "poll")
  /\ UNCHANGED <<mounts, call, waits_on, reply_mutex, kept, disturbed>>

LeaveWait(t) ==
  /\ Go(t, "replied")
  /\ waits_on' = [waits_on EXCEPT ![t] = 0]
  /\ reply_mutex' = NULL

\* nfs_service fails: libnfs drops the connection.  Which requests on it are
\* called back with an error then, the handlers do not ask; those it keeps it may
\* send again, or not, and call back later, or never.
ServiceFails(t) ==
  /\ pc[t] = "service" /\ Usable(waits_on[t])
  /\ \E done \in SUBSET On(waits_on[t]) :
       /\ done # On(waits_on[t]) => waits_on[t] \in Keeping
       /\ CallBack(done)
       /\ arrived' = arrived \ On(waits_on[t])
       /\ kept' = (kept \cup On(waits_on[t])) \ done
       /\ disturbed' = disturbed \cup {u \in {t} : \E q \in pending' : q.thread = u}
  /\ nfs_mutex' = NULL
  /\ LeaveWait(t)
  /\ UNCHANGED <<mounts, call>>

Finished(t) ==
  /\ pc[t] = "poll" /\ is_finished[t]
  /\ LeaveWait(t)
  /\ UNCHANGED <<mounts, call, is_finished, nfs_mutex, requests, disturbed>>

-----------------------------------------------------------------------------
(* After the reply *)

\* mkdir goes on to its chmod, whatever the status of the mkdir was.
NextPart(t) ==
  /\ part' = [part EXCEPT ![t] = 2]
  /\ is_finished' = [is_finished EXCEPT ![t] = FALSE]

MkdirGoesOn(t) ==
  /\ pc[t] = "replied" /\ op[t] = "mkdir" /\ part[t] = 1
  /\ NextPart(t)
  /\ Go(t, "want")
  /\ UNCHANGED <<mounts, op, waits_on, mutexes, requests, disturbed>>

\* nfs_readdir and nfs_closedir are called without nfs_mutex, if the reply is
\* good.
ReadDir(t) ==
  /\ pc[t] = "replied" /\ op[t] = "readdir"
  /\ Go(t, "reading")
  /\ UNCHANGED <<mounts, call, is_finished, waits_on, mutexes, requests, disturbed>>

Return(t) ==
  /\ \/ pc[t] = "reading"
     \/ pc[t] = "replied" /\ (op[t] = "mkdir" => part[t] = 2)
  /\ Leave(t)
  /\ UNCHANGED <<mounts, waits_on, mutexes, requests, disturbed>>

\* The server answers a request, one that was kept after it was sent again.
Answer ==
  /\ \E q \in pending \ arrived : arrived' = arrived \cup {q} /\ kept' = kept \ {q}
  /\ UNCHANGED <<mounts, pc, call, is_finished, waits_on, mutexes, pending, disturbed>>

-----------------------------------------------------------------------------
Step(t) ==
  \/ LockNfs(t) \/ Issue(t) \/ EnterWait(t) \/ LockReply(t) \/ Poll(t)
  \/ Service(t) \/ ServiceFails(t) \/ Finished(t)
  \/ MkdirGoesOn(t) \/ ReadDir(t) \/ Return(t)

Next ==
  \/ \E m \in Mounters : MountBegin(m) \/ MountEnd(m)
  \/ Answer
  \/ \E t \in Threads : Step(t) \/ \E o \in Ops : Call(t, o)

Spec == Init /\ [][Next]_vars

\* Threads run and get a mutex that is released again and again; the server
\* answers every request, unless its connection was dropped.
Fairness ==
  /\ \A t \in Threads : SF_vars(Step(t))
  /\ \A t \in Threads :
       WF_vars(Answer /\ \E q \in arrived' \ arrived : q.thread = t /\ q \notin kept)

FairSpec == Spec /\ Fairness

-----------------------------------------------------------------------------
(* Properties *)

\* A callback never writes to the frame of a handler that has returned, and
\* no handler goes on before its own reply: whatever libnfs still has to call
\* back for belongs to a handler that is waiting for it, even while other
\* threads receive its reply, and even if nfs_service fails for the one that
\* receives it.  Two things break this for a thread: a mount that begins during
\* its call, and nfs_service failing under it while libnfs keeps its request.
NoStrayCallback ==
  \A q \in pending :
    LET t == q.thread IN
    \/ pc[t] \in {"issued", "wait", "poll", "service"} /\ ~is_finished[t]
    \/ t \in disturbed

\* A thread that waits for its reply on another connection than the one it
\* sent the request on, or on one that is not mounted, or for a reply that need
\* never come: to a close that was not issued, or one of a dropped connection.
Stranded(t) ==
  \/ pc[t] = "issue" /\ ~Usable(nfs)
  \/ /\ pc[t] \in {"wait", "poll", "service"}
     /\ \/ ~Usable(waits_on[t])
        \/ \E q \in pending : q.thread = t /\ (q.context # waits_on[t] \/ q \in kept)
        \/ op[t] = "release" /\ ~is_finished[t] /\ \A q \in pending : q.thread # t

\* Every file operation comes to an end, as long as none is stranded: that one
\* keeps reply_mutex, and with it all others.
CallsEnd ==
  \A t \in Threads : InCall(t) ~> (~InCall(t) \/ \E u \in Threads : Stranded(u))

\* "Only one thread at a time can enter libnfs" (fuse-nfs.cpp:129)
OneThreadInLibnfs ==
  \A t, u \in Threads :
    pc[t] \in {"issue", "service", "reading"} /\ pc[u] \in {"issue", "service", "reading"}
      => t = u
=============================================================================
