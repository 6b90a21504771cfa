---------------------------- MODULE FuseNfsProofs ----------------------------
(***************************************************************************)
(* FuseNfs: no callback of libnfs writes to the frame of a handler that    *)
(* has returned, for any number of threads and of mounts, as long as no    *)
(* mount began during the call and nfs_service did not fail under the      *)
(* thread while libnfs kept its request.                                   *)
(*                                                                         *)
(* NoStrayCallback is not inductive.  That a handler waits for its request *)
(* does not say that it has a clear flag before it issues the next one     *)
(* (mkdir uses its frame twice), nor that a failure of the connection it   *)
(* polls calls back its own request.  InFlight says both.                  *)
(***************************************************************************)
EXTENDS FuseNfs, TLAPS

Waiting == {"issued", "wait", "poll", "service"}

InFlight ==
  \A t \in Threads \ disturbed :
    /\ pc[t] \in {"idle", "want", "issue"} => ~is_finished[t]
    /\ pc[t] \in {"wait", "poll", "service"} => waits_on[t] = nfs
    /\ \A q \in pending : q.thread = t =>
         q.context = nfs /\ pc[t] \in Waiting /\ ~is_finished[t]

IInv == TypeOK /\ InFlight

\* The invariant implies the property.
LEMMA InFlightImplies == IInv => NoStrayCallback
  BY DEF IInv, TypeOK, InFlight, NoStrayCallback, Waiting, Request

\* A handler that returns leaves a well-typed state.
LEMMA LeaveTyped ==
  ASSUME TypeOK, NEW t \in Threads, Leave(t)
  PROVE  /\ pc' \in [Threads -> {"idle", "want", "issue", "issued", "wait", "poll",
                                 "service", "replied", "reading"}]
         /\ op' \in [Threads -> Ops] /\ part' \in [Threads -> {1, 2}]
         /\ is_finished' \in [Threads -> BOOLEAN]
  BY DEF TypeOK, Leave, Go, Ops

\* The frames after callbacks are well typed.
LEMMA CallBackTyped ==
  ASSUME TypeOK, NEW S, CallBack(S)
  PROVE  is_finished' \in [Threads -> BOOLEAN] /\ pending' \subseteq Request
<1>1. \A u \in Threads : (is_finished[u] \/ \E q \in S : q.thread = u) \in BOOLEAN
  OBVIOUS
<1> QED BY <1>1 DEF TypeOK, CallBack

\* Every step keeps the types.
LEMMA TypeStep == TypeOK /\ [Next]_vars => TypeOK'
<1> SUFFICES ASSUME TypeOK, [Next]_vars PROVE TypeOK'
  OBVIOUS
<1> USE MountsAssumption DEF Contexts, mounts, requests
<1>1. ASSUME NEW m \in Mounters, MountBegin(m) PROVE TypeOK'
  BY <1>1 DEF TypeOK, MountBegin, InCall, Ops, mutexes, call
<1>2. ASSUME NEW m \in Mounters, MountEnd(m) PROVE TypeOK'
  <2>1. mount' \in [Mounters -> {"idle", "busy", "done"}]
    BY <1>2 DEF TypeOK, MountEnd
  <2>2. context' \in [Contexts -> {"none", "mounting", "mounted", "destroyed"}]
    BY <1>2 DEF TypeOK, MountEnd
  <2> QED BY <1>2, <2>1, <2>2 DEF TypeOK, MountEnd, mutexes, call
<1>3. CASE Answer
  BY <1>3 DEF TypeOK, Answer, mutexes, call
<1>4. ASSUME NEW t \in Threads, NEW o \in Ops, Call(t, o) PROVE TypeOK'
  BY <1>4 DEF TypeOK, Call, Go, mutexes
<1>5. ASSUME NEW t \in Threads, Step(t) PROVE TypeOK'
  <2>1. CASE LockNfs(t)
    BY <2>1 DEF TypeOK, LockNfs, Go, call
  <2>2. CASE Issue(t)
    <3>1. CASE Leave(t) /\ UNCHANGED <<pending, kept>>
      BY <2>2, <3>1, LeaveTyped DEF TypeOK, Issue
    <3>2. CASE Go(t, "issued") /\ UNCHANGED <<call, is_finished, pending, kept>>
      BY <2>2, <3>2 DEF TypeOK, Issue, Go, call
    <3>3. CASE /\ Go(t, "issued")
               /\ pending' = pending \cup {[thread |-> t, context |-> nfs]}
               /\ kept' = kept \ {[thread |-> t, context |-> nfs]}
               /\ UNCHANGED <<call, is_finished>>
      BY <2>2, <3>3 DEF TypeOK, Issue, Go, call, Request, Usable
    <3> QED BY <2>2, <3>1, <3>2, <3>3 DEF Issue
  <2>3. CASE EnterWait(t)
    BY <2>3 DEF TypeOK, EnterWait, Go, call, mutexes
  <2>4. CASE LockReply(t)
    BY <2>4 DEF TypeOK, LockReply, Go, call
  <2>5. CASE Poll(t)
    BY <2>5 DEF TypeOK, Poll, Go, call
  <2>6. CASE Service(t)
    <3>1. is_finished' \in [Threads -> BOOLEAN] /\ pending' \subseteq Request
      BY <2>6, CallBackTyped DEF Service
    <3> QED BY <2>6, <3>1 DEF TypeOK, Service, Go, call
  <2>7. CASE ServiceFails(t)
    <3>1. PICK done \in SUBSET On(waits_on[t]) :
            /\ CallBack(done)
            /\ arrived' = arrived \ On(waits_on[t])
            /\ kept' = (kept \cup On(waits_on[t])) \ done
            /\ disturbed' = disturbed \cup {u \in {t} : \E q \in pending' : q.thread = u}
      BY <2>7 DEF ServiceFails
    <3>2. is_finished' \in [Threads -> BOOLEAN] /\ pending' \subseteq Request
      BY <3>1, CallBackTyped
    <3>3. kept' \subseteq Request /\ arrived' \subseteq Request /\ disturbed' \subseteq Threads
      BY <3>1 DEF TypeOK, On
    <3>4. /\ pc' = [pc EXCEPT ![t] = "replied"] /\ waits_on' = [waits_on EXCEPT ![t] = 0]
          /\ nfs_mutex' = NULL /\ reply_mutex' = NULL /\ UNCHANGED <<mounts, call>>
      BY <2>7 DEF ServiceFails, LeaveWait, Go
    <3> QED BY <3>2, <3>3, <3>4 DEF TypeOK, call
  <2>8. CASE Finished(t)
    BY <2>8 DEF TypeOK, Finished, LeaveWait, Go, call
  <2>9. CASE MkdirGoesOn(t)
    <3>1. is_finished' \in [Threads -> BOOLEAN]
      BY <2>9, Zenon DEF TypeOK, MkdirGoesOn, NextPart
    <3> QED BY <2>9, <3>1 DEF TypeOK, MkdirGoesOn, NextPart, Go, mutexes
  <2>10. CASE ReadDir(t)
    BY <2>10 DEF TypeOK, ReadDir, Go, call, mutexes
  <2>11. CASE Return(t)
    BY <2>11, LeaveTyped DEF TypeOK, Return, mutexes
  <2> QED BY <1>5, <2>1, <2>2, <2>3, <2>4, <2>5, <2>6, <2>7, <2>8, <2>9, <2>10, <2>11
          DEF Step
<1>6. CASE UNCHANGED vars
  BY <1>6 DEF TypeOK, vars, call, mutexes
<1> QED BY <1>1, <1>2, <1>3, <1>4, <1>5, <1>6 DEF Next

\* Requests of a thread that was not disturbed are all on the context in use.
LEMMA OnlyOne ==
  ASSUME IInv, NEW u \in Threads \ disturbed, NEW q \in pending, q.thread = u
  PROVE  q = [thread |-> u, context |-> nfs]
  BY DEF IInv, TypeOK, InFlight, Request

\* Every step keeps InFlight.
LEMMA InFlightStep == IInv /\ [Next]_vars => InFlight'
<1> SUFFICES ASSUME IInv, [Next]_vars PROVE InFlight'
  OBVIOUS
<1>t. TypeOK /\ TypeOK'
  BY TypeStep DEF IInv
<1> USE DEF mounts, requests
<1>1. ASSUME NEW m \in Mounters, MountBegin(m) PROVE InFlight'
  <2>1. \A t \in Threads \ disturbed' : pc'[t] = "idle" /\ t \notin disturbed
    BY <1>1 DEF MountBegin, InCall
  <2> QED BY <1>1, <2>1, <1>t DEF IInv, InFlight, MountBegin, Waiting
<1>2. ASSUME NEW m \in Mounters, MountEnd(m) PROVE InFlight'
  BY <1>2 DEF IInv, InFlight, MountEnd
<1>3. CASE Answer
  BY <1>3 DEF IInv, InFlight, Answer
<1>4. ASSUME NEW t \in Threads, NEW o \in Ops, Call(t, o) PROVE InFlight'
  BY <1>4, <1>t DEF IInv, InFlight, Call, Go, Waiting
<1>5. ASSUME NEW t \in Threads, Step(t) PROVE InFlight'
  <2>0. disturbed \subseteq disturbed'
    BY <1>5 DEF Step, LockNfs, Issue, EnterWait, LockReply, Poll, Service, ServiceFails,
                Finished, MkdirGoesOn, ReadDir, Return
  <2> SUFFICES ASSUME NEW u \in Threads \ disturbed'
      PROVE /\ pc'[u] \in {"idle", "want", "issue"} => ~is_finished'[u]
            /\ pc'[u] \in {"wait", "poll", "service"} => waits_on'[u] = nfs'
            /\ \A q \in pending' : q.thread = u =>
                 q.context = nfs' /\ pc'[u] \in Waiting /\ ~is_finished'[u]
    BY DEF InFlight
  <2>u. u \in Threads \ disturbed
    BY <2>0
  <2> USE <1>t, <2>u DEF IInv, InFlight, Waiting
  <2>1. CASE LockNfs(t)
    BY <2>1 DEF TypeOK, LockNfs, Go
  <2>2. CASE Issue(t)
    <3>1. CASE Leave(t) /\ UNCHANGED <<pending, kept>>
      BY <2>2, <3>1 DEF TypeOK, Issue, Leave, Go
    <3>2. CASE Go(t, "issued") /\ UNCHANGED <<call, is_finished, pending, kept>>
      BY <2>2, <3>2 DEF TypeOK, Issue, Go
    <3>3. CASE /\ Go(t, "issued")
               /\ pending' = pending \cup {[thread |-> t, context |-> nfs]}
               /\ kept' = kept \ {[thread |-> t, context |-> nfs]}
               /\ UNCHANGED <<call, is_finished>>
      BY <2>2, <3>3 DEF TypeOK, Issue, Go
    <3> QED BY <2>2, <3>1, <3>2, <3>3 DEF Issue
  <2>3. CASE EnterWait(t)
    BY <2>3 DEF TypeOK, EnterWait, Go
  <2>4. CASE LockReply(t)
    BY <2>4 DEF TypeOK, LockReply, Go
  <2>5. CASE Poll(t)
    BY <2>5 DEF TypeOK, Poll, Go
  <2>6. CASE Service(t)
    <3> DEFINE S == On(waits_on[t]) \cap arrived
    <3>1. S \subseteq pending /\ CallBack(S)
      BY <2>6 DEF Service, On
    <3>2. pc' = [pc EXCEPT ![t] = "poll"] /\ pc[t] = "service" /\ UNCHANGED <<nfs, waits_on>>
      BY <2>6 DEF Service, Go
    <3> HIDE DEF S
    <3>3. (\E q \in S : q.thread = u)
          => pc[u] \in Waiting /\ \A q \in pending' : q.thread # u
      BY <3>1, OnlyOne DEF CallBack
    <3>4. (~\E q \in S : q.thread = u) => is_finished'[u] = is_finished[u]
      BY <3>1 DEF CallBack, TypeOK
    <3> QED BY <3>1, <3>2, <3>3, <3>4 DEF TypeOK, CallBack
  <2>7. CASE ServiceFails(t)
    <3>1. PICK done \in SUBSET On(waits_on[t]) :
            /\ CallBack(done)
            /\ disturbed' = disturbed \cup {v \in {t} : \E q \in pending' : q.thread = v}
      BY <2>7 DEF ServiceFails
    <3>2. done \subseteq pending
      BY <3>1 DEF On
    <3>3. /\ pc' = [pc EXCEPT ![t] = "replied"] /\ pc[t] = "service"
          /\ waits_on' = [waits_on EXCEPT ![t] = 0] /\ UNCHANGED nfs
      BY <2>7 DEF ServiceFails, LeaveWait, Go
    <3>4. (\E q \in done : q.thread = u)
          => pc[u] \in Waiting /\ \A q \in pending' : q.thread # u
      BY <3>1, <3>2, OnlyOne DEF CallBack
    <3>5. (~\E q \in done : q.thread = u) => is_finished'[u] = is_finished[u]
      BY <3>1 DEF CallBack, TypeOK
    <3>6. t = u => \A q \in pending' : q.thread # u
      BY <3>1
    <3> QED BY <3>1, <3>2, <3>3, <3>4, <3>5, <3>6 DEF TypeOK, CallBack
  <2>8. CASE Finished(t)
    BY <2>8 DEF TypeOK, Finished, LeaveWait, Go
  <2>9. CASE MkdirGoesOn(t)
    BY <2>9 DEF TypeOK, MkdirGoesOn, NextPart, Go
  <2>10. CASE ReadDir(t)
    BY <2>10 DEF TypeOK, ReadDir, Go
  <2>11. CASE Return(t)
    BY <2>11 DEF TypeOK, Return, Leave, Go
  <2> QED BY <1>5, <2>1, <2>2, <2>3, <2>4, <2>5, <2>6, <2>7, <2>8, <2>9, <2>10, <2>11
          DEF Step
<1>6. CASE UNCHANGED vars
  BY <1>6 DEF IInv, InFlight, vars
<1> QED BY <1>1, <1>2, <1>3, <1>4, <1>5, <1>6 DEF Next

LEMMA InitHolds == Init => IInv
  BY MountsAssumption
  DEF Init, IInv, TypeOK, InFlight, Ops, Contexts, Mounters

\* Types are kept from the start (the variables of FuseNfs).
THEOREM TypeCorrect == Spec => []TypeOK
<1>1. Init => TypeOK
  BY InitHolds DEF IInv
<1> QED BY <1>1, TypeStep, PTL DEF Spec

\* No callback writes to the frame of a handler that has returned, and no
\* handler goes on before its own reply (wait_for_nfs_reply and the callbacks),
\* unless a mount began during the call, or nfs_service failed under the thread
\* and left its request with libnfs.
THEOREM NoCallbackIsStray == Spec => []NoStrayCallback
<1>1. IInv /\ [Next]_vars => IInv'
  BY TypeStep, InFlightStep DEF IInv
<1> QED BY InitHolds, <1>1, InFlightImplies, PTL DEF Spec
=============================================================================
