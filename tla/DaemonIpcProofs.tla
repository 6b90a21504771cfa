--------------------------- MODULE DaemonIpcProofs ---------------------------
(***************************************************************************)
(* DaemonIpc: the answers stay in step with the commands, and an           *)
(* undisturbed mount mounts what it was asked to, for any number of        *)
(* connections, shares and failures of recv.  Both need to know where a    *)
(* command is at every moment: what lies in a connection, what its thread  *)
(* does and what the app waits for determine each other (InStep), unless a *)
(* receive of the daemon failed on it and a command was handled twice.     *)
(***************************************************************************)
EXTENDS DaemonIpc, SequenceTheorems, TLAPS

\* Who has which connection open, and that nothing is left in the buffers of
\* a connection, or to do for its thread, when an end is closed.
Wires ==
  /\ call # NULL => DaemonSocket # NULL
  /\ \A c \in Conns :
       /\ "app" \in alive[c] <=> c = DaemonSocket
       /\ c # DaemonSocket => replies[c] = <<>>
       /\ "daemon" \notin alive[c] => requests[c] = <<>> /\ pc[c] = "recv"
       /\ ~up => "daemon" \notin alive[c]

\* Where the command is that the app waits for on connection c: sent, handled,
\* answered, or lost with the daemon.
Sent(c) == requests[c] = <<call>> /\ replies[c] = <<>> /\ pc[c] = "recv"
Handled(c) ==
  /\ requests[c] = <<>> /\ replies[c] = <<>>
  /\ pc[c] \in {"lock", "run", "mounting", "stuck"} /\ ipcMessage[c] = call
  /\ pc[c] = "mounting" => call.cmd = "FUSE_START_W_PATH"
Answered(c) ==
  /\ requests[c] = <<>> /\ pc[c] \in {"recv", "exiting"}
  /\ Len(replies[c]) = 1 /\ Head(replies[c]).to = call
  /\ pc[c] = "exiting" => call.cmd \in Exits
Quiet(c) == requests[c] = <<>> /\ replies[c] = <<>> /\ pc[c] = "recv"

InStep ==
  \A c \in Conns \ failed : c = DaemonSocket =>
    \/ call = NULL /\ Quiet(c)
    \/ call # NULL /\ (Sent(c) \/ Handled(c) \/ Answered(c))
    \/ call # NULL /\ "daemon" \notin alive[c] /\ Quiet(c)

\* IPCMountFUSE and the command it waits for.
MountCalls ==
  /\ mount.pc = "idle" => mount = NotMounting
  /\ mount.pc # "idle" => mount.ip # NULL
  /\ mount.pc = "setting" => call = SetIP(mount.ip)
  /\ mount.pc = "starting" => call = Do("FUSE_START_W_PATH")
  /\ mount.pc = "set" => call = NULL \/ call = Do("plain")

\* The mount is one nobody disturbs: its ip is being set, or was accepted.
Undisturbed ==
  /\ mount.alone /\ DaemonSocket \notin failed
  /\ mount.pc = "setting" \/ mount.set = "NO_ERROR"

MountOwnsIp ==
  LET d == DaemonSocket
      serving == "daemon" \in alive[d]
      answered == Head(replies[d]).result
  IN Undisturbed =>
       /\ d # NULL
       /\ \A c \in Conns \ {d} : "daemon" \notin alive[c]
       /\ serving => fuse_startup = "done"
       /\ mount.pc = "setting" /\ replies[d] # <<>> /\ answered = "NO_ERROR" /\ serving =>
            fuse_session_ip = mount.ip
       /\ mount.pc = "set" /\ serving => fuse_session_ip = mount.ip
       /\ mount.pc = "starting" /\ serving /\ replies[d] = <<>> => fuse_session_ip = mount.ip
       /\ mount.pc = "starting" /\ pc[d] = "mounting" => mounted = mount.ip
       /\ mount.pc = "starting" /\ replies[d] # <<>> /\ answered = "NO_ERROR" =>
            /\ {mounted, fuse_session_ip} \subseteq {mount.ip, NULL}
            /\ fuse_ip_txt = mount.ip

IInv == TypeOK /\ Wires /\ InStep /\ MountCalls /\ MountOwnsIp

-----------------------------------------------------------------------------
(* The buffers *)

LEMMA OneMessage ==
  ASSUME NEW S, NEW m \in S
  PROVE  /\ <<m>> \in Seq(S) /\ <<m>> # <<>> /\ Len(<<m>>) = 1 /\ Head(<<m>>) = m
         /\ Tail(<<m>>) = <<>> /\ Append(<<>>, m) = <<m>>
  OBVIOUS

LEMMA OnlyMessage ==
  ASSUME NEW S, NEW s \in Seq(S), Len(s) = 1
  PROVE  s = <<Head(s)>> /\ Tail(s) = <<>> /\ s # <<>>
<1>1. s = <<Head(s)>>
  OBVIOUS
<1>2. Head(s) \in S /\ s # <<>>
  OBVIOUS
<1>3. Tail(s) = <<>>
  BY <1>1, <1>2, OneMessage
<1> QED BY <1>1, <1>2, <1>3

LEMMA BufferTypes ==
  ASSUME NEW S, NEW s \in Seq(S)
  PROVE  /\ \A m \in S : Append(s, m) \in Seq(S) /\ Append(s, m) # <<>>
         /\ s # <<>> => Head(s) \in S /\ Tail(s) \in Seq(S)
  BY AppendProperties, HeadTailProperties, Zenon

LEMMA CommandTypes ==
  /\ \A cmd \in Simple : Do(cmd) \in Command
  /\ \A ip \in IPs : SetIP(ip) \in Command
  /\ \A m \in Command : m # NULL /\ m.ip \in Share
  /\ \A m \in Command : m.cmd = "FUSE_SET_SESSION_IP" => m.ip \in IPs /\ m = SetIP(m.ip)
  /\ \A m \in Command : m.cmd # "FUSE_SET_SESSION_IP" => m = Do(m.cmd) /\ m.ip = NULL
  BY NoCommandAssumption DEF Command, Do, SetIP, Simple, Share

-----------------------------------------------------------------------------
(* What the commands have in common: sending one and reading an answer *)

\* The types of everything but the mount, which the two leave to its actions.
RestTypeOK ==
  /\ DaemonSocket \in Conns \cup {NULL} /\ call \in Command \cup {NULL}
  /\ alive \in [Conns -> SUBSET Both]
  /\ requests \in [Conns -> Seq(Command)] /\ replies \in [Conns -> Seq(Reply)]
  /\ failed \subseteq Conns /\ up \in BOOLEAN
  /\ pc \in [Conns -> {"recv", "lock", "run", "mounting", "exiting", "stuck"}]
  /\ ipcMessage \in [Conns -> Command]
  /\ fuse_session_ip \in Share /\ mounted \in Share /\ fuse_ip_txt \in Share
  /\ fuse_startup \in {"read", "start", "mounting", "done"}
  /\ fails \in 0..MaxFails

MountType == [pc : {"idle", "setting", "set", "starting"}, ip : Share,
              set : Result \cup {"INVALID"}, alone : BOOLEAN]

LEMMA TypeParts == TypeOK <=> RestTypeOK /\ mount \in MountType
  BY DEF TypeOK, RestTypeOK, MountType

\* Opening a connection, if there is none, finds or makes a quiet one.
LEMMA OpenEffect ==
  ASSUME RestTypeOK, Wires, InStep, call = NULL, NEW c \in Conns, Open(c)
  PROVE  /\ ipcMessage' \in [Conns -> Command] /\ failed' \subseteq Conns
         /\ failed' \cup {c} = failed \cup {c}
         /\ Ends(c) \in SUBSET Both /\ "app" \in Ends(c)
         /\ "daemon" \in Ends(c) => up
         /\ \A d \in Conns \ {c} : "app" \notin alive[d] /\ ipcMessage'[d] = ipcMessage[d]
         /\ \A d \in Conns : "app" \in alive[d] => d = c
         /\ c \notin failed' => Quiet(c)
         /\ DaemonSocket = NULL => Quiet(c)
         /\ DaemonSocket # NULL => c = DaemonSocket /\ failed' = failed
         /\ "daemon" \notin Ends(c) => requests[c] = <<>> /\ pc[c] = "recv"
<1>1. CASE DaemonSocket = NULL
  <2>1. alive[c] = {} /\ up
    BY <1>1, Zenon DEF Open, NewConnection, Free
  <2>2. PICK g \in {Do("plain"), Do("FUSE_START_W_PATH")} :
           ipcMessage' = [ipcMessage EXCEPT ![c] = g]
    BY <1>1, Zenon DEF Open
  <2>3. failed' = failed \ {c}
    BY <1>1 DEF Open
  <2>4. g \in Command
    BY <2>2, CommandTypes DEF Simple
  <2>5. Quiet(c)
    BY <1>1, <2>1, NullAssumption DEF Wires, Quiet
  <2>6. \A d \in Conns : "app" \notin alive[d]
    BY <1>1, NullAssumption DEF Wires
  <2> QED BY <1>1, <2>1, <2>2, <2>3, <2>4, <2>5, <2>6 DEF RestTypeOK, Ends, Both, Quiet
<1>2. CASE DaemonSocket # NULL
  <2>1. c = DaemonSocket /\ ipcMessage' = ipcMessage /\ failed' = failed
    BY <1>2 DEF Open
  <2>2. "app" \in alive[c] /\ Ends(c) = alive[c]
    BY <1>2, <2>1 DEF Wires, Ends
  <2>3. c \notin failed => Quiet(c)
    BY <2>1 DEF InStep
  <2> QED BY <1>2, <2>1, <2>2, <2>3 DEF RestTypeOK, Wires
<1> QED BY <1>1, <1>2

LEMMA SendKeeps ==
  ASSUME RestTypeOK, Wires, InStep, NEW m \in Command, Send(m)
  PROVE  RestTypeOK' /\ Wires' /\ InStep'
<1> PICK c \in Conns :
       /\ Open(c)
       /\ requests' = [requests EXCEPT ![c] = IF "daemon" \in Ends(c) THEN Append(@, m) ELSE @]
       /\ IF m.cmd = "DEAMON_UPDATE"
          THEN /\ alive' = [alive EXCEPT ![c] = Ends(c) \ {"app"}]
               /\ replies' = [replies EXCEPT ![c] = <<>>]
               /\ DaemonSocket' = NULL /\ call' = NULL
          ELSE /\ alive' = [alive EXCEPT ![c] = Ends(c)]
               /\ DaemonSocket' = c /\ call' = m
               /\ UNCHANGED replies
  BY Zenon DEF Send
<1>1. call = NULL /\ UNCHANGED <<up, pc, fuse, fails>>
  BY DEF Send
<1>2. /\ ipcMessage' \in [Conns -> Command] /\ failed' \subseteq Conns
      /\ failed' \cup {c} = failed \cup {c}
      /\ Ends(c) \in SUBSET Both /\ "app" \in Ends(c)
      /\ "daemon" \in Ends(c) => up
      /\ \A d \in Conns \ {c} : "app" \notin alive[d] /\ ipcMessage'[d] = ipcMessage[d]
      /\ \A d \in Conns : "app" \in alive[d] => d = c
      /\ c \notin failed' => Quiet(c)
      /\ "daemon" \notin Ends(c) => requests[c] = <<>> /\ pc[c] = "recv"
  BY <1>1, OpenEffect, Zenon
<1>3. Append(requests[c], m) \in Seq(Command) /\ <<>> \in Seq(Reply)
  BY BufferTypes, EmptySeq DEF RestTypeOK
<1>4. requests' \in [Conns -> Seq(Command)]
  BY <1>3 DEF RestTypeOK
<1>5. alive' \in [Conns -> SUBSET Both] /\ replies' \in [Conns -> Seq(Reply)]
  <2>1. Ends(c) \in SUBSET Both /\ Ends(c) \ {"app"} \in SUBSET Both
    BY <1>2
  <2> QED BY <1>3, <2>1 DEF RestTypeOK
<1>6. RestTypeOK'
  BY <1>1, <1>2, <1>4, <1>5 DEF RestTypeOK, fuse
<1>7. Wires'
  <2>1. call' # NULL => DaemonSocket' # NULL
    BY NullAssumption
  <2>2. ASSUME NEW d \in Conns
        PROVE  /\ "app" \in alive'[d] <=> d = DaemonSocket'
               /\ d # DaemonSocket' => replies'[d] = <<>>
    BY <1>2, NullAssumption DEF Wires, RestTypeOK
  <2>3. ASSUME NEW d \in Conns, "daemon" \notin alive'[d]
        PROVE  requests'[d] = <<>> /\ pc'[d] = "recv"
    BY <1>1, <1>2, <2>3 DEF Wires, RestTypeOK
  <2>4. ASSUME NEW d \in Conns, ~up'
        PROVE  "daemon" \notin alive'[d]
    BY <1>1, <1>2, <2>4 DEF Wires, RestTypeOK
  <2> QED BY <2>1, <2>2, <2>3, <2>4 DEF Wires
<1>8. InStep'
  <2> SUFFICES ASSUME NEW d \in Conns, d = DaemonSocket', d \notin failed'
               PROVE  /\ call' # NULL
                      /\ Sent(d)' \/ ("daemon" \notin alive'[d] /\ Quiet(d)')
    BY DEF InStep
  <2>1. /\ d = c /\ call' = m /\ replies' = replies
        /\ alive' = [alive EXCEPT ![c] = Ends(c)]
    BY NullAssumption
  <2>2. Quiet(c)
    BY <1>2, <2>1
  <2>3. m # NULL /\ Append(<<>>, m) = <<m>>
    BY CommandTypes, OneMessage
  <2>4. CASE "daemon" \in Ends(c)
    <3>1. requests'[c] = <<m>>
      BY <2>2, <2>3, <2>4 DEF Quiet, RestTypeOK
    <3> QED BY <1>1, <2>1, <2>2, <2>3, <3>1 DEF Quiet, Sent
  <2>5. CASE "daemon" \notin Ends(c)
    BY <1>1, <2>1, <2>2, <2>3, <2>5 DEF Quiet, RestTypeOK
  <2> QED BY <2>4, <2>5
<1> QED BY <1>6, <1>7, <1>8

LEMMA ReceiveKeeps ==
  ASSUME RestTypeOK, Wires, InStep, NEW result, Receive(result)
  PROVE  RestTypeOK' /\ Wires' /\ InStep'
<1> DEFINE d == DaemonSocket
<1>1. d \in Conns /\ call # NULL /\ call' = NULL
  BY DEF Receive, Wires, RestTypeOK
<1>2. UNCHANGED <<requests, failed, up, threads, fuse, fails>>
  BY DEF Receive
<1>3. <<>> \in Seq(Reply) /\ (replies[d] # <<>> => Tail(replies[d]) \in Seq(Reply))
  BY <1>1, EmptySeq, BufferTypes DEF RestTypeOK
<1>4. CASE HangUp
  <2>1. /\ alive' = [alive EXCEPT ![d] = @ \ {"app"}] /\ DaemonSocket' = NULL
        /\ replies' = [replies EXCEPT ![d] = <<>>]
    BY <1>4 DEF HangUp
  <2>2. RestTypeOK'
    BY <1>1, <1>2, <1>3, <2>1 DEF RestTypeOK, threads, fuse
  <2>3. Wires'
    BY <1>1, <1>2, <2>1, NullAssumption DEF RestTypeOK, Wires, threads
  <2>4. InStep'
    BY <2>1, NullAssumption DEF InStep
  <2> QED BY <2>2, <2>3, <2>4
<1>5. CASE ~HangUp
  <2>1. /\ replies' = [replies EXCEPT ![d] = IF @ = <<>> THEN @ ELSE Tail(@)]
        /\ UNCHANGED <<alive, DaemonSocket>> /\ call.cmd \notin Exits
        /\ replies[d] = <<>> => "daemon" \notin alive[d]
    BY <1>5 DEF Receive
  <2>2. RestTypeOK'
    BY <1>1, <1>2, <1>3, <2>1 DEF RestTypeOK, threads, fuse
  <2>3. Wires'
    BY <1>1, <1>2, <2>1 DEF RestTypeOK, Wires, threads
  <2>4. ASSUME d \notin failed PROVE replies'[d] = <<>> /\ pc'[d] = "recv" /\ requests'[d] = <<>>
    <3>1. CASE replies[d] = <<>>
      BY <1>1, <1>2, <2>1, <3>1 DEF Wires, RestTypeOK, threads
    <3>2. CASE replies[d] # <<>>
      <4>1. Answered(d)
        BY <1>1, <2>4, <3>2 DEF InStep, Sent, Handled, Quiet
      <4>2. Tail(replies[d]) = <<>>
        BY <1>1, <4>1, OnlyMessage DEF Answered, RestTypeOK
      <4> QED BY <1>1, <1>2, <2>1, <3>2, <4>1, <4>2 DEF Answered, RestTypeOK, threads
    <3> QED BY <3>1, <3>2
  <2>5. InStep'
    BY <1>1, <1>2, <2>1, <2>4 DEF InStep, Quiet
  <2> QED BY <2>2, <2>3, <2>5
<1> QED BY <1>4, <1>5

-----------------------------------------------------------------------------
(* The steps of the daemon, for the types, the buffers and the answers *)

LEMMA AnswerEffect ==
  ASSUME RestTypeOK, NEW c \in Conns, NEW result \in Result, Answer(c, result)
  PROVE  /\ replies' \in [Conns -> Seq(Reply)]
         /\ \A d \in Conns : d # c \/ "app" \notin alive[d] => replies'[d] = replies[d]
         /\ "app" \in alive[c] /\ replies[c] = <<>> =>
              /\ replies'[c] # <<>> /\ Len(replies'[c]) = 1
              /\ Head(replies'[c]) = [to |-> ipcMessage[c], result |-> result]
<1> DEFINE r == [to |-> ipcMessage[c], result |-> result]
<1>1. r \in Reply
  BY DEF RestTypeOK, Reply
<1>2. replies' = [replies EXCEPT ![c] = IF "app" \in alive[c] THEN Append(@, r) ELSE @]
  BY DEF Answer
<1>3. Append(replies[c], r) \in Seq(Reply)
  BY <1>1, BufferTypes DEF RestTypeOK
<1>4. Append(<<>>, r) = <<r>> /\ <<r>> # <<>> /\ Len(<<r>>) = 1 /\ Head(<<r>>) = r
  BY <1>1, OneMessage, Zenon
<1> HIDE DEF r
<1>5. replies' \in [Conns -> Seq(Reply)]
  BY <1>2, <1>3 DEF RestTypeOK
<1>6. "app" \in alive[c] /\ replies[c] = <<>> => replies'[c] = <<r>>
  BY <1>2, <1>4 DEF RestTypeOK
<1>7. \A d \in Conns : d # c \/ "app" \notin alive[d] => replies'[d] = replies[d]
  BY <1>2 DEF RestTypeOK
<1> QED BY <1>4, <1>5, <1>6, <1>7 DEF r

\* A handler that ends with an answer.
LEMMA HandlerKeeps ==
  ASSUME RestTypeOK, Wires, InStep, NEW c \in Conns, NEW result \in Result,
         "daemon" \in alive[c], pc[c] \in {"run", "mounting"},
         NEW to \in {"recv", "exiting"}, to = "exiting" => ipcMessage[c].cmd \in Exits,
         Answer(c, result), Go(c, to),
         UNCHANGED <<app, alive, requests, failed, up, ipcMessage>>
  PROVE  /\ Wires' /\ InStep' /\ replies' \in [Conns -> Seq(Reply)]
         /\ c = DaemonSocket /\ c \notin failed =>
              /\ call # NULL /\ ipcMessage[c] = call /\ replies[c] = <<>>
              /\ pc[c] = "mounting" => call.cmd = "FUSE_START_W_PATH"
              /\ replies'[c] # <<>> /\ Head(replies'[c]).result = result
<1>1. /\ replies' \in [Conns -> Seq(Reply)]
      /\ \A d \in Conns : d # c \/ "app" \notin alive[d] => replies'[d] = replies[d]
      /\ "app" \in alive[c] /\ replies[c] = <<>> =>
           /\ replies'[c] # <<>> /\ Len(replies'[c]) = 1
           /\ Head(replies'[c]) = [to |-> ipcMessage[c], result |-> result]
  BY AnswerEffect, Zenon
<1>2. /\ pc' = [pc EXCEPT ![c] = to]
      /\ pc \in [Conns -> {"recv", "lock", "run", "mounting", "exiting", "stuck"}]
  BY DEF Go, RestTypeOK
<1>3. Wires'
  BY <1>1, <1>2 DEF Wires, app
<1>4. c = DaemonSocket /\ c \notin failed => call # NULL /\ Handled(c) /\ "app" \in alive[c]
  BY DEF InStep, Wires, Quiet, Sent, Answered
<1>5. InStep'
  <2> SUFFICES ASSUME NEW d \in Conns, d \notin failed, d = DaemonSocket
               PROVE  \/ call' = NULL /\ Quiet(d)'
                      \/ call' # NULL /\ (Sent(d)' \/ Handled(d)' \/ Answered(d)')
                      \/ call' # NULL /\ "daemon" \notin alive'[d] /\ Quiet(d)'
    BY DEF InStep, app
  <2>1. CASE d = c
    <3>1. call # NULL /\ Handled(c) /\ "app" \in alive[c]
      BY <1>4, <2>1
    <3>2. Answered(c)'
      BY <1>1, <1>2, <3>1 DEF Handled, Answered, app
    <3> QED BY <2>1, <3>1, <3>2 DEF app
  <2>2. CASE d # c
    <3>1. replies'[d] = replies[d] /\ pc'[d] = pc[d]
      BY <1>1, <1>2, <2>2
    <3> QED BY <3>1 DEF InStep, Sent, Handled, Answered, Quiet, app
  <2> QED BY <2>1, <2>2
<1> QED BY <1>1, <1>3, <1>4, <1>5 DEF Handled

LEMMA ServeKeeps ==
  ASSUME RestTypeOK, Wires, InStep, NEW c \in Conns, Serve(c) \/ ReceiveFails(c)
  PROVE  RestTypeOK' /\ Wires' /\ InStep'
<1>1. CASE ReceiveCommand(c)
  <2>1. /\ "daemon" \in alive[c] /\ pc[c] = "recv" /\ requests[c] # <<>>
        /\ ipcMessage' = [ipcMessage EXCEPT ![c] = Head(requests[c])]
        /\ requests' = [requests EXCEPT ![c] = Tail(@)]
        /\ pc' = [pc EXCEPT ![c] = "lock"]
        /\ UNCHANGED <<app, alive, replies, failed, up, fuse, fails>>
    BY <1>1 DEF ReceiveCommand, Go
  <2>2. Head(requests[c]) \in Command /\ Tail(requests[c]) \in Seq(Command)
    BY <2>1, BufferTypes DEF RestTypeOK
  <2>3. RestTypeOK'
    BY <2>1, <2>2 DEF RestTypeOK, app, fuse
  <2>4. Wires'
    BY <2>1 DEF Wires, RestTypeOK, app
  <2>5. ASSUME c = DaemonSocket, c \notin failed
        PROVE  call # NULL /\ Handled(c)'
    <3>1. call \in Command /\ Sent(c)
      BY <2>1, <2>5 DEF InStep, Handled, Answered, Quiet, RestTypeOK
    <3>2. Head(requests[c]) = call /\ Tail(requests[c]) = <<>>
      BY <3>1, OneMessage DEF Sent
    <3> QED BY <2>1, <3>1, <3>2, CommandTypes DEF Sent, Handled, RestTypeOK, app
  <2>6. InStep'
    BY <2>1, <2>5 DEF InStep, Sent, Handled, Answered, Quiet, RestTypeOK, app
  <2> QED BY <2>3, <2>4, <2>6
<1>2. CASE Disconnected(c)
  <2>1. /\ pc[c] = "recv" /\ requests[c] = <<>> /\ c # DaemonSocket
        /\ alive' = [alive EXCEPT ![c] = {}]
        /\ ipcMessage' = [ipcMessage EXCEPT ![c] = Do("plain")]
        /\ failed' = failed \ {c}
        /\ UNCHANGED <<app, requests, replies, up, pc, fuse, fails>>
    BY <1>2 DEF Disconnected, Wires
  <2>2. Do("plain") \in Command
    BY CommandTypes DEF Simple
  <2>3. RestTypeOK'
    BY <2>1, <2>2 DEF RestTypeOK, app, fuse
  <2>4. Wires'
    BY <2>1 DEF Wires, RestTypeOK, app
  <2>5. InStep'
    BY <2>1 DEF InStep, Sent, Handled, Answered, Quiet, RestTypeOK, app
  <2> QED BY <2>3, <2>4, <2>5
<1>3. CASE ReceiveFails(c) \/ Lock(c) \/ NeverEnds(c)
  <2>1. /\ "daemon" \in alive[c]
        /\ pc[c] \in {"recv", "lock", "run"} /\ (pc[c] = "recv" => c \in failed')
        /\ failed' \in {failed, failed \cup {c}} /\ fails' \in 0..MaxFails
        /\ \E to \in {"lock", "run", "stuck"} : pc' = [pc EXCEPT ![c] = to]
        /\ UNCHANGED <<app, alive, requests, replies, up, ipcMessage, fuse>>
    BY <1>3, FailsAssumption DEF ReceiveFails, Lock, NeverEnds, Runs, Handling, Go,
       RestTypeOK, wires
  <2>2. RestTypeOK'
    BY <2>1 DEF RestTypeOK, app, fuse
  <2>3. Wires'
    BY <2>1 DEF Wires, RestTypeOK, app
  <2>4. InStep'
    BY <2>1 DEF InStep, Sent, Handled, Answered, Quiet, RestTypeOK, app
  <2> QED BY <2>2, <2>3, <2>4
<1>4. CASE HandlePlain(c) \/ HandleExit(c)
  <2>1. PICK to \in {"recv", "exiting"} :
          /\ "daemon" \in alive[c] /\ pc[c] = "run"
          /\ to = "exiting" => ipcMessage[c].cmd \in Exits
          /\ Answer(c, "NO_ERROR") /\ Go(c, to)
          /\ UNCHANGED <<app, alive, requests, failed, up, ipcMessage, fuse, fails>>
    BY <1>4 DEF HandlePlain, HandleExit, Runs, Handling
  <2>2. Wires' /\ InStep' /\ replies' \in [Conns -> Seq(Reply)]
    BY <2>1, HandlerKeeps DEF Result
  <2> QED BY <2>1, <2>2 DEF RestTypeOK, app, fuse, Go
<1>5. CASE HandleSet(c)
  <2>1. PICK result \in Result :
          /\ "daemon" \in alive[c] /\ pc[c] = "run" /\ ipcMessage[c].cmd = "FUSE_SET_SESSION_IP"
          /\ Answer(c, result) /\ Go(c, "recv")
          /\ fuse_session_ip' \in {fuse_session_ip, ipcMessage[c].ip}
          /\ UNCHANGED <<app, alive, requests, failed, up, ipcMessage, mounted, fuse_ip_txt,
                         fuse_startup, fails>>
    BY <1>5 DEF HandleSet, set_fuse_session_ip, Runs, Handling, Result
  <2>2. Wires' /\ InStep' /\ replies' \in [Conns -> Seq(Reply)]
    BY <2>1, HandlerKeeps
  <2>3. ipcMessage[c].ip \in Share
    BY CommandTypes DEF RestTypeOK
  <2> QED BY <2>1, <2>2, <2>3 DEF RestTypeOK, app, Go
<1>6. CASE HandleStart(c)
  <2>1. /\ "daemon" \in alive[c] /\ pc[c] = "run" /\ ipcMessage[c].cmd = "FUSE_START_W_PATH"
        /\ UNCHANGED <<app, alive, requests, failed, up, ipcMessage, fuse_session_ip,
                       fuse_ip_txt, fuse_startup, fails>>
    BY <1>6 DEF HandleStart, Runs, Handling
  <2>2. CASE fuse_session_ip = NULL
    <3>1. Answer(c, "FUSE_IP_NOT_SET") /\ Go(c, "recv") /\ mounted' = mounted
      BY <1>6, <2>2 DEF HandleStart, NotSet
    <3>2. Wires' /\ InStep' /\ replies' \in [Conns -> Seq(Reply)]
      BY <2>1, <3>1, HandlerKeeps DEF Result
    <3> QED BY <2>1, <3>1, <3>2 DEF RestTypeOK, app, Go
  <2>3. CASE fuse_session_ip # NULL
    <3>1. /\ mounted' = fuse_session_ip /\ replies' = replies
          /\ pc' = [pc EXCEPT ![c] = "mounting"]
      BY <1>6, <2>3 DEF HandleStart, Go
    <3>2. RestTypeOK' /\ Wires'
      BY <2>1, <3>1 DEF RestTypeOK, Wires, app
    <3>3. InStep'
      BY <2>1, <3>1 DEF InStep, Sent, Handled, Answered, Quiet, RestTypeOK, app
    <3> QED BY <3>2, <3>3
  <2> QED BY <2>2, <2>3
<1>7. CASE Mounted(c)
  <2>1. PICK result \in Result :
          /\ "daemon" \in alive[c] /\ pc[c] = "mounting"
          /\ Answer(c, result) /\ Go(c, "recv")
          /\ mounted' \in {mounted, NULL} /\ fuse_ip_txt' \in {fuse_session_ip, fuse_ip_txt}
          /\ fuse_session_ip' = NULL
          /\ UNCHANGED <<app, alive, requests, failed, up, ipcMessage, fuse_startup, fails>>
    BY <1>7 DEF Mounted, Handling, Result
  <2>2. Wires' /\ InStep' /\ replies' \in [Conns -> Seq(Reply)]
    BY <2>1, HandlerKeeps
  <2> QED BY <2>1, <2>2 DEF RestTypeOK, app, Go, Share
<1> QED BY <1>1, <1>2, <1>3, <1>4, <1>5, <1>6, <1>7 DEF Serve

LEMMA ProcessKeeps ==
  ASSUME RestTypeOK, Wires, InStep,
         Exit \/ DaemonDies \/ Boot \/ StartupReads \/ StartupMounts \/ StartupEnds
  PROVE  RestTypeOK' /\ Wires' /\ InStep'
<1>1. CASE Gone
  <2>1. /\ up' = FALSE
        /\ alive' = [c \in Conns |-> alive[c] \ {"daemon"}]
        /\ requests' = [c \in Conns |-> <<>>] /\ pc' = [c \in Conns |-> "recv"]
        /\ ipcMessage' = [c \in Conns |-> Do("plain")]
        /\ failed' = {c \in failed : c = DaemonSocket}
        /\ fuse_session_ip' = NULL /\ mounted' = NULL /\ fuse_startup' = "done"
        /\ UNCHANGED <<app, replies, fuse_ip_txt, fails>>
    BY <1>1 DEF Gone
  <2>2. Do("plain") \in Command /\ <<>> \in Seq(Command) /\ NULL \in Share
    BY CommandTypes, EmptySeq DEF Simple, Share
  <2>3. alive' \in [Conns -> SUBSET Both]
    BY <2>1 DEF RestTypeOK
  <2>4. RestTypeOK'
    BY <2>1, <2>2, <2>3 DEF RestTypeOK, app
  <2>5. Wires'
    BY <2>1 DEF Wires, app
  <2>6. InStep'
    BY <2>1 DEF InStep, Sent, Handled, Answered, Quiet, app
  <2> QED BY <2>4, <2>5, <2>6
<1>2. CASE Boot \/ StartupReads \/ StartupMounts \/ StartupEnds
  <2>1. /\ up' = TRUE /\ fuse_startup' \in {"read", "start", "mounting", "done"}
        /\ fuse_session_ip' \in Share /\ mounted' \in Share
        /\ UNCHANGED <<app, wires, threads, fuse_ip_txt, fails>>
    BY <1>2 DEF Boot, StartupReads, StartupMounts, StartupEnds, RestTypeOK, Share
  <2>2. RestTypeOK' /\ Wires'
    BY <2>1 DEF RestTypeOK, Wires, app, wires, threads
  <2>3. InStep'
    BY <2>1 DEF InStep, Sent, Handled, Answered, Quiet, app, wires, threads
  <2> QED BY <2>2, <2>3
<1> QED BY <1>1, <1>2 DEF Exit, DaemonDies

-----------------------------------------------------------------------------
(* The steps of the app *)

AppStep == SendOther \/ SendSet \/ SendStart \/ CannotStart \/ AppReceives \/ AppDies

LEMMA AppKeeps ==
  ASSUME RestTypeOK, Wires, InStep, AppStep
  PROVE  RestTypeOK' /\ Wires' /\ InStep'
<1>1. CASE SendOther \/ SendSet \/ SendStart
  <2>1. PICK m \in Command : Send(m)
    BY <1>1, CommandTypes DEF SendOther, SendSet, SendStart, Exits, Simple
  <2> QED BY <2>1, SendKeeps
<1>2. CASE AppReceives
  <2>1. \E result \in Result \cup {"INVALID"} : Receive(result)
    BY <1>2 DEF AppReceives, ReceiveOther, ReceiveSet, ReceiveStart
  <2> QED BY <2>1, ReceiveKeeps
<1>3. CASE CannotStart
  BY <1>3 DEF CannotStart, CannotSend, RestTypeOK, Wires, InStep, Sent, Handled, Answered, Quiet,
              wires, threads, fuse
<1>4. CASE AppDies
  <2>1. call' = NULL /\ UNCHANGED <<requests, failed, up, threads, fuse, fails>>
    BY <1>4 DEF AppDies
  <2>2. CASE DaemonSocket = NULL
    <3>1. UNCHANGED <<alive, replies, DaemonSocket>>
      BY <1>4, <2>2 DEF AppDies
    <3> QED BY <2>1, <2>2, <3>1, NullAssumption DEF RestTypeOK, Wires, InStep, threads, fuse
  <2>3. CASE DaemonSocket # NULL
    <3>1. /\ alive' = [alive EXCEPT ![DaemonSocket] = @ \ {"app"}] /\ DaemonSocket' = NULL
          /\ replies' = [replies EXCEPT ![DaemonSocket] = <<>>]
      BY <1>4, <2>3 DEF AppDies, HangUp
    <3>2. <<>> \in Seq(Reply) /\ DaemonSocket \in Conns
      BY <2>3, EmptySeq DEF RestTypeOK
    <3>3. alive' \in [Conns -> SUBSET Both]
      BY <3>1, <3>2 DEF RestTypeOK
    <3>4. RestTypeOK'
      BY <2>1, <3>1, <3>2, <3>3 DEF RestTypeOK, threads, fuse
    <3>5. Wires' /\ InStep'
      BY <2>1, <3>1, <3>2, NullAssumption DEF RestTypeOK, Wires, InStep, threads
    <3> QED BY <3>4, <3>5
  <2> QED BY <2>2, <2>3
<1> QED BY <1>1, <1>2, <1>3, <1>4 DEF AppStep

LEMMA NullShare == NULL \notin IPs /\ NULL \notin Conns /\ NULL \notin Command
  BY NullAssumption, NoCommandAssumption

LEMMA MountStep ==
  ASSUME TypeOK, Wires, InStep, MountCalls, AppStep
  PROVE  mount' \in MountType /\ MountCalls'
<1>1. mount \in MountType /\ RestTypeOK /\ NotMounting \in MountType
  BY TypeParts DEF MountType, NotMounting, Share
<1> DEFINE Resets == mount' = NotMounting
<1>2. CASE Resets
  BY <1>1, <1>2 DEF MountCalls, NotMounting
<1>3. CASE SendOther
  <2>1. PICK cmd \in {"plain"} \cup (IF mount.pc = "idle" THEN Exits ELSE {}) : Send(Do(cmd))
    BY <1>3 DEF SendOther
  <2>2. mount' = mount /\ (mount.pc \in {"setting", "starting"} => call = NULL)
    BY <1>3 DEF SendOther
  <2>3. mount.pc \notin {"setting", "starting"}
    BY <2>2, CommandTypes, <1>1 DEF MountCalls, MountType, Share, Simple
  <2>4. mount.pc = "set" => call' = Do("plain")
    BY <2>1 DEF Send, Do
  <2> QED BY <1>1, <2>2, <2>3, <2>4 DEF MountCalls
<1>4. CASE SendSet
  <2>1. PICK ip \in IPs :
          /\ Send(SetIP(ip))
          /\ mount' = [pc |-> "setting", ip |-> ip, set |-> "INVALID", alone |-> NobodyElse]
    BY <1>4 DEF SendSet
  <2>2. call' = SetIP(ip) /\ NobodyElse \in BOOLEAN
    BY <2>1 DEF Send, SetIP, NobodyElse
  <2> QED BY <2>1, <2>2, NullShare DEF MountCalls, MountType, Share, Result
<1>5. CASE SendStart
  <2>1. call' = Do("FUSE_START_W_PATH")
    BY <1>5 DEF SendStart, Send, Do
  <2> QED BY <1>1, <1>5, <2>1 DEF SendStart, MountCalls, MountType
<1>6. CASE ReceiveOther
  <2>1. /\ call' = NULL /\ call # NULL
        /\ mount' = [mount EXCEPT !.alone = @ /\ DaemonSocket' # NULL]
        /\ mount.pc = "setting" => call.cmd # "FUSE_SET_SESSION_IP"
        /\ mount.pc = "starting" => call.cmd # "FUSE_START_W_PATH"
    BY <1>6 DEF ReceiveOther, Receive
  <2>2. mount.pc \in {"idle", "set"}
    BY <1>1, <2>1 DEF MountCalls, MountType, SetIP, Do
  <2>3. mount.pc = "idle" => mount' = NotMounting
    BY <1>1, <2>1 DEF MountCalls, MountType, NotMounting
  <2> QED BY <1>1, <2>1, <2>2, <2>3 DEF MountCalls, MountType
<1>7. CASE ReceiveSet
  <2>1. PICK result \in Result \cup {"INVALID"} :
          call' = NULL /\ mount' = [mount EXCEPT !.pc = "set", !.set = result]
    BY <1>7 DEF ReceiveSet, Receive
  <2>2. mount.pc = "setting"
    BY <1>7 DEF ReceiveSet
  <2> QED BY <1>1, <2>1, <2>2 DEF MountCalls, MountType
<1>8. CASE CannotStart \/ AppDies \/ \E result \in Result \cup {"INVALID"} : ReceiveStart(result)
  BY <1>2, <1>8 DEF CannotStart, AppDies, ReceiveStart
<1> QED BY <1>3, <1>4, <1>5, <1>6, <1>7, <1>8 DEF AppStep, AppReceives

\* What the app does keeps fuse_session_ip the mount's own.
LEMMA MountOwns ==
  ASSUME IInv, AppStep, MountOwnsIp, RestTypeOK', Wires', InStep'
  PROVE  MountOwnsIp'
<1> SUFFICES ASSUME Undisturbed' PROVE MountOwnsIp'
  BY DEF MountOwnsIp
<1>1. mount \in MountType /\ RestTypeOK /\ Wires /\ InStep /\ MountCalls /\ MountOwnsIp
  BY TypeParts DEF IInv
<1>2. mount' # NotMounting
  BY DEF Undisturbed, NotMounting
<1>3. ASSUME NEW m \in Command, Send(m), m.cmd # "DEAMON_UPDATE"
      PROVE  /\ DaemonSocket' \in Conns /\ UNCHANGED <<up, pc, fuse, replies>>
             /\ replies'[DaemonSocket'] = <<>> /\ pc'[DaemonSocket'] = "recv"
             /\ DaemonSocket # NULL => UNCHANGED <<DaemonSocket, alive, failed>>
             /\ \A d \in Conns \ {DaemonSocket'} : alive'[d] = alive[d]
  <2>1. PICK c \in Conns : /\ Open(c) /\ alive' = [alive EXCEPT ![c] = Ends(c)]
                           /\ DaemonSocket' = c /\ UNCHANGED replies
    BY <1>3, Zenon DEF Send
  <2>2. call = NULL /\ UNCHANGED <<up, pc, fuse>>
    BY <1>3 DEF Send
  <2>3. c \notin failed' => Quiet(c)
    BY <1>1, <2>1, <2>2, OpenEffect, Zenon
  <2>4. Quiet(c)
    BY <2>1, <2>3 DEF Undisturbed
  <2>5. DaemonSocket # NULL => c = DaemonSocket /\ failed' = failed /\ Ends(c) = alive[c]
    BY <2>1 DEF Open, Ends
  <2> QED BY <1>1, <2>1, <2>2, <2>4, <2>5 DEF Quiet, RestTypeOK
<1>4. CASE SendOther
  <2>1. PICK cmd \in {"plain"} \cup (IF mount.pc = "idle" THEN Exits ELSE {}) : Send(Do(cmd))
    BY <1>4 DEF SendOther
  <2>2. mount' = mount /\ (mount.pc \in {"setting", "starting"} => call = NULL)
    BY <1>4 DEF SendOther
  <2>3. mount.pc = "set"
    BY <1>1, <1>2, <2>2, CommandTypes DEF MountCalls, MountType, Share, Simple
  <2>4. Do("plain") \in Command /\ Send(Do("plain")) /\ Do("plain").cmd # "DEAMON_UPDATE"
    BY <2>1, <2>3, CommandTypes DEF Simple, Do
  <2>5. /\ UNCHANGED <<pc, fuse, replies>>
        /\ DaemonSocket # NULL => UNCHANGED <<DaemonSocket, alive, failed>>
    BY <1>3, <2>4
  <2>6. Undisturbed /\ DaemonSocket # NULL
    BY <1>1, <2>2, <2>3, <2>5, NullShare DEF Undisturbed, MountOwnsIp, RestTypeOK
  <2> QED BY <1>1, <2>2, <2>3, <2>5, <2>6 DEF MountOwnsIp, fuse
<1>5. CASE SendSet
  <2>1. PICK ip \in IPs :
          /\ Send(SetIP(ip))
          /\ mount' = [pc |-> "setting", ip |-> ip, set |-> "INVALID", alone |-> NobodyElse]
    BY <1>5 DEF SendSet
  <2>2. SetIP(ip) \in Command /\ SetIP(ip).cmd # "DEAMON_UPDATE"
    BY CommandTypes DEF SetIP
  <2>3. /\ DaemonSocket' \in Conns /\ replies'[DaemonSocket'] = <<>> /\ UNCHANGED fuse
        /\ DaemonSocket # NULL => DaemonSocket' = DaemonSocket
        /\ \A d \in Conns \ {DaemonSocket'} : alive'[d] = alive[d]
    BY <1>3, <2>1, <2>2
  <2>4. NobodyElse
    BY <2>1 DEF Undisturbed
  <2> QED BY <1>1, <2>1, <2>3, <2>4, NullShare DEF MountOwnsIp, NobodyElse, RestTypeOK, fuse
<1>6. CASE SendStart
  <2>1. /\ mount.pc = "set" /\ mount' = [mount EXCEPT !.pc = "starting"]
        /\ Send(Do("FUSE_START_W_PATH"))
    BY <1>6 DEF SendStart
  <2>2. Do("FUSE_START_W_PATH") \in Command /\ Do("FUSE_START_W_PATH").cmd # "DEAMON_UPDATE"
    BY CommandTypes DEF Simple, Do
  <2>3. /\ replies'[DaemonSocket'] = <<>> /\ pc'[DaemonSocket'] = "recv" /\ UNCHANGED fuse
        /\ DaemonSocket # NULL => UNCHANGED <<DaemonSocket, alive, failed>>
    BY <1>3, <2>1, <2>2
  <2>4. mount'.pc = "starting" /\ mount'.ip = mount.ip /\ mount'.alone = mount.alone
        /\ mount'.set = mount.set
    BY <1>1, <2>1 DEF MountType
  <2>5. Undisturbed /\ DaemonSocket # NULL
    BY <1>1, <2>1, <2>3, <2>4, NullShare DEF Undisturbed, MountOwnsIp, RestTypeOK
  <2> QED BY <1>1, <2>1, <2>3, <2>4, <2>5 DEF MountOwnsIp, fuse
<1>7. ASSUME NEW result, Receive(result), DaemonSocket' # NULL
      PROVE  UNCHANGED <<DaemonSocket, alive, failed, fuse, pc>>
  BY <1>7 DEF Receive, HangUp, threads
<1>8. CASE ReceiveOther
  <2>1. PICK result : Receive(result)
    BY <1>8 DEF ReceiveOther
  <2>2. /\ call # NULL /\ mount' = [mount EXCEPT !.alone = @ /\ DaemonSocket' # NULL]
        /\ mount.pc = "setting" => call.cmd # "FUSE_SET_SESSION_IP"
        /\ mount.pc = "starting" => call.cmd # "FUSE_START_W_PATH"
    BY <1>8 DEF ReceiveOther
  <2>3. mount.alone /\ DaemonSocket' # NULL
    BY <1>1, <2>2 DEF Undisturbed, MountType
  <2>4. mount.pc = "set"
    BY <1>1, <2>2, <2>3 DEF MountCalls, MountType, SetIP, Do, NotMounting
  <2>5. mount'.pc = "set" /\ mount'.ip = mount.ip /\ mount'.set = mount.set
    BY <1>1, <2>2, <2>4 DEF MountType
  <2>6. UNCHANGED <<DaemonSocket, alive, failed, fuse, pc>>
    BY <1>7, <2>1, <2>3
  <2>7. Undisturbed
    BY <2>3, <2>4, <2>5, <2>6 DEF Undisturbed
  <2> QED BY <1>1, <2>4, <2>5, <2>6, <2>7 DEF MountOwnsIp, fuse
<1>9. CASE ReceiveSet
  <2>1. PICK result \in Result \cup {"INVALID"} :
          Receive(result) /\ mount' = [mount EXCEPT !.pc = "set", !.set = result]
    BY <1>9 DEF ReceiveSet
  <2>2. mount.pc = "setting" /\ call.cmd = "FUSE_SET_SESSION_IP"
    BY <1>9 DEF ReceiveSet
  <2>3. /\ mount'.pc = "set" /\ mount'.ip = mount.ip /\ mount'.alone = mount.alone
        /\ result = "NO_ERROR"
    BY <1>1, <2>1 DEF Undisturbed, MountType
  <2>4. replies[DaemonSocket] # <<>> /\ Head(replies[DaemonSocket]).result = "NO_ERROR"
    BY <2>1, <2>3 DEF Receive
  <2>5. UNCHANGED <<DaemonSocket, alive, failed, fuse, pc>>
    BY <2>1, <2>2, <2>4 DEF Receive, Exits, threads
  <2>6. Undisturbed
    BY <2>2, <2>3, <2>5 DEF Undisturbed
  <2> QED BY <1>1, <2>2, <2>3, <2>4, <2>5, <2>6 DEF MountOwnsIp, fuse
<1>10. CASE CannotStart \/ AppDies \/ \E result \in Result \cup {"INVALID"} : ReceiveStart(result)
  BY <1>2, <1>10 DEF CannotStart, AppDies, ReceiveStart
<1> QED BY <1>4, <1>5, <1>6, <1>8, <1>9, <1>10 DEF AppStep, AppReceives

-----------------------------------------------------------------------------
(* The steps of the daemon leave the mount its fuse_session_ip *)

LEMMA ServeOwns ==
  ASSUME IInv, NEW c \in Conns, Serve(c) \/ ReceiveFails(c), InStep'
  PROVE  MountOwnsIp'
<1>1. mount \in MountType /\ RestTypeOK /\ Wires /\ InStep /\ MountCalls /\ MountOwnsIp
  BY TypeParts DEF IInv
<1>2. UNCHANGED app
  BY DEF Serve, ReceiveCommand, Disconnected, Lock, ReceiveFails, NeverEnds, HandlePlain, HandleSet,
         HandleStart, Mounted, HandleExit
<1> SUFFICES ASSUME Undisturbed' PROVE MountOwnsIp'
  BY DEF MountOwnsIp
<1>3. CASE Disconnected(c)
  <2>1. /\ c # DaemonSocket /\ alive' = [alive EXCEPT ![c] = {}] /\ failed' = failed \ {c}
        /\ UNCHANGED <<replies, pc, fuse>>
    BY <1>1, <1>3 DEF Disconnected, Wires
  <2>2. Undisturbed
    BY <1>2, <2>1 DEF Undisturbed, app
  <2> QED BY <1>1, <1>2, <2>1, <2>2 DEF MountOwnsIp, RestTypeOK, app, fuse
<1>4. CASE ~Disconnected(c)
  <2>1. "daemon" \in alive[c] /\ failed \subseteq failed' /\ alive' = alive
    BY <1>4 DEF Serve, ReceiveCommand, Lock, ReceiveFails, NeverEnds, HandlePlain, HandleSet,
                HandleStart, Mounted, HandleExit, Runs, Handling, wires
  <2>2. Undisturbed
    BY <1>2, <2>1 DEF Undisturbed, app
  <2>3. c = DaemonSocket /\ c \notin failed' /\ c \notin failed /\ mount.ip # NULL
    BY <1>1, <1>2, <2>1, <2>2 DEF MountOwnsIp, Undisturbed, MountCalls, NotMounting, app
  <2>4. call # NULL =>
          \/ mount.pc = "setting" /\ call.cmd = "FUSE_SET_SESSION_IP" /\ call.ip = mount.ip
          \/ mount.pc = "set" /\ call.cmd = "plain"
          \/ mount.pc = "starting" /\ call.cmd = "FUSE_START_W_PATH"
    BY <1>1, <2>2 DEF MountCalls, MountType, SetIP, Do, NotMounting, Undisturbed
  <2>5. CASE ReceiveCommand(c) \/ Lock(c) \/ ReceiveFails(c) \/ NeverEnds(c)
    <3>1. UNCHANGED <<replies, fuse>> /\ pc'[c] # "mounting"
      BY <1>1, <2>5 DEF ReceiveCommand, Lock, ReceiveFails, NeverEnds, Go, wires, RestTypeOK
    <3> QED BY <1>1, <1>2, <2>1, <2>2, <2>3, <3>1 DEF MountOwnsIp, app, fuse
  <2>6. ASSUME NEW result \in Result, NEW to \in {"recv", "exiting"},
               pc[c] \in {"run", "mounting"}, to = "exiting" => ipcMessage[c].cmd \in Exits,
               Answer(c, result), Go(c, to),
               UNCHANGED <<requests, failed, up, ipcMessage>>
        PROVE  /\ call # NULL /\ ipcMessage[c] = call /\ replies[c] = <<>>
               /\ pc[c] = "mounting" => call.cmd = "FUSE_START_W_PATH"
               /\ replies'[c] # <<>> /\ Head(replies'[c]).result = result /\ pc'[c] = to
    <3>1. pc'[c] = to
      BY <1>1, <2>6 DEF Go, RestTypeOK
    <3> QED BY <1>1, <1>2, <2>1, <2>3, <2>6, <3>1, HandlerKeeps
  <2>7. CASE HandlePlain(c) \/ HandleExit(c)
    <3>1. PICK to \in {"recv", "exiting"} :
            /\ pc[c] = "run" /\ ipcMessage[c].cmd \in {"plain"} \cup Exits
            /\ to = "exiting" => ipcMessage[c].cmd \in Exits
            /\ Answer(c, "NO_ERROR") /\ Go(c, to)
            /\ UNCHANGED <<requests, failed, up, ipcMessage, fuse>>
      BY <2>7 DEF HandlePlain, HandleExit, Runs
    <3>2. call # NULL /\ ipcMessage[c] = call /\ pc'[c] = to
      BY <2>6, <3>1 DEF Result
    <3>3. mount.pc = "set"
      BY <2>4, <3>1, <3>2 DEF Exits
    <3> QED BY <1>1, <1>2, <2>1, <2>2, <2>3, <3>1, <3>3 DEF MountOwnsIp, app, fuse
  <2>8. CASE HandleSet(c)
    <3>1. PICK result \in Result :
            /\ pc[c] = "run" /\ ipcMessage[c].cmd = "FUSE_SET_SESSION_IP"
            /\ Answer(c, result) /\ Go(c, "recv")
            /\ result = "NO_ERROR" => fuse_session_ip' = ipcMessage[c].ip
            /\ UNCHANGED <<requests, failed, up, ipcMessage, fuse_startup>>
      BY <2>8 DEF HandleSet, set_fuse_session_ip, Runs, Result
    <3>2. call # NULL /\ ipcMessage[c] = call /\ Head(replies'[c]).result = result
      BY <2>6, <3>1
    <3>3. mount.pc = "setting" /\ ipcMessage[c].ip = mount.ip
      BY <2>4, <3>1, <3>2
    <3> QED BY <1>1, <1>2, <2>1, <2>2, <2>3, <3>1, <3>2, <3>3 DEF MountOwnsIp, app
  <2>9. CASE HandleStart(c)
    <3>1. /\ pc[c] = "run" /\ ipcMessage[c].cmd = "FUSE_START_W_PATH"
          /\ UNCHANGED <<requests, failed, up, ipcMessage, fuse_session_ip, fuse_startup>>
      BY <2>9 DEF HandleStart, Runs
    <3>2. call # NULL /\ ipcMessage[c] = call /\ replies[c] = <<>>
      BY <1>1, <2>3, <3>1 DEF InStep, Sent, Handled, Answered, Quiet
    <3>3. mount.pc = "starting"
      BY <2>4, <3>1, <3>2
    <3>4. fuse_session_ip = mount.ip
      BY <1>1, <2>1, <2>2, <2>3, <3>2, <3>3 DEF MountOwnsIp
    <3>5. mounted' = fuse_session_ip /\ replies' = replies
      BY <2>3, <2>9, <3>4 DEF HandleStart
    <3> QED BY <1>1, <1>2, <2>1, <2>2, <2>3, <3>1, <3>2, <3>3, <3>4, <3>5 DEF MountOwnsIp, app
  <2>10. CASE Mounted(c)
    <3>1. PICK result \in Result :
            /\ pc[c] = "mounting" /\ Answer(c, result) /\ Go(c, "recv")
            /\ mounted' \in {mounted, NULL} /\ fuse_session_ip' = NULL
            /\ result = "NO_ERROR" => fuse_ip_txt' = fuse_session_ip
            /\ UNCHANGED <<requests, failed, up, ipcMessage, fuse_startup>>
      BY <2>10 DEF Mounted, Result
    <3>2. /\ call # NULL /\ call.cmd = "FUSE_START_W_PATH" /\ replies[c] = <<>>
          /\ replies'[c] # <<>> /\ Head(replies'[c]).result = result /\ pc'[c] = "recv"
      BY <2>6, <3>1
    <3>3. mount.pc = "starting"
      BY <2>4, <3>2
    <3>4. fuse_session_ip = mount.ip /\ mounted = mount.ip
      BY <1>1, <2>1, <2>2, <2>3, <3>1, <3>2, <3>3 DEF MountOwnsIp
    <3> QED BY <1>1, <1>2, <2>1, <2>2, <2>3, <3>1, <3>2, <3>3, <3>4 DEF MountOwnsIp, app
  <2> QED BY <1>4, <2>5, <2>7, <2>8, <2>9, <2>10 DEF Serve
<1> QED BY <1>3, <1>4

LEMMA ProcessOwns ==
  ASSUME IInv, Exit \/ DaemonDies \/ Boot \/ StartupReads \/ StartupMounts \/ StartupEnds
  PROVE  MountOwnsIp'
<1>1. mount \in MountType /\ RestTypeOK /\ Wires /\ MountOwnsIp
  BY TypeParts DEF IInv
<1>2. CASE Gone
  <2>1. /\ alive' = [c \in Conns |-> alive[c] \ {"daemon"}]
        /\ pc' = [c \in Conns |-> "recv"]
        /\ failed' = {c \in failed : c = DaemonSocket}
        /\ fuse_session_ip' = NULL /\ mounted' = NULL
        /\ UNCHANGED <<app, replies, fuse_ip_txt>>
    BY <1>2 DEF Gone
  <2>2. Undisturbed' => Undisturbed
    BY <2>1 DEF Undisturbed, app
  <2>3. DaemonSocket \in Conns => /\ pc'[DaemonSocket] = "recv"
                                  /\ "daemon" \notin alive'[DaemonSocket]
    BY <2>1
  <2> QED BY <1>1, <2>1, <2>2, <2>3 DEF MountOwnsIp, RestTypeOK, app
<1>3. CASE Boot \/ StartupReads \/ StartupMounts \/ StartupEnds
  <2>1. UNCHANGED <<app, wires, threads, fuse_ip_txt>>
    BY <1>3 DEF Boot, StartupReads, StartupMounts, StartupEnds
  <2>2. Undisturbed' = Undisturbed
    BY <2>1 DEF Undisturbed, app, wires
  <2>3. Undisturbed => "daemon" \notin alive[DaemonSocket] /\ pc[DaemonSocket] = "recv"
    BY <1>1, <1>3 DEF MountOwnsIp, Wires, RestTypeOK, Boot, StartupReads, StartupMounts, StartupEnds
  <2>4. \/ UNCHANGED <<fuse_session_ip, mounted>>
        \/ fuse_session_ip' \in {fuse_session_ip, NULL, fuse_ip_txt} /\ UNCHANGED mounted
        \/ UNCHANGED fuse_session_ip /\ mounted' = fuse_session_ip
        \/ fuse_session_ip' = NULL /\ mounted' \in {mounted, NULL}
    BY <1>3 DEF Boot, StartupReads, StartupMounts, StartupEnds
  <2> QED BY <1>1, <2>1, <2>2, <2>3, <2>4 DEF MountOwnsIp, app, wires, threads
<1> QED BY <1>2, <1>3 DEF Exit, DaemonDies

-----------------------------------------------------------------------------
LEMMA InitIInv == Init => IInv
<1> SUFFICES ASSUME Init PROVE IInv
  OBVIOUS
<1>1. Do("plain") \in Command /\ <<>> \in Seq(Command) /\ <<>> \in Seq(Reply) /\ NULL \in Share
  BY CommandTypes, EmptySeq DEF Simple, Share
<1>2. NotMounting \in MountType
  BY DEF NotMounting, MountType, Share
<1>3. TypeOK
  BY <1>1, <1>2, TypeParts, FailsAssumption DEF Init, RestTypeOK
<1>4. Wires /\ InStep /\ MountCalls /\ MountOwnsIp
  BY NullAssumption DEF Init, Wires, InStep, MountCalls, MountOwnsIp, Undisturbed, NotMounting
<1> QED BY <1>3, <1>4 DEF IInv

LEMMA NextIInv == IInv /\ [Next]_vars => IInv'
<1> SUFFICES ASSUME IInv, [Next]_vars PROVE IInv'
  OBVIOUS
<1>1. mount \in MountType /\ RestTypeOK /\ Wires /\ InStep /\ MountCalls /\ MountOwnsIp
  BY TypeParts DEF IInv
<1>2. CASE AppStep
  <2>1. RestTypeOK' /\ Wires' /\ InStep'
    BY <1>1, <1>2, AppKeeps
  <2>2. mount' \in MountType /\ MountCalls'
    BY <1>2, MountStep DEF IInv
  <2>3. MountOwnsIp'
    BY <1>1, <1>2, <2>1, MountOwns
  <2>4. TypeOK'
    BY <2>1, <2>2 DEF TypeOK, RestTypeOK, MountType
  <2> QED BY <2>1, <2>2, <2>3, <2>4 DEF IInv
<1>3. ASSUME \/ \E c \in Conns : Serve(c) \/ ReceiveFails(c)
             \/ Exit \/ DaemonDies \/ Boot \/ StartupReads \/ StartupMounts \/ StartupEnds
      PROVE  IInv'
  <2>1. RestTypeOK' /\ Wires' /\ InStep'
    BY <1>1, <1>3, ServeKeeps, ProcessKeeps
  <2>2. UNCHANGED app
    BY <1>3 DEF Serve, ReceiveCommand, Disconnected, Lock, ReceiveFails, NeverEnds,
        HandlePlain, HandleSet,
                HandleStart, Mounted, HandleExit, Exit, DaemonDies, Gone, Boot, StartupReads,
                StartupMounts, StartupEnds
  <2>3. MountOwnsIp'
    BY <1>3, <2>1, ServeOwns, ProcessOwns
  <2>4. mount' \in MountType /\ MountCalls'
    BY <1>1, <2>2 DEF MountCalls, app
  <2>5. TypeOK'
    BY <2>1, <2>4 DEF TypeOK, RestTypeOK, MountType
  <2> QED BY <2>1, <2>3, <2>4, <2>5 DEF IInv
<1>4. CASE UNCHANGED vars
  <2> USE DEF vars, app, wires, threads, fuse
  <2>1. TypeOK' /\ Wires' /\ MountCalls'
    BY <1>1, <1>4 DEF IInv, TypeOK, Wires, MountCalls
  <2>2. InStep' /\ MountOwnsIp'
    BY <1>1, <1>4 DEF InStep, Sent, Handled, Answered, Quiet, MountOwnsIp, Undisturbed
  <2> QED BY <2>1, <2>2 DEF IInv
<1> QED BY <1>2, <1>3, <1>4 DEF Next, AppStep

\* The connections, buffers and threads have their types.
THEOREM Typed == Spec => []TypeOK
<1>1. IInv => TypeOK
  BY DEF IInv
<1> QED BY InitIInv, NextIInv, <1>1, PTL DEF Spec

\* IPCReceiveData reads the answer to the command that was sent, for any
\* number of connections, crashes of app and daemon, and refused mounts, as
\* long as recv has not failed on the connection.
THEOREM InStepWithCommands == Spec => []AnswersInStep
<1>1. IInv => AnswersInStep
  <2> SUFFICES ASSUME IInv, NEW c \in Conns \ failed, "app" \in alive[c], replies[c] # <<>>
               PROVE  call # NULL /\ c = DaemonSocket /\ Len(replies[c]) = 1
                      /\ Head(replies[c]).to = call
    BY DEF AnswersInStep
  <2>1. c = DaemonSocket
    BY DEF IInv, Wires
  <2> QED BY <2>1 DEF IInv, InStep, Quiet, Sent, Handled, Answered
<1> QED BY InitIInv, NextIInv, <1>1, PTL DEF Spec

\* The two commands of IPCMountFUSE act as one, if its session ip was
\* accepted, nobody else was about to use it and the connection stayed open:
\* the share that is reported as mounted is the one that was entered.
THEOREM MountsWhatWasAsked == Spec => MountIsAsked
<1>1. ASSUME IInv, Reports, mount.alone, mount.set = "NO_ERROR", failed = {}
      PROVE  mounted \in {mount.ip, NULL}
  <2>1. Undisturbed /\ MountOwnsIp /\ mount.pc = "starting"
    BY <1>1 DEF Undisturbed, IInv, Reports
  <2>2. Receive("NO_ERROR")
    BY <1>1 DEF Reports, ReceiveStart
  <2>3. replies[DaemonSocket] # <<>> /\ Head(replies[DaemonSocket]).result = "NO_ERROR"
    BY <2>2 DEF Receive
  <2> QED BY <2>1, <2>3 DEF MountOwnsIp
<1>2. IInv /\ [Next]_vars =>
        [Reports /\ mount.alone /\ mount.set = "NO_ERROR" /\ failed = {} =>
           mounted \in {mount.ip, NULL}]_vars
  BY <1>1
<1> QED BY InitIInv, NextIInv, <1>2, PTL DEF Spec, MountIsAsked
=============================================================================
