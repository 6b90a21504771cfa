--------------------------- MODULE FtpSessionProofs ---------------------------
(***************************************************************************)
(* FtpSession: no offset but that of a refused APPE outlives the transfer  *)
(* it was for, and with orderly clients the open descriptors are those in  *)
(* use and those a second PASV or PORT replaced, until a session closes    *)
(* another's, for any number of sessions and of descriptors.               *)
(*                                                                         *)
(* FdsExact is not inductive.  A close takes numbers, so that one number   *)
(* must not be the control and the data socket of a session at once, and a *)
(* transfer that ends must have a prepared data connection: OneUse.  And a *)
(* replaced socket stays open, so that its number is not given out again.  *)
(***************************************************************************)
EXTENDS FtpSession, TLAPS

\* Opening and closing keep the descriptors typed.
LEMMA OwnerTyped ==
  ASSUME TypeOK
  PROVE  /\ \A s \in Sessions : \A f : Opened(s, f) \in [Fds -> Sessions \cup {NULL}]
         /\ \A F : Closed(F) \in [Fds -> Sessions \cup {NULL}]
  BY DEF TypeOK, Opened, Closed

\* Every command of a session keeps the types.
LEMMA TypeStep == TypeOK /\ [Next]_vars => TypeOK'
<1> SUFFICES ASSUME TypeOK, [Next]_vars PROVE TypeOK'
  OBVIOUS
<1> USE OffsetAssumption, OwnerTyped DEF TypeOK, Transfer, Descriptor, ALL, sockets, offsets, leaks
<1>1. CASE UNCHANGED vars
  BY <1>1 DEF vars
<1>2. ASSUME NEW s \in Sessions, Connect(s) \/ REST(s) \/ AppeFails(s) PROVE TypeOK'
  BY <1>2 DEF Connect, REST, AppeFails, ForgetOffset
<1>3. ASSUME NEW s \in Sessions, Disconnect(s) PROVE TypeOK'
  <2>1. struck' \in BOOLEAN
    BY <1>3, Zenon DEF Disconnect
  <2> QED BY <1>3, <2>1 DEF Disconnect, ForgetOffset
<1>4. ASSUME NEW s \in Sessions, PASV(s) \/ PORT(s) PROVE TypeOK'
  BY <1>4 DEF PASV, PORT, Prepare
<1>5. ASSUME NEW s \in Sessions, LIST(s) \/ RETR(s) \/ STOR(s) \/ APPE(s) PROVE TypeOK'
  <2>1. owner' \in [Fds -> Sessions \cup {NULL}] /\ pasv_sockfd' \in [Sessions -> Descriptor]
    BY <1>5 DEF LIST, RETR, STOR, APPE, Begin, client_open_data_connection
  <2> QED BY <1>5, <2>1 DEF LIST, RETR, STOR, APPE, Begin
<1>6. ASSUME NEW s \in Sessions, EndList(s) \/ EndRetr(s) \/ EndUpload(s) PROVE TypeOK'
  BY <1>6 DEF EndList, EndRetr, EndUpload, End, client_close_data_connection, ForgetOffset
<1> QED BY <1>1, <1>2, <1>3, <1>4, <1>5, <1>6 DEF Next

LEMMA InitTypes == Init => TypeOK
<1> SUFFICES ASSUME Init PROVE TypeOK
  OBVIOUS
<1>1. struck \in BOOLEAN /\ refused \in SUBSET Sessions /\ lost \in SUBSET Fds
  BY Zenon DEF Init
<1> QED BY <1>1, OffsetAssumption DEF Init, TypeOK, Transfer, Descriptor, ALL

\* The variables of FtpSession are in their ranges at any time.
THEOREM SessionTypes == Spec => []TypeOK
BY InitTypes, TypeStep, PTL DEF Spec

-----------------------------------------------------------------------------
(* The restore point *)

\* Every command keeps the restore point what was asked for.
LEMMA AsAskedStep == TypeOK /\ AsAsked /\ [Next]_vars => AsAsked'
<1> SUFFICES ASSUME TypeOK, AsAsked, [Next]_vars PROVE AsAsked'
  OBVIOUS
<1> USE DEF TypeOK, AsAsked, Transfer, sockets, offsets
<1>1. CASE UNCHANGED vars
  BY <1>1 DEF vars
<1>2. ASSUME NEW s \in Sessions, Connect(s) \/ Disconnect(s) \/ REST(s) \/ AppeFails(s)
      PROVE  AsAsked'
  BY <1>2 DEF Connect, Disconnect, REST, AppeFails, ForgetOffset
<1>3. ASSUME NEW s \in Sessions, PASV(s) \/ PORT(s) PROVE AsAsked'
  BY <1>3 DEF PASV, PORT, Prepare
<1>4. ASSUME NEW s \in Sessions, LIST(s) \/ RETR(s) \/ STOR(s) \/ APPE(s) PROVE AsAsked'
  BY <1>4 DEF LIST, RETR, STOR, APPE, Begin
<1>5. ASSUME NEW s \in Sessions, EndList(s) \/ EndRetr(s) \/ EndUpload(s) PROVE AsAsked'
  BY <1>5 DEF EndList, EndRetr, EndUpload, End, ForgetOffset
<1> QED BY <1>1, <1>2, <1>3, <1>4, <1>5 DEF Next

\* A transfer begins at the offset the client asked for since the last one, or
\* at that of an APPE refused since then, for any number of sessions and any
\* offset, whatever its clients do (ftp.cpp:580-690, 835).
THEOREM OffsetsAsAsked == Spec => []AsAsked
<1>1. Init => AsAsked
  BY DEF Init, AsAsked
<1> QED BY <1>1, SessionTypes, AsAskedStep, PTL DEF Spec

-----------------------------------------------------------------------------
(* The descriptors *)

\* What a session has open, it has for one purpose.
OneUse ==
  \A s \in Sessions :
    /\ pc[s] \in Transfer => data_con_type[s] # "NONE"
    /\ pc[s] # "none" /\ data_con_type[s] # "NONE" =>
         data_sockfd[s] = NULL \/ data_sockfd[s] # ctrl_sockfd[s]
    /\ pc[s] \in Transfer /\ data_con_type[s] = "PASSIVE" =>
         pasv_sockfd[s] = NULL \/ pasv_sockfd[s] \notin {ctrl_sockfd[s], data_sockfd[s]}

FdsIInv ==
  /\ TypeOK /\ FdsExact
  /\ ~struck => OneUse /\ lost \subseteq Open

\* A session that a step leaves alone keeps what it has, if only descriptors
\* that are free or another session's are opened, closed or lost.
LEMMA OthersKept ==
  ASSUME FdsIInv, ~struck, NEW s \in Sessions, NEW u \in Sessions, u # s,
         pc'[u] = pc[u], ctrl_sockfd'[u] = ctrl_sockfd[u], data_sockfd'[u] = data_sockfd[u],
         pasv_sockfd'[u] = pasv_sockfd[u], data_con_type'[u] = data_con_type[u],
         \A f \in Fds : \/ owner'[f] = owner[f] /\ (f \in lost' <=> f \in lost)
                        \/ {owner[f], owner'[f]} \subseteq {s, NULL}
  PROVE  InUse(u)' \ {NULL} = {f \in Fds \ lost' : owner'[f] = u}
<1>1. InUse(u)' = InUse(u)
  BY DEF InUse
<1>2. \A f \in Fds : owner'[f] = u /\ f \notin lost' <=> owner[f] = u /\ f \notin lost
  BY NullAssumption
<1> QED BY <1>1, <1>2 DEF FdsIInv, FdsExact

\* A session begins with its control socket.
LEMMA ConnectKeeps ==
  ASSUME FdsIInv, ~struck, NEW s \in Sessions, Connect(s)
  PROVE  OneUse' /\ FdsExact' /\ lost' \subseteq Open'
<1> USE NullAssumption DEF FdsIInv, TypeOK, Descriptor, Transfer, leaks
<1>1. PICK f \in Fds \ Open : owner' = Opened(s, f) /\ ctrl_sockfd' = [ctrl_sockfd EXCEPT ![s] = f]
  BY DEF Connect
<1>2. OneUse' /\ lost' = lost
  BY DEF Connect, OneUse
<1>3. ASSUME NEW u \in Sessions, u # s
      PROVE  InUse(u)' \ {NULL} = {g \in Fds \ lost' : owner'[g] = u}
  <2>1. \A g \in Fds : owner'[g] = owner[g] \/ {owner[g], owner'[g]} \subseteq {s, NULL}
    BY <1>1 DEF Opened, Open
  <2> QED BY <1>1, <1>2, <1>3, <2>1, OthersKept DEF Connect
<1>4. InUse(s)' \ {NULL} = {g \in Fds \ lost' : owner'[g] = s}
  <2>1. InUse(s)' = {f}
    BY <1>1 DEF Connect, InUse
  <2>2. \A g \in Fds \ lost : owner[g] # s
    BY DEF Connect, FdsExact, InUse
  <2>3. f \notin lost
    BY <1>1
  <2> QED BY <1>1, <1>2, <2>1, <2>2, <2>3 DEF Opened
<1>5. lost' \subseteq Open'
  BY <1>1, <1>2 DEF Open, Opened
<1> QED BY <1>2, <1>3, <1>4, <1>5 DEF FdsExact

\* A session that ends leaves nothing open but what it has lost, if what it
\* closes in vain is nobody's.
LEMMA DisconnectKeeps ==
  ASSUME FdsIInv, ~struck, ~struck', NEW s \in Sessions, Disconnect(s)
  PROVE  OneUse' /\ FdsExact' /\ lost' \subseteq Open'
<1> USE NullAssumption DEF FdsIInv, TypeOK, Descriptor, Transfer
<1>1. /\ owner' = Closed(EndFds(s)) /\ lost' = lost \ EndFds(s)
      /\ pc' = [pc EXCEPT ![s] = "none"] /\ pc[s] = "idle"
      /\ data_con_type' = [data_con_type EXCEPT ![s] = "NONE"]
      /\ ctrl_sockfd' = [ctrl_sockfd EXCEPT ![s] = NULL]
      /\ data_sockfd' = data_sockfd /\ pasv_sockfd' = pasv_sockfd
  BY DEF Disconnect
<1>2. \A f \in Fds : f \in EndFds(s) => owner[f] \in {s, NULL}
  BY DEF Disconnect, Open
<1>3. \A f \in Fds : owner'[f] = IF f \in EndFds(s) THEN NULL ELSE owner[f]
  BY <1>1 DEF Closed
<1>4. InUse(s) \subseteq EndFds(s) /\ InUse(s)' = {}
  BY <1>1 DEF InUse, EndFds, DataFds
<1>5. OneUse'
  BY <1>1 DEF OneUse
<1>6. ASSUME NEW u \in Sessions, u # s
      PROVE  InUse(u)' \ {NULL} = {g \in Fds \ lost' : owner'[g] = u}
  <2>1. \A f \in Fds : \/ owner'[f] = owner[f] /\ (f \in lost' <=> f \in lost)
                       \/ {owner[f], owner'[f]} \subseteq {s, NULL}
    BY <1>1, <1>2, <1>3
  <2> QED BY <1>1, <1>6, <2>1, OthersKept
<1>7. InUse(s)' \ {NULL} = {g \in Fds \ lost' : owner'[g] = s}
  <2>1. \A g \in Fds \ lost : owner[g] = s => g \in EndFds(s)
    BY <1>4 DEF FdsExact
  <2> QED BY <1>1, <1>3, <1>4, <2>1
<1>8. lost' \subseteq Open'
  BY <1>1, <1>3 DEF Open
<1> QED BY <1>5, <1>6, <1>7, <1>8 DEF FdsExact

\* Opening a descriptor the session had no use for before adds it, in place of
\* those it loses.
LEMMA OpenKeeps ==
  ASSUME FdsIInv, ~struck, NEW s \in Sessions, NEW f \in Descriptor, NEW L \in SUBSET Fds,
         f = NULL \/ f \in Fds \ Open, owner' = Opened(s, f),
         lost' = lost \cup L, L \subseteq InUse(s),
         \A u \in Sessions \ {s} :
           /\ pc'[u] = pc[u] /\ ctrl_sockfd'[u] = ctrl_sockfd[u]
           /\ data_sockfd'[u] = data_sockfd[u] /\ pasv_sockfd'[u] = pasv_sockfd[u]
           /\ data_con_type'[u] = data_con_type[u],
         InUse(s)' \ {NULL} = ((InUse(s) \ L) \cup {f}) \ {NULL}
  PROVE  FdsExact' /\ lost' \subseteq Open'
<1> USE NullAssumption DEF FdsIInv, TypeOK, Descriptor
<1>1. \A g \in Fds : owner'[g] = IF g = f THEN s ELSE owner[g]
  BY DEF Opened
<1>2. InUse(s) \ {NULL} = {g \in Fds \ lost : owner[g] = s}
  BY DEF FdsExact
<1>3. f \notin lost /\ f \notin L
  BY <1>2 DEF Open
<1>4. ASSUME NEW u \in Sessions, u # s
      PROVE  InUse(u)' \ {NULL} = {g \in Fds \ lost' : owner'[g] = u}
  <2>1. \A g \in Fds : \/ owner'[g] = owner[g] /\ (g \in lost' <=> g \in lost)
                       \/ {owner[g], owner'[g]} \subseteq {s, NULL}
    BY <1>1, <1>2 DEF Open
  <2> QED BY <1>4, <2>1, OthersKept
<1>5. InUse(s)' \ {NULL} = {g \in Fds \ lost' : owner'[g] = s}
  BY <1>1, <1>2, <1>3
<1>6. lost' \subseteq Open'
  BY <1>1, <1>2 DEF Open
<1> QED BY <1>4, <1>5, <1>6 DEF FdsExact

\* PASV and PORT; the data socket that is there already is lost.
LEMMA PrepareKeeps ==
  ASSUME FdsIInv, ~struck, NEW s \in Sessions, NEW type \in {"ACTIVE", "PASSIVE"},
         Prepare(s, type)
  PROVE  OneUse' /\ FdsExact' /\ lost' \subseteq Open'
<1> USE NullAssumption DEF FdsIInv, TypeOK, Descriptor, Transfer
<1>1. PICK f \in Descriptor :
        NewFd(f) /\ owner' = Opened(s, f) /\ data_sockfd' = [data_sockfd EXCEPT ![s] = f]
  BY DEF Prepare
<1> DEFINE L == IF data_con_type[s] = "NONE" THEN {} ELSE {data_sockfd[s]} \cap Fds
<1>2. /\ pc[s] = "idle" /\ lost' = lost \cup L /\ L \in SUBSET Fds
      /\ InUse(s) \ {NULL} = ({ctrl_sockfd[s]} \cup L) \ {NULL}
  BY DEF Prepare, InUse
<1>3. f = NULL \/ f \in Fds \ Open
  BY <1>1 DEF NewFd
<1>4. \A g \in InUse(s) \ {NULL} : owner[g] = s
  BY DEF FdsExact
<1>5. f = NULL \/ f # ctrl_sockfd[s]
  BY <1>2, <1>3, <1>4 DEF Open
<1>6. OneUse'
  BY <1>1, <1>2, <1>5 DEF Prepare, OneUse
<1>7. InUse(s)' = {ctrl_sockfd[s], f} /\ L \subseteq InUse(s)
  BY <1>1, <1>2 DEF Prepare, InUse
<1>8. ctrl_sockfd[s] \in L => ctrl_sockfd[s] = NULL
  BY <1>2 DEF OneUse
<1>9. InUse(s)' \ {NULL} = ((InUse(s) \ L) \cup {f}) \ {NULL}
  BY <1>2, <1>7, <1>8
<1>10. FdsExact' /\ lost' \subseteq Open'
  <2>1. \A u \in Sessions \ {s} :
          /\ pc'[u] = pc[u] /\ ctrl_sockfd'[u] = ctrl_sockfd[u]
          /\ data_sockfd'[u] = data_sockfd[u] /\ pasv_sockfd'[u] = pasv_sockfd[u]
          /\ data_con_type'[u] = data_con_type[u]
    BY <1>1 DEF Prepare
  <2> HIDE DEF L
  <2> QED BY <1>1, <1>2, <1>3, <1>7, <1>9, <2>1, OpenKeeps
<1> QED BY <1>6, <1>10

\* The beginning of a transfer: a passive one gets one more socket.
LEMMA BeginKeeps ==
  ASSUME FdsIInv, ~struck, Orderly, NEW s \in Sessions, NEW transfer \in Transfer,
         Begin(s, transfer)
  PROVE  OneUse' /\ FdsExact' /\ lost' \subseteq Open'
<1> USE NullAssumption DEF FdsIInv, TypeOK, Descriptor, Transfer, leaks
<1>1. data_con_type[s] # "NONE" /\ pc[s] = "idle" /\ pc'[s] \in Transfer /\ lost' = lost
  BY DEF Begin
<1>2. CASE data_con_type[s] = "ACTIVE"
  <2>1. UNCHANGED <<owner, pasv_sockfd, ctrl_sockfd, data_sockfd, data_con_type>>
    BY <1>2 DEF Begin, client_open_data_connection
  <2>2. OneUse'
    BY <1>1, <1>2, <2>1 DEF Begin, OneUse
  <2>3. \A u \in Sessions : InUse(u)' = InUse(u)
    BY <1>1, <1>2, <2>1 DEF Begin, InUse
  <2> QED BY <1>1, <2>1, <2>2, <2>3 DEF FdsExact, Open
<1>3. CASE data_con_type[s] = "PASSIVE"
  <2>1. PICK f \in Descriptor :
          /\ f = NULL \/ (data_sockfd[s] \in Open /\ NewFd(f))
          /\ owner' = Opened(s, f) /\ pasv_sockfd' = [pasv_sockfd EXCEPT ![s] = f]
    BY <1>3 DEF Begin, client_open_data_connection
  <2>2. f = NULL \/ f \in Fds \ Open
    BY <2>1 DEF NewFd
  <2>3. InUse(s) = {ctrl_sockfd[s], data_sockfd[s]}
    BY <1>1, <1>3 DEF InUse
  <2>4. f = NULL \/ f \notin {ctrl_sockfd[s], data_sockfd[s]}
    <3>1. \A g \in InUse(s) \ {NULL} : owner[g] = s
      BY DEF FdsExact
    <3> QED BY <2>2, <2>3, <3>1 DEF Open
  <2>5. OneUse'
    BY <1>1, <1>3, <2>1, <2>4 DEF Begin, OneUse
  <2>6. InUse(s)' = InUse(s) \cup {f}
    BY <1>1, <1>3, <2>1, <2>3 DEF Begin, InUse
  <2>7. FdsExact' /\ lost' \subseteq Open'
    <3> DEFINE L == {}
    <3>1. InUse(s)' \ {NULL} = ((InUse(s) \ L) \cup {f}) \ {NULL} /\ lost' = lost \cup L
      BY <1>1, <2>6
    <3>2. \A u \in Sessions \ {s} :
            /\ pc'[u] = pc[u] /\ ctrl_sockfd'[u] = ctrl_sockfd[u]
            /\ data_sockfd'[u] = data_sockfd[u] /\ pasv_sockfd'[u] = pasv_sockfd[u]
            /\ data_con_type'[u] = data_con_type[u]
      BY <2>1 DEF Begin
    <3>3. L \in SUBSET Fds /\ L \subseteq InUse(s)
      OBVIOUS
    <3> HIDE DEF L
    <3> QED BY <2>1, <2>2, <3>1, <3>2, <3>3, OpenKeeps
  <2> QED BY <2>5, <2>7
<1> QED BY <1>1, <1>2, <1>3

\* The end of a transfer closes the data connection, and nothing else.
LEMMA EndKeeps ==
  ASSUME FdsIInv, ~struck, NEW s \in Sessions, pc[s] \in Transfer, End(s)
  PROVE  OneUse' /\ FdsExact' /\ lost' \subseteq Open'
<1> USE NullAssumption DEF FdsIInv, TypeOK, Descriptor, Transfer, leaks
<1>1. data_con_type[s] # "NONE" /\ InUse(s) = {ctrl_sockfd[s]} \cup DataFds(s) /\ lost' = lost
  BY DEF OneUse, InUse, DataFds, End
<1>2. ctrl_sockfd[s] \in DataFds(s) => ctrl_sockfd[s] = NULL
  BY <1>1 DEF OneUse, DataFds
<1>3. \A f \in Fds : owner'[f] = IF f \in DataFds(s) THEN NULL ELSE owner[f]
  BY DEF End, client_close_data_connection, Closed
<1>4. \A f \in Fds : f \in DataFds(s) => owner[f] = s /\ f \notin lost
  BY <1>1 DEF FdsExact
<1>5. OneUse'
  BY DEF End, client_close_data_connection, OneUse
<1>6. ASSUME NEW u \in Sessions, u # s
      PROVE  InUse(u)' \ {NULL} = {g \in Fds \ lost' : owner'[g] = u}
  BY <1>1, <1>3, <1>4, <1>6, OthersKept DEF End, client_close_data_connection
<1>7. InUse(s)' = {ctrl_sockfd[s]}
  BY DEF End, client_close_data_connection, InUse
<1>8. InUse(s)' \ {NULL} = {g \in Fds \ lost' : owner'[g] = s}
  <2>1. InUse(s) \ {NULL} = {g \in Fds \ lost : owner[g] = s}
    BY DEF FdsExact
  <2> QED BY <1>1, <1>2, <1>3, <1>7, <2>1
<1>9. lost' \subseteq Open'
  BY <1>1, <1>3, <1>4 DEF Open
<1> QED BY <1>5, <1>6, <1>8, <1>9 DEF FdsExact

\* Every command of an orderly client keeps the descriptors in step.
LEMMA FdsStep == ASSUME Orderly PROVE FdsIInv /\ [Next]_vars => FdsIInv'
<1> SUFFICES ASSUME FdsIInv, [Next]_vars PROVE FdsIInv'
  OBVIOUS
<1>1. TypeOK'
  BY TypeStep DEF FdsIInv
<1>2. CASE UNCHANGED <<owner, pc, sockets, leaks>>
  BY <1>1, <1>2 DEF FdsIInv, OneUse, FdsExact, InUse, Open, sockets, leaks
<1>3. CASE struck'
  BY <1>1, <1>3 DEF FdsIInv, FdsExact
<1>4. ASSUME ~struck' PROVE ~struck
  BY <1>4 DEF Next, vars, leaks, Connect, Disconnect, PASV, PORT, Prepare, LIST, RETR, STOR, APPE,
              Begin, EndList, EndRetr, EndUpload, End, REST, AppeFails
<1>5. ASSUME ~struck', NEW s \in Sessions, PASV(s) \/ PORT(s) PROVE FdsIInv'
  BY <1>1, <1>4, <1>5, PrepareKeeps DEF PASV, PORT, FdsIInv
<1>6. ASSUME ~struck', NEW s \in Sessions, LIST(s) \/ RETR(s) \/ STOR(s) \/ APPE(s)
      PROVE  FdsIInv'
  BY <1>1, <1>4, <1>6, BeginKeeps DEF LIST, RETR, STOR, APPE, Transfer, FdsIInv
<1>7. ASSUME ~struck', NEW s \in Sessions, EndList(s) \/ EndRetr(s) \/ EndUpload(s)
      PROVE  FdsIInv'
  BY <1>1, <1>4, <1>7, EndKeeps DEF EndList, EndRetr, EndUpload, Transfer, FdsIInv
<1>8. ASSUME ~struck', NEW s \in Sessions, Connect(s) \/ Disconnect(s) PROVE FdsIInv'
  BY <1>1, <1>4, <1>8, ConnectKeeps, DisconnectKeeps DEF FdsIInv
<1> QED BY <1>1, <1>2, <1>3, <1>5, <1>6, <1>7, <1>8 DEF Next, vars, REST, AppeFails

\* With clients that ask for transfers only after PASV or PORT no descriptor
\* leaks but those a second one replaces, none is closed twice, and no session
\* reads from the socket of another, until a session that ends in passive mode
\* closes one by a stale number, for any number of sessions and descriptors and
\* however sessions end (ftp.cpp:225-300, 994-999).
THEOREM DescriptorsExact == ASSUME Orderly PROVE Spec => []FdsExact
<1>1. Init => FdsIInv
  <2>1. Init => OneUse /\ FdsExact /\ lost \subseteq Open
    BY NullAssumption DEF Init, OneUse, FdsExact, InUse, Transfer
  <2> QED BY <2>1, InitTypes DEF FdsIInv
<1>2. FdsIInv => FdsExact
  BY DEF FdsIInv
<1> QED BY <1>1, <1>2, FdsStep, PTL DEF Spec
=============================================================================
