----------------------------- MODULE ClientList -----------------------------
(***************************************************************************)
(* The doubly linked list of clients of itemz-daemon/source/ftp.cpp, its   *)
(* pointers and nothing else.  Each action is one critical section of      *)
(* client_list_mtx, or one turn of the loop of client_list_thread_end, which *)
(* holds the mutex throughout.  That a thread deletes its node once, and   *)
(* only while no walk is on, is shown in FtpServer.                        *)
(***************************************************************************)
EXTENDS Integers

CONSTANTS Clients, NULL
ASSUME NullAssumption == NULL \notin Clients

VARIABLES client_list,   \* the head
          next, prev,    \* the links; a node that is not allocated has garbage
          linked,        \* the clients added and not yet deleted
          pc,            \* "idle", or client_list_thread_end: "loop", "visit"
          it, saved      \* its locals `it` and `next`

links == <<client_list, next, prev>>
vars == <<links, linked, pc, it, saved>>

Ptr == Clients \cup {NULL}

TypeOK ==
  /\ client_list \in Ptr /\ next \in [Clients -> Ptr] /\ prev \in [Clients -> Ptr]
  /\ linked \in SUBSET Clients
  /\ pc \in {"idle", "loop", "visit"} /\ it \in Ptr /\ saved \in Ptr

Init ==
  /\ client_list = NULL
  /\ next \in [Clients -> Ptr] /\ prev \in [Clients -> Ptr]
  /\ linked = {} /\ pc = "idle" /\ it = NULL /\ saved = NULL

\* p->field = v, for a p that may be NULL and is then left alone.
Store(field, p, v) == IF p = NULL THEN field ELSE [field EXCEPT ![p] = v]

-----------------------------------------------------------------------------
(* Slips a change to the code could make, for the mutation runs *)

\* The old head is not told of its new predecessor.
client_list_add_one_way(c) ==
  /\ pc = "idle" /\ c \notin linked
  /\ next' = [next EXCEPT ![c] = client_list]
  /\ prev' = [prev EXCEPT ![c] = NULL]
  /\ client_list' = c
  /\ linked' = linked \cup {c}
  /\ UNCHANGED <<pc, it, saved>>

\* The head is not moved when the first node goes.
client_list_delete_keeps_head(c) ==
  /\ pc = "idle" /\ c \in linked
  /\ next' = Store(next, prev[c], next[c])
  /\ prev' = Store(prev, next[c], prev[c])
  /\ linked' = linked \ {c}
  /\ UNCHANGED <<client_list, pc, it, saved>>

\* it->next is read after the join, when the node is gone.
Advance_reads_late ==
  /\ pc = "visit"
  /\ pc' = "loop"
  /\ linked' = linked \ {it}
  /\ \E n \in Ptr : next' = [next EXCEPT ![it] = n] /\ it' = n
  /\ saved' = NULL
  /\ UNCHANGED <<client_list, prev>>

-----------------------------------------------------------------------------
\* Push the node at the front.
client_list_add(c) ==
  /\ pc = "idle" /\ c \notin linked
  /\ next' = [next EXCEPT ![c] = client_list]
  /\ prev' = Store([prev EXCEPT ![c] = NULL], client_list, c)
  /\ client_list' = c
  /\ linked' = linked \cup {c}
  /\ UNCHANGED <<pc, it, saved>>

\* Take the node out; its own links keep their values until it is freed.
client_list_delete(c) ==
  /\ pc = "idle" /\ c \in linked
  /\ next' = Store(next, prev[c], next[c])
  /\ prev' = Store(prev, next[c], prev[c])
  /\ client_list' = IF c = client_list THEN next[c] ELSE client_list
  /\ linked' = linked \ {c}
  /\ UNCHANGED <<pc, it, saved>>

\* it = client_list
WalkBegin ==
  /\ pc = "idle"
  /\ pc' = "loop"
  /\ it' = client_list
  /\ UNCHANGED <<links, linked, saved>>

\* next = it->next; abort the sockets of `it`.
WalkVisit ==
  /\ pc = "loop" /\ it # NULL
  /\ pc' = "visit"
  /\ saved' = next[it]
  /\ UNCHANGED <<links, linked, it>>

\* The client thread frees its node and is joined; it = next.
Advance ==
  /\ pc = "visit"
  /\ pc' = "loop"
  /\ linked' = linked \ {it}
  /\ \E n \in Ptr : next' = [next EXCEPT ![it] = n]
  /\ it' = saved
  /\ saved' = NULL
  /\ UNCHANGED <<client_list, prev>>

\* The loop ends; ftps4_fini resets the head.
WalkFinish ==
  /\ pc = "loop" /\ it = NULL
  /\ pc' = "idle"
  /\ client_list' = NULL
  /\ UNCHANGED <<next, prev, linked, it, saved>>

Next ==
  \/ \E c \in Clients : client_list_add(c) \/ client_list_delete(c)
  \/ WalkBegin \/ WalkVisit \/ Advance \/ WalkFinish

Spec == Init /\ [][Next]_vars

-----------------------------------------------------------------------------
(* Properties *)

\* The nodes met by following `next` from p: the least set with p that is
\* closed under it.
Closed(S) == \A c \in S : next[c] \in S \cup {NULL}
From(p) ==
  {c \in Clients : \A S \in SUBSET Clients : p \in S \cup {NULL} /\ Closed(S) => c \in S}

\* next and prev of linked nodes are each other's inverse, the node without a
\* predecessor is the head, and no link leads out of the list: so the pointers
\* client_list_delete writes through never hit a freed node.
WellLinked ==
  pc = "idle" =>
    /\ client_list \in linked \cup {NULL}
    /\ \A c \in linked :
         /\ next[c] \in linked \cup {NULL} /\ prev[c] \in linked \cup {NULL}
         /\ next[c] # NULL => prev[next[c]] = c
         /\ prev[c] # NULL => next[prev[c]] = c
         /\ prev[c] = NULL <=> c = client_list

\* The list implements the set the FTP server works with.
Abstract == INSTANCE ClientSet WITH
  members <- IF pc = "idle" THEN From(client_list) ELSE {},
  walking <- pc # "idle",
  todo    <- CASE pc = "idle" -> {} [] pc = "loop" -> From(it) [] pc = "visit" -> From(saved),
  it      <- IF pc = "visit" THEN it ELSE NULL

ImplementsClientSet == Abstract!Spec

\* The clients that believe they are in the list are the ones it leads to.
AllReachable == pc = "idle" => From(client_list) = linked
=============================================================================
