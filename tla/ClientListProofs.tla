-------------------------- MODULE ClientListProofs --------------------------
(***************************************************************************)
(* The client list leads to its nodes, for any set of them, and implements *)
(* the set of ClientSet.  The difficulty is the end of a walk: that no     *)
(* linked node was missed needs that the list has no cycle, for which every *)
(* linked node gets a rank that grows along `next`.  The same rank shows   *)
(* that following `next` meets every node.                                 *)
(***************************************************************************)
EXTENDS ClientList, WellFoundedInduction, TLAPS

\* The nodes have ranks that decrease towards the head.
Ranked ==
  \E rank \in [Clients -> Nat] :
    \A c \in linked : prev[c] \in linked => rank[prev[c]] < rank[c]

\* During a walk `it` is the first node left, and the others hang behind it.
WalkLinked ==
  pc # "idle" =>
    /\ it \in linked \cup {NULL}
    /\ it # NULL => prev[it] \notin linked
    /\ pc = "visit" => it # NULL /\ saved = next[it]
    /\ \A c \in linked : /\ next[c] \in linked \cup {NULL}
                         /\ next[c] # NULL => prev[next[c]] = c
                         /\ c # it => prev[c] \in linked /\ next[prev[c]] = c

IInv == TypeOK /\ WellLinked /\ WalkLinked /\ Ranked

-----------------------------------------------------------------------------
\* A set of nodes in which every node has a predecessor of lower rank is empty.
LEMMA NoDescent ==
  ASSUME NEW rank \in [Clients -> Nat], NEW S \in SUBSET Clients,
         \A c \in S : prev[c] \in S /\ rank[prev[c]] < rank[c]
  PROVE  S = {}
<1> SUFFICES ASSUME S # {} PROVE FALSE
  OBVIOUS
<1> DEFINE Ranks == {rank[c] : c \in S}
<1>1. Ranks \subseteq Nat /\ Ranks # {}
  OBVIOUS
<1>2. PICK m \in Ranks : \A n \in Ranks : ~(<<n, m>> \in OpToRel(<, Nat))
  <2> HIDE DEF Ranks
  <2> QED
    BY <1>1, NatLessThanWellFounded, WFMin
<1>3. PICK c \in S : rank[c] = m
  OBVIOUS
<1>4. rank[prev[c]] \in Ranks /\ rank[prev[c]] < m
  BY <1>3
<1>5. <<rank[prev[c]], m>> \in OpToRel(<, Nat)
  BY <1>1, <1>4 DEF OpToRel
<1> QED
  BY <1>2, <1>4, <1>5

LEMMA InitInv == Init => IInv
<1> SUFFICES ASSUME Init PROVE IInv
  OBVIOUS
<1>1. TypeOK /\ WellLinked /\ WalkLinked
  BY DEF Init, TypeOK, WellLinked, WalkLinked, Ptr
<1>2. Ranked
  <2>1. [c \in Clients |-> 0] \in [Clients -> Nat]
    OBVIOUS
  <2> QED
    BY <2>1 DEF Init, Ranked
<1> QED
  BY <1>1, <1>2 DEF IInv

LEMMA AddStep ==
  ASSUME IInv, NEW c \in Clients, client_list_add(c) PROVE IInv'
<1> USE DEF IInv, TypeOK, Ptr
<1>1. TypeOK'
  BY DEF client_list_add, Store
<1>2. WellLinked'
  BY NullAssumption DEF client_list_add, Store, WellLinked
<1>3. WalkLinked'
  BY DEF client_list_add, WalkLinked
<1>4. Ranked'
  <2>1. PICK rank \in [Clients -> Nat] :
          \A d \in linked : prev[d] \in linked => rank[prev[d]] < rank[d]
    BY DEF Ranked
  <2> DEFINE new == [d \in Clients |-> IF d = c THEN 0 ELSE rank[d] + 1]
  <2>2. new \in [Clients -> Nat]
    OBVIOUS
  <2>3. ASSUME NEW d \in linked', prev'[d] \in linked' PROVE new[prev'[d]] < new[d]
    <3>1. d # c /\ linked' = linked \cup {c} /\ c \notin linked
      BY <2>3, NullAssumption DEF client_list_add, Store
    <3>2. CASE d = client_list
      <4>1. prev'[d] = c
        BY <3>1, <3>2, NullAssumption DEF client_list_add, Store
      <4> QED
        BY <3>1, <4>1
    <3>3. CASE d # client_list
      <4>1. prev'[d] = prev[d] /\ prev[d] # c
        BY <3>1, <3>3, NullAssumption DEF client_list_add, Store, WellLinked
      <4> QED
        BY <2>1, <2>3, <3>1, <4>1
    <3> QED
      BY <3>2, <3>3
  <2> QED
    BY <2>2, <2>3 DEF Ranked
<1> QED
  BY <1>1, <1>2, <1>3, <1>4

LEMMA DeleteStep ==
  ASSUME IInv, NEW c \in Clients, client_list_delete(c) PROVE IInv'
<1> USE DEF IInv, TypeOK, Ptr
<1>1. TypeOK'
  BY DEF client_list_delete, Store
<1>2. WellLinked'
  BY NullAssumption DEF client_list_delete, Store, WellLinked
<1>3. WalkLinked'
  BY DEF client_list_delete, WalkLinked
<1>4. Ranked'
  <2>1. PICK rank \in [Clients -> Nat] :
          \A d \in linked : prev[d] \in linked => rank[prev[d]] < rank[d]
    BY DEF Ranked
  <2>2. ASSUME NEW d \in linked', prev'[d] \in linked' PROVE rank[prev'[d]] < rank[d]
    BY <2>1, <2>2, NullAssumption DEF client_list_delete, Store, WellLinked
  <2> QED
    BY <2>1, <2>2 DEF Ranked
<1> QED
  BY <1>1, <1>2, <1>3, <1>4

LEMMA WalkStep ==
  ASSUME IInv, WalkBegin \/ WalkVisit \/ Advance PROVE IInv'
<1> USE DEF IInv, TypeOK, Ptr
<1>1. CASE WalkBegin
  BY <1>1, NullAssumption DEF WalkBegin, links, WellLinked, WalkLinked, Ranked
<1>2. CASE WalkVisit
  BY <1>2 DEF WalkVisit, links, WellLinked, WalkLinked, Ranked
<1>3. CASE Advance
  <2>1. TypeOK' /\ WellLinked'
    BY <1>3 DEF Advance, WellLinked, WalkLinked
  <2>2. WalkLinked'
    BY <1>3, NullAssumption DEF Advance, WalkLinked
  <2>3. Ranked'
    BY <1>3 DEF Advance, Ranked
  <2> QED
    BY <2>1, <2>2, <2>3
<1> QED
  BY <1>1, <1>2, <1>3

\* The walk ends when no linked node is left.
LEMMA WalkedOff ==
  ASSUME IInv, WalkFinish PROVE linked = {}
<1> USE DEF IInv, TypeOK, Ptr
<1>1. PICK rank \in [Clients -> Nat] :
        \A c \in linked : prev[c] \in linked => rank[prev[c]] < rank[c]
  BY DEF Ranked
<1>2. \A c \in linked : prev[c] \in linked /\ rank[prev[c]] < rank[c]
  BY <1>1, NullAssumption DEF WalkFinish, WalkLinked
<1> QED
  BY <1>2, NoDescent

LEMMA FinishStep ==
  ASSUME IInv, WalkFinish PROVE IInv'
<1> USE DEF IInv, TypeOK, Ptr
<1>1. linked = {}
  BY WalkedOff
<1> QED
  BY <1>1 DEF WalkFinish, WellLinked, WalkLinked, Ranked

-----------------------------------------------------------------------------
(* What the links lead to *)

LEMMA NextIInv == IInv /\ [Next]_vars => IInv'
<1> SUFFICES ASSUME IInv, [Next]_vars PROVE IInv'
  OBVIOUS
<1>1. CASE UNCHANGED vars
  BY <1>1 DEF IInv, TypeOK, WellLinked, WalkLinked, Ranked, vars, links
<1> QED
  BY <1>1, AddStep, DeleteStep, WalkStep, FinishStep DEF Next

\* A part of the list that starts at p, of which every other node hangs behind
\* one of the part, is what following `next` from p meets: all of it, as a node
\* that is missed would have a predecessor that is missed, without end.
LEMMA FromIsChain ==
  ASSUME IInv, NEW S \in SUBSET linked, NEW p \in S \cup {NULL}, Closed(S),
         \A c \in S \ {p} : prev[c] \in S /\ next[prev[c]] = c
  PROVE  From(p) = S
<1>1. S \in SUBSET Clients /\ next \in [Clients -> Ptr]
  BY DEF IInv, TypeOK
<1>2. From(p) \subseteq S
  BY <1>1 DEF From
<1>3. p # NULL => p \in From(p)
  BY <1>1 DEF From
<1>4. \A c \in From(p) : next[c] # NULL => next[c] \in From(p)
  BY <1>1 DEF From, Closed, Ptr
<1>5. PICK rank \in [Clients -> Nat] :
        \A c \in linked : prev[c] \in linked => rank[prev[c]] < rank[c]
  BY DEF IInv, Ranked
<1> DEFINE Missed == S \ From(p)
<1>6. ASSUME NEW c \in Missed PROVE prev[c] \in Missed /\ rank[prev[c]] < rank[c]
  <2>1. c \in S /\ c # p /\ c # NULL
    BY <1>1, <1>3, NullAssumption
  <2>2. prev[c] \in S /\ next[prev[c]] = c
    BY <2>1
  <2>3. prev[c] \notin From(p)
    BY <1>4, <2>1, <2>2
  <2> QED
    BY <1>5, <2>1, <2>2, <2>3
<1>7. Missed = {}
  <2> HIDE DEF Missed
  <2>1. Missed \in SUBSET Clients
    BY <1>1 DEF Missed
  <2> QED
    BY <1>6, <2>1, NoDescent
<1> QED
  BY <1>2, <1>7

\* Between two critical sections, and at every turn of the walk.
LeadsToLinked ==
  /\ pc = "idle" => From(client_list) = linked
  /\ pc = "loop" => From(it) = linked
  /\ pc = "visit" => From(saved) = linked \ {it}
  /\ pc # "idle" => it \in linked \cup {NULL}

LEMMA FromLinked == IInv => LeadsToLinked
<1> SUFFICES ASSUME IInv PROVE LeadsToLinked
  OBVIOUS
<1> USE DEF IInv, TypeOK, LeadsToLinked
<1>1. CASE pc = "idle"
  <2>1. client_list \in linked \cup {NULL} /\ Closed(linked)
    BY <1>1 DEF WellLinked, Closed
  <2>2. \A c \in linked \ {client_list} : prev[c] \in linked /\ next[prev[c]] = c
    BY <1>1 DEF WellLinked
  <2> QED
    BY <1>1, <2>1, <2>2, FromIsChain
<1>2. CASE pc = "loop"
  <2>1. it \in linked \cup {NULL} /\ Closed(linked)
    BY <1>2 DEF WalkLinked, Closed
  <2>2. \A c \in linked \ {it} : prev[c] \in linked /\ next[prev[c]] = c
    BY <1>2 DEF WalkLinked
  <2> QED
    BY <1>2, <2>1, <2>2, FromIsChain
<1>3. CASE pc = "visit"
  <2> DEFINE rest == linked \ {it}
  <2>1. it \in linked /\ saved = next[it] /\ prev[it] \notin linked
    BY <1>3 DEF WalkLinked
  <2>2. \A c \in linked : next[c] \in rest \cup {NULL}
    BY <1>3, <2>1, NullAssumption DEF WalkLinked
  <2>3. saved \in rest \cup {NULL} /\ Closed(rest)
    BY <2>1, <2>2 DEF Closed
  <2>4. \A c \in rest : prev[c] \in linked /\ next[prev[c]] = c
    BY <1>3 DEF WalkLinked
  <2>5. \A c \in rest \ {saved} : prev[c] \in rest /\ next[prev[c]] = c
    BY <2>1, <2>4
  <2>6. From(saved) = rest
    BY <2>3, <2>5, FromIsChain
  <2> QED
    BY <1>3, <2>1, <2>6
<1> QED
  BY <1>1, <1>2, <1>3

-----------------------------------------------------------------------------
\* For every set of nodes the links of the list are mutually inverse, start at
\* the head and stay in the list, whatever order clients come and go in and
\* however often the server is shut down (ftp.cpp:855-933).
THEOREM LinksAreRight == Spec => []WellLinked
<1>1. IInv => WellLinked
  BY DEF IInv
<1> QED
  BY <1>1, InitInv, NextIInv, PTL DEF Spec

\* The list leads to every client that was added and not deleted, and to no
\* other (ftp.cpp:855-895).
THEOREM NobodyIsLost == Spec => []AllReachable
<1>1. IInv => AllReachable
  BY FromLinked DEF AllReachable, LeadsToLinked
<1> QED
  BY <1>1, InitInv, NextIInv, PTL DEF Spec

\* The linked list implements a set that a shutdown empties by visiting every
\* member once: client_list_thread_end (ftp.cpp:897-933), which follows a
\* pointer it has read before the node was freed, neither misses a client nor
\* comes to one twice.
THEOREM ListImplementsSet == Spec => ImplementsClientSet
<1>1. Init => Abstract!Init
  <2> SUFFICES ASSUME Init PROVE Abstract!Init
    OBVIOUS
  <2>1. From(client_list) = linked
    BY InitInv, FromLinked DEF Init, LeadsToLinked
  <2> QED
    BY <2>1 DEF Init, Abstract!Init
<1>2. IInv' => LeadsToLinked'
  BY FromLinked, PTL
<1>3. IInv /\ IInv' /\ [Next]_vars => [Abstract!Next]_Abstract!vars
  <2> SUFFICES ASSUME IInv, IInv', [Next]_vars PROVE [Abstract!Next]_Abstract!vars
    OBVIOUS
  <2>1. LeadsToLinked /\ LeadsToLinked'
    BY FromLinked, <1>2
  <2> USE DEF LeadsToLinked, Abstract!Next, Abstract!Add, Abstract!Delete, Abstract!StartWalk,
              Abstract!Visit, Abstract!Leave, Abstract!EndWalk
  <2>2. ASSUME NEW c \in Clients, client_list_add(c) PROVE Abstract!Add(c)
    BY <2>1, <2>2 DEF client_list_add
  <2>3. ASSUME NEW c \in Clients, client_list_delete(c) PROVE Abstract!Delete(c)
    BY <2>1, <2>3 DEF client_list_delete
  <2>4. ASSUME WalkBegin PROVE Abstract!StartWalk
    BY <2>1, <2>4 DEF WalkBegin, links
  <2>5. ASSUME WalkVisit PROVE it \in Clients /\ Abstract!Visit(it)
    BY <2>1, <2>5 DEF WalkVisit, links, IInv, TypeOK
  <2>6. ASSUME Advance PROVE Abstract!Leave
    BY <2>1, <2>6, NullAssumption DEF Advance, IInv, TypeOK, WalkLinked
  <2>7. ASSUME WalkFinish PROVE Abstract!EndWalk
    <3>1. linked = {}
      BY <2>7, WalkedOff
    <3> QED
      BY <2>1, <2>7, <3>1 DEF WalkFinish
  <2>8. CASE UNCHANGED vars
    <3>1. UNCHANGED Abstract!vars
      BY <2>8, <2>1 DEF vars, links, Abstract!vars, IInv, TypeOK
    <3> QED
      BY <3>1
  <2> QED
    BY <2>2, <2>3, <2>4, <2>5, <2>6, <2>7, <2>8 DEF Next
<1> QED
  BY <1>1, <1>3, InitInv, NextIInv, PTL DEF Spec, ImplementsClientSet, Abstract!Spec
=============================================================================
