------------------------------ MODULE ClientSet ------------------------------
(***************************************************************************)
(* What the rest of the FTP server relies on in its list of clients: it is *)
(* a set, and a shutdown visits every member once, in some order.  FtpServer *)
(* keeps its list in this form; ClientList implements it with pointers.    *)
(***************************************************************************)
CONSTANTS Clients, NULL

VARIABLES members,   \* the clients in the list
          walking,   \* a shutdown goes through the list
          todo,      \* the clients it has still to visit
          it         \* the client it visits, NULL between two visits

vars == <<members, walking, todo, it>>

Init == members = {} /\ walking = FALSE /\ todo = {} /\ it = NULL

Add(c) == ~walking /\ c \notin members /\ members' = members \cup {c}
          /\ UNCHANGED <<walking, todo, it>>

Delete(c) == ~walking /\ c \in members /\ members' = members \ {c}
             /\ UNCHANGED <<walking, todo, it>>

StartWalk == ~walking /\ walking' = TRUE /\ todo' = members /\ members' = {}
             /\ UNCHANGED it

Visit(c) == walking /\ it = NULL /\ c \in todo /\ it' = c /\ todo' = todo \ {c}
            /\ UNCHANGED <<members, walking>>

Leave == it # NULL /\ it' = NULL /\ UNCHANGED <<members, walking, todo>>

EndWalk == walking /\ it = NULL /\ todo = {} /\ walking' = FALSE
           /\ UNCHANGED <<members, todo, it>>

Next == \/ \E c \in Clients : Add(c) \/ Delete(c) \/ Visit(c)
        \/ StartWalk \/ Leave \/ EndWalk

Spec == Init /\ [][Next]_vars
=============================================================================
