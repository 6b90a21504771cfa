---------------------------- MODULE MCClientList ----------------------------
(* Model checking ClientList: three nodes, so that one can be in the middle. *)
EXTENDS ClientList

CONSTANTS c1, c2, c3

MCClients == {c1, c2, c3}
=============================================================================
