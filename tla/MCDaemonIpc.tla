---------------------------- MODULE MCDaemonIpc ----------------------------
(***************************************************************************)
(* Model checking DaemonIpc: two shares, two connections at once (of an    *)
(* app that died and of the next one), one failure of recv.                *)
(***************************************************************************)
EXTENDS DaemonIpc, TLC

CONSTANTS ip1, ip2, c1, c2

MCIPs == {ip1, ip2}
MCConns == {c1, c2}

Symmetry == Permutations(MCIPs)
=============================================================================
