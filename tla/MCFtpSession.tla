---------------------------- MODULE MCFtpSession ----------------------------
(***************************************************************************)
(* Model checking FtpSession: two sessions, five descriptors (one less     *)
(* than two passive transfers want).                                       *)
(***************************************************************************)
EXTENDS FtpSession, TLC

CONSTANTS a, b, f1, f2, f3, f4, f5

MCSessions == {a, b}
MCFds == {f1, f2, f3, f4, f5}

Symmetry == Permutations(MCFds) \cup Permutations(MCSessions)
=============================================================================
