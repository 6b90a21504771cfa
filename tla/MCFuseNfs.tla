------------------------------ MODULE MCFuseNfs ------------------------------
(***************************************************************************)
(* Model checking FuseNfs: two threads of libfuse and two mounts.          *)
(***************************************************************************)
EXTENDS FuseNfs

CONSTANTS t1, t2

MCThreads == {t1, t2}
=============================================================================
