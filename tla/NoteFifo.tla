------------------------------ MODULE NoteFifo ------------------------------
(***************************************************************************)
(* What the notifications of the app promise: a message that is accepted   *)
(* is shown once, alone, for a while, in the order of acceptance.          *)
(***************************************************************************)
EXTENDS Sequences

CONSTANTS
  Notes,   \* messages
  NoNote

VARIABLES
  pending,    \* accepted and still to show
  onScreen

fifoVars == <<pending, onScreen>>

FifoInit == pending = <<>> /\ onScreen = NoNote

Accept(m) == pending' = Append(pending, m) /\ UNCHANGED onScreen

Show ==
  /\ onScreen = NoNote /\ pending # <<>>
  /\ onScreen' = Head(pending) /\ pending' = Tail(pending)

Expire == onScreen # NoNote /\ onScreen' = NoNote /\ UNCHANGED pending

FifoNext == (\E m \in Notes : Accept(m)) \/ Show \/ Expire

FifoSpec == FifoInit /\ [][FifoNext]_fifoVars

FifoFairSpec == FifoSpec /\ WF_fifoVars(Show) /\ WF_fifoVars(Expire)
=============================================================================
