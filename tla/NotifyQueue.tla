----------------------------- MODULE NotifyQueue -----------------------------
(***************************************************************************)
(* The notifications of the app (itemzflow/source/GLES2_ani.cpp): any      *)
(* thread adds one to cv with ani_notify, and the thread that draws shows  *)
(* one after the other.  What was shown stays in cv until all of it was;   *)
(* a full queue refuses, and says so in its last place.                    *)
(*                                                                         *)
(* Each action is a call under notifcation_lock.  Empty messages, which    *)
(* are refused, are left out.                                              *)
(***************************************************************************)
EXTENDS Naturals, Sequences

CONSTANTS
  Notes,          \* messages
  NoNote, FullNote,
  MAX_QUEUE,      \* 10
  MAX_MESSAGES    \* 12

ASSUME QueueAssumption ==
  /\ MAX_QUEUE \in Nat /\ MAX_MESSAGES \in Nat /\ MAX_QUEUE < MAX_MESSAGES
  /\ NoNote \notin Notes \cup {FullNote}

VARIABLES
  cv,               \* the queue
  last_num,         \* how many of cv have been shown
  ani_is_running

noteVars == <<cv, last_num, ani_is_running>>

Fifo == INSTANCE NoteFifo WITH
  Notes <- Notes \cup {FullNote},
  pending <- SubSeq(cv, last_num + 1, Len(cv)),
  onScreen <- IF ani_is_running THEN cv[last_num] ELSE NoNote

NoteTypeOK ==
  /\ cv \in Seq(Notes \cup {FullNote}) /\ Len(cv) <= MAX_MESSAGES
  /\ last_num \in 0..Len(cv)
  /\ ani_is_running \in BOOLEAN /\ (ani_is_running => last_num > 0)

NoteInit == cv = <<>> /\ last_num = 0 /\ ani_is_running = FALSE

-----------------------------------------------------------------------------
(* Slips a change to the code could make, for the mutation runs *)

\* A full queue says so each time it refuses.
TellsFull_always == TRUE

\* Off by one: the last message is cleared before it was shown.
AllShown_early == last_num + 1 >= Len(cv)

-----------------------------------------------------------------------------
add_new_queue_item(m) == cv' = Append(cv, m)

TellsFull == Len(cv) < MAX_MESSAGES

ani_notify(m) ==
  /\ IF Len(cv) <= MAX_QUEUE THEN add_new_queue_item(m)
     ELSE IF TellsFull THEN add_new_queue_item(FullNote)
     ELSE UNCHANGED cv
  /\ UNCHANGED <<last_num, ani_is_running>>

\* GLES2_ani_draw: render_ani has come to the end of the animation ...
AnimationEnds ==
  /\ ani_is_running /\ ani_is_running' = FALSE
  /\ UNCHANGED <<cv, last_num>>

AllShown == last_num >= Len(cv)

\* ... or nothing is shown: the next one, or a new start.
ShowNext ==
  /\ ~ani_is_running
  /\ IF AllShown THEN last_num' = 0 /\ cv' = <<>> /\ UNCHANGED ani_is_running
     ELSE last_num' = last_num + 1 /\ ani_is_running' = TRUE /\ UNCHANGED cv

NoteNext == (\E m \in Notes : ani_notify(m)) \/ AnimationEnds \/ ShowNext

NoteSpec == NoteInit /\ [][NoteNext]_noteVars

\* Every frame calls GLES2_ani_draw, and an animation lasts 2.7 seconds.
NoteFairSpec == NoteSpec /\ WF_noteVars(AnimationEnds) /\ WF_noteVars(ShowNext)

-----------------------------------------------------------------------------
(* Properties *)

\* A message that was accepted is shown, once and in its turn, whenever the
\* queue is added to, full or cleared.
NotesShown == Fifo!FifoFairSpec
=============================================================================
