------------------------------ MODULE PlayTime ------------------------------
(***************************************************************************)
(* The play time on the page of a game.  ItemzCore_PlayTime_thread asks    *)
(* the daemon for the minutes of title_id and leaves the answer in         *)
(* mins_played, a number or a code, where the thread that draws finds it,  *)
(* shows it and marks it as seen (itemzflow/source/main.cpp,               *)
(* GLES2_itemzflow.cpp).  No lock covers the two variables together: the   *)
(* page can change under a request.                                        *)
(*                                                                         *)
(* A number of minutes is named after its game.                            *)
(***************************************************************************)
EXTENDS Games

VARIABLES
  pageTitle,     \* title_id
  mins_played,
  shown,         \* the text on the page
  drawPc,        \* of the thread that draws, and is the user interface
  playPc,        \* of ItemzCore_PlayTime_thread
  queried,       \* the game it asked for
  idle,          \* is_idle
  pageChanged    \* history: the page is another one than when the last request
                 \* was sent, or was when it was opened

playVars == <<pageTitle, mins_played, shown, drawPc, playPc, queried, idle, pageChanged>>

\* What mins_played holds besides minutes, and what the page says instead.
Codes == {"RESET", "SEEN", "ZERO", "NA", "FETCH_STATS"}

ASSUME CodesAssumption == Codes \cap Titles = {}

Drawable == Titles \cup {"NA"}

PlayTypeOK ==
  /\ pageTitle \in TitleOrNone /\ queried \in TitleOrNone
  /\ mins_played \in Drawable \cup {"RESET", "SEEN", "ZERO"}
  /\ shown \in Drawable \cup {"FETCH_STATS"}
  /\ drawPc \in {"frame", "opening", "drawing"}
  /\ playPc \in {"poll", "sent", "wait"}
  /\ idle \in BOOLEAN /\ pageChanged \in BOOLEAN

PlayInit ==
  /\ pageTitle = NoTitle /\ queried = NoTitle
  /\ mins_played = "RESET" /\ shown = "FETCH_STATS"
  /\ drawPc = "frame" /\ playPc = "poll"
  /\ idle = FALSE /\ pageChanged = FALSE

-----------------------------------------------------------------------------
(* Slips a change to the code could make, for the mutation runs *)

\* The new page keeps what was in mins_played.
ResetMins_keeps == UNCHANGED mins_played

\* The thread waits for RESET as long as it takes.
AskAgain_never == FALSE

-----------------------------------------------------------------------------
(* The user interface *)

ResetMins == mins_played' = "RESET"

\* X on a game: title_id first ...
OpenGamePage(t) ==
  /\ drawPc = "frame" /\ drawPc' = "opening"
  /\ pageTitle' = t
  /\ pageChanged' = (playPc = "sent" /\ queried # t)
  /\ UNCHANGED <<mins_played, shown, playPc, queried, idle>>

\* ... and then the minutes; the text is written anew for the page.
OpenResets ==
  /\ drawPc = "opening" /\ drawPc' = "frame"
  /\ ResetMins /\ shown' = "FETCH_STATS"
  /\ UNCHANGED <<pageTitle, playPc, queried, idle, pageChanged>>

\* A frame of the page: new minutes clear the text, and are drawn ...
DrawMins ==
  /\ drawPc = "frame" /\ pageTitle # NoTitle /\ mins_played \in Drawable
  /\ shown' = mins_played /\ drawPc' = "drawing"
  /\ UNCHANGED <<pageTitle, mins_played, playPc, queried, idle, pageChanged>>

\* ... and marked, also those that came in between.
DrawEnds ==
  /\ drawPc = "drawing" /\ drawPc' = "frame"
  /\ mins_played' = "SEEN"
  /\ UNCHANGED <<pageTitle, shown, playPc, queried, idle, pageChanged>>

\* The text is cleared for another reason; seen minutes are not drawn again.
RedrawText ==
  /\ drawPc = "frame" /\ pageTitle # NoTitle /\ mins_played \notin Drawable
  /\ shown' = "FETCH_STATS"
  /\ UNCHANGED <<pageTitle, mins_played, drawPc, playPc, queried, idle, pageChanged>>

\* The render loop, every some frames.
RenderLoopResets ==
  /\ drawPc = "frame" /\ mins_played' = "RESET"
  /\ UNCHANGED <<pageTitle, shown, drawPc, playPc, queried, idle, pageChanged>>

-----------------------------------------------------------------------------
(* ItemzCore_PlayTime_thread *)

SendQuery ==
  /\ playPc = "poll" /\ ~idle /\ pageTitle # NoTitle
  /\ playPc' = "sent" /\ queried' = pageTitle
  /\ UNCHANGED <<pageTitle, mins_played, shown, drawPc, idle, pageChanged>>

\* GAME_GET_MINS; no answer, or none to get, is NA.
StoreAnswer ==
  /\ playPc = "sent" /\ playPc' = "wait"
  /\ mins_played' \in {queried, "NA", "ZERO"}
  /\ UNCHANGED <<pageTitle, shown, drawPc, queried, idle, pageChanged>>

\* secs > 50
AskAgain == TRUE

WaitEnds ==
  /\ playPc = "wait" /\ (mins_played = "RESET" \/ AskAgain)
  /\ playPc' = "poll"
  /\ UNCHANGED <<pageTitle, mins_played, shown, drawPc, queried, idle, pageChanged>>

PlayTimeThread == SendQuery \/ StoreAnswer \/ WaitEnds

\* The utility thread.
IdleChanges ==
  /\ idle' = ~idle
  /\ UNCHANGED <<pageTitle, mins_played, shown, drawPc, playPc, queried, pageChanged>>

PlayNext ==
  \/ \E t \in Titles : OpenGamePage(t)
  \/ OpenResets \/ DrawMins \/ DrawEnds \/ RedrawText \/ RenderLoopResets
  \/ PlayTimeThread \/ IdleChanges

PlaySpec == PlayInit /\ [][PlayNext]_playVars

\* The threads run.  The minutes are drawn with the next frame, although the
\* render loop may reset them before, which it does rarely.
PlayFairSpec ==
  /\ PlaySpec
  /\ WF_playVars(PlayTimeThread) /\ WF_playVars(OpenResets \/ DrawEnds) /\ SF_playVars(DrawMins)

-----------------------------------------------------------------------------
(* Properties *)

\* The minutes on a page are those of its game, unless the page was opened
\* while a request for another game was under way, whose answer is stored after
\* the reset.
MinutesOfPage ==
  drawPc # "opening" /\ shown \in Titles => shown = pageTitle \/ pageChanged

\* That is put right: a page that stays open shows no other game's minutes for
\* ever; unless the daemon answers 0, which is stored and not drawn.
MinutesCorrected ==
  \A t \in Titles :
    <>[](pageTitle = t /\ ~idle /\ mins_played # "ZERO")
      => <>[](shown \in {t, "NA", "FETCH_STATS"})
=============================================================================
