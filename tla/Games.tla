-------------------------------- MODULE Games --------------------------------
(***************************************************************************)
(* The title ids of the games on the console, as far as a part of the      *)
(* system tells them apart.                                                *)
(***************************************************************************)
CONSTANTS
  Titles,   \* games that can be started
  NoTitle   \* the empty title id, no game

ASSUME NoTitleAssumption == NoTitle \notin Titles

TitleOrNone == Titles \cup {NoTitle}
=============================================================================
