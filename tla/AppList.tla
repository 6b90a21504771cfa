------------------------------- MODULE AppList -------------------------------
(***************************************************************************)
(* The list of apps, all_apps, of the cover flow, and the disc that is     *)
(* marked in it.  The user interface reads the list anew under disc_lock   *)
(* (rescan_for_apps, index_items_from_dir); scan_for_disc, called by       *)
(* ItemzCore_Util_thread unless the app is idle, walks it without that     *)
(* lock and leaves an index, inserted_disc.                                *)
(*                                                                         *)
(* An app is a number, in the order of the folders and of the names.       *)
(* Which apps are listed depends on the installed and the virtual ones,    *)
(* and on the category.  The reserved first entry has index 0, as in the   *)
(* code.                                                                   *)
(***************************************************************************)
EXTENDS Integers, Sequences, FiniteSets

CONSTANTS
  Apps,      \* a finite set of numbers
  Fpkgs,     \* apps that are no retail games
  Early      \* apps named before the placeholders

ASSUME AppsAssumption ==
  Apps \subseteq Nat \ {0} /\ IsFiniteSet(Apps) /\ {Fpkgs, Early} \subseteq SUBSET Apps

Placeholder == 0
MIN_NUMBER_OF_IF_APPS == 6
pm_r == 3            \* (NUM_OF_PIECES - 1) / 2

VARIABLES
  all_apps, token_c,   \* the entries from index 1 on, and the count of the apps
  g_idx,               \* the selected entry
  byTitle,             \* the list was sorted by title, not by folder
  rescanPc,            \* of the user interface, in rescan_for_apps or ejecting the disc
  disc,                \* the disc in the drive, or Placeholder
  is_disc_inserted, inserted_disc,
  reset_idle_timer, is_idle,
  utilPc,              \* of ItemzCore_Util_thread
  found,               \* what scan_for_disc looks for, then its index
  scannedList,         \* history: rescan_for_apps changed the list during this or
                       \* an earlier scan of the disc that is marked
  swapped              \* history: the disc was changed since it was marked

listVars == <<all_apps, token_c, g_idx, byTitle, rescanPc>>
discVars == <<disc, is_disc_inserted, inserted_disc, found, scannedList, swapped>>
idleVars == <<reset_idle_timer, is_idle>>
appVars == <<listVars, discVars, idleVars, utilPc>>

NOT_INSERTED == -999

AppTypeOK ==
  /\ all_apps \in Seq(Apps \cup {Placeholder}) /\ token_c \in Nat /\ g_idx \in Nat
  /\ byTitle \in BOOLEAN /\ rescanPc \in {"no", "index", "end", "confirm", "ejected"}
  /\ disc \in Apps \cup {Placeholder}
  /\ is_disc_inserted \in BOOLEAN /\ inserted_disc \in {NOT_INSERTED, -1} \cup Nat
  /\ reset_idle_timer \in BOOLEAN /\ is_idle \in BOOLEAN
  /\ utilPc \in {"round", "reset", "idle", "disc", "walk", "mark", "flag"}
  /\ found \in Nat
  /\ scannedList \in BOOLEAN /\ swapped \in BOOLEAN

-----------------------------------------------------------------------------
(* Slips a change to the code could make, for the mutation runs *)

\* No placeholders are added.
MissingApps_none(n) == 0

\* The flags of the disc are left as they were when the list is read anew.
ForgetDisc_keeps == UNCHANGED <<is_disc_inserted, inserted_disc>>

\* Only the index is reset, not the flag.
ForgetDisc_half == inserted_disc' = -999 /\ UNCHANGED is_disc_inserted

\* The pause of an idle app ends the round before the timer is looked at.
WakesIdle_late == reset_idle_timer /\ ~is_idle

-----------------------------------------------------------------------------
(* The list *)

\* By rank: entry i is the one with i - 1 before it.
Sorted(S) ==
  [i \in 1..Cardinality(S) |-> CHOOSE a \in S : Cardinality({b \in S : b < a}) = i - 1]

MissingApps(n) == IF n < MIN_NUMBER_OF_IF_APPS THEN MIN_NUMBER_OF_IF_APPS - n ELSE 0

Order(apps, fill) == apps \o fill

\* Placeholders follow the apps, and are sorted with them by title.  (The sort by
\* title id compares the lengths of the ids, which are nine for all, placeholders
\* included: it leaves the order of the folders, at least in lists that have some.)
Listing(S, title) ==
  LET fill == [i \in 1..MissingApps(Cardinality(S)) |-> Placeholder]
  IN IF title THEN Sorted(S \cap Early) \o fill \o Sorted(S \ Early) ELSE Order(Sorted(S), fill)

\* The entry drawn j places beside entry g of n: wrapped once.
TexIdx(g, n, j) ==
  IF g + j < 1 THEN g + j + n ELSE IF g + j > n THEN g + j - n ELSE g + j

Drawn(n) == IF n > 1 THEN -pm_r..pm_r ELSE {0}

\* The app is started, and its thread; the selection starts at pm_r.
AppInit ==
  /\ all_apps = Listing(Apps, FALSE) /\ token_c = Cardinality(Apps)
  /\ g_idx = pm_r /\ byTitle = FALSE /\ rescanPc = "no"
  /\ disc = Placeholder /\ is_disc_inserted = FALSE /\ inserted_disc = 0 /\ found = 0
  /\ scannedList = FALSE /\ swapped = FALSE
  /\ reset_idle_timer = FALSE /\ is_idle = FALSE
  /\ utilPc = "round"

-----------------------------------------------------------------------------
(* The user interface *)

Scanning == utilPc \in {"walk", "mark", "flag"}
Rescanning == rescanPc \in {"index", "end"}

\* rescan_for_apps empties the list ...
RescanClears ==
  /\ rescanPc = "no" /\ rescanPc' = "index"
  /\ all_apps' = <<>> /\ scannedList' = (scannedList \/ Scanning)
  /\ UNCHANGED <<token_c, g_idx, byTitle, disc, is_disc_inserted, inserted_disc, found, swapped,
                 idleVars, utilPc>>

\* ... reads and sorts it ...
RescanIndexes ==
  /\ rescanPc = "index" /\ rescanPc' = "end"
  /\ byTitle' \in BOOLEAN
  /\ \E S \in SUBSET Apps : all_apps' = Listing(S, byTitle') /\ token_c' = Cardinality(S)
  /\ scannedList' = (scannedList \/ Scanning)
  /\ UNCHANGED <<g_idx, disc, is_disc_inserted, inserted_disc, found, swapped, idleVars, utilPc>>

ForgetDisc == is_disc_inserted' = FALSE /\ inserted_disc' = NOT_INSERTED

\* ... and starts with the first app, and no disc.
RescanEnds ==
  /\ rescanPc = "end" /\ rescanPc' = "no"
  /\ ForgetDisc /\ g_idx' = 1
  /\ scannedList' = Scanning /\ swapped' = (swapped /\ Scanning)
  /\ UNCHANGED <<all_apps, token_c, byTitle, disc, found, idleVars, utilPc>>

\* The end of the animation to the left or to the right.
MoveSelection(d) ==
  /\ rescanPc = "no"
  /\ LET left == IF g_idx + d < 1 THEN token_c ELSE g_idx + d
     IN g_idx' = IF left > token_c THEN 1 ELSE left
  /\ UNCHANGED <<all_apps, token_c, byTitle, rescanPc, discVars, idleVars, utilPc>>

\* OPTIONS: if a disc is marked, the user is asked ...
AskToEject ==
  /\ rescanPc = "no" /\ inserted_disc > 0 /\ rescanPc' = "confirm"
  /\ UNCHANGED <<all_apps, token_c, g_idx, byTitle, discVars, idleVars, utilPc>>

\* ... and what is in the drive by then is ejected, or the drive refuses ...
EjectDisc ==
  /\ rescanPc = "confirm"
  /\ \/ rescanPc' = "no" /\ UNCHANGED disc
     \/ rescanPc' = "ejected" /\ disc' \in {disc, Placeholder}
  /\ UNCHANGED <<all_apps, token_c, g_idx, byTitle, is_disc_inserted, inserted_disc, found,
                 scannedList, swapped, idleVars, utilPc>>

\* ... and either way the mark is taken away.
UnmarkDisc ==
  /\ rescanPc = "ejected" /\ rescanPc' = "no"
  /\ inserted_disc' = -1
  /\ UNCHANGED <<all_apps, token_c, g_idx, byTitle, disc, is_disc_inserted, found, scannedList,
                 swapped, idleVars, utilPc>>

\* Any button.
PressButton ==
  /\ reset_idle_timer' = TRUE
  /\ UNCHANGED <<listVars, discVars, is_idle, utilPc>>

-----------------------------------------------------------------------------
(* ItemzCore_Util_thread *)

\* reset_idle_timer is looked at first, and stays set for the next round if the
\* button was pressed later.
WakesIdle == reset_idle_timer

UtilRound ==
  /\ utilPc = "round"
  /\ utilPc' = IF WakesIdle THEN "reset" ELSE "idle"
  /\ UNCHANGED <<listVars, discVars, idleVars>>

ResetClock ==
  /\ utilPc = "reset" /\ utilPc' = "idle"
  /\ reset_idle_timer' = FALSE /\ is_idle' = FALSE
  /\ UNCHANGED <<listVars, discVars>>

\* 15 minutes are up, or the controller is not connected.  An idle app skips
\* the rest of the round, but not the one in which the controller was lost.
CheckIdle ==
  /\ utilPc = "idle"
  /\ is_idle' \in {is_idle, TRUE}
  /\ utilPc' \in IF is_idle THEN {"round"} ELSE IF is_idle' THEN {"round", "disc"} ELSE {"disc"}
  /\ UNCHANGED <<listVars, discVars, reset_idle_timer>>

\* scan_for_disc asks for the title of the disc.
AskForDisc ==
  /\ utilPc = "disc"
  /\ IF disc = Placeholder
     THEN /\ ForgetDisc /\ utilPc' = "round"
          /\ swapped' = FALSE /\ scannedList' = FALSE /\ UNCHANGED found
     ELSE /\ IF ~is_disc_inserted /\ all_apps # <<>>
             THEN utilPc' = "walk" /\ found' = disc /\ scannedList' = Rescanning
             ELSE utilPc' = "round" /\ UNCHANGED <<found, scannedList>>
          /\ UNCHANGED <<is_disc_inserted, inserted_disc, swapped>>
  /\ UNCHANGED <<listVars, disc, idleVars>>

\* found holds the title while the list is walked.
HasDisc(i) == i \in DOMAIN all_apps /\ all_apps[i] = found

\* The walk: a list that is changed meanwhile can be anything.
WalkList ==
  /\ utilPc = "walk"
  /\ \/ /\ \E i \in DOMAIN all_apps :
             /\ (found \notin Fpkgs /\ HasDisc(i)) \/ scannedList
             /\ found' = i
        /\ utilPc' = "mark"
     \/ /\ scannedList \/ found \in Fpkgs \/ \A i \in DOMAIN all_apps : ~HasDisc(i)
        /\ utilPc' = "round" /\ found' = 0
  /\ UNCHANGED <<listVars, disc, is_disc_inserted, inserted_disc, scannedList, swapped, idleVars>>

MarkDisc ==
  /\ utilPc = "mark" /\ utilPc' = "flag"
  /\ inserted_disc' = found
  /\ UNCHANGED <<listVars, disc, is_disc_inserted, found, scannedList, swapped, idleVars>>

FlagDisc ==
  /\ utilPc = "flag" /\ utilPc' = "round"
  /\ is_disc_inserted' = TRUE /\ found' = 0
  /\ UNCHANGED <<listVars, disc, inserted_disc, scannedList, swapped, idleVars>>

UtilThread ==
  \/ UtilRound \/ ResetClock \/ CheckIdle \/ AskForDisc \/ WalkList \/ MarkDisc \/ FlagDisc

-----------------------------------------------------------------------------
(* The console *)

InsertDisc(a) ==
  /\ disc = Placeholder /\ disc' = a
  /\ swapped' = (swapped \/ is_disc_inserted \/ Scanning)
  /\ UNCHANGED <<listVars, is_disc_inserted, inserted_disc, found, scannedList, idleVars, utilPc>>

RemoveDisc ==
  /\ disc # Placeholder /\ disc' = Placeholder
  /\ UNCHANGED <<listVars, is_disc_inserted, inserted_disc, found, scannedList, swapped, idleVars,
                 utilPc>>

AppListNext ==
  \/ RescanClears \/ RescanIndexes \/ RescanEnds \/ AskToEject \/ EjectDisc \/ UnmarkDisc
  \/ PressButton
  \/ \E d \in {-1, 1} : MoveSelection(d)
  \/ UtilThread \/ RemoveDisc
  \/ \E a \in Apps : InsertDisc(a)

AppListSpec == AppInit /\ [][AppListNext]_appVars

\* The thread runs.
AppListFairSpec == AppListSpec /\ WF_appVars(UtilThread)

-----------------------------------------------------------------------------
(* Properties *)

\* Whatever is selected, and however few apps there are, the seven entries that
\* are drawn are entries of the list (the reserved one among them), also with
\* the selection the app starts with.
DrawInBounds ==
  ~Rescanning => \A j \in Drawn(token_c) : TexIdx(g_idx, token_c, j) \in 0..Len(all_apps)

\* Every app of the list can be selected: unless there are fewer than
\* MIN_NUMBER_OF_IF_APPS, and they are sorted by title, for then placeholders
\* take the places that are counted.
AppsReachable ==
  byTitle \/ \A i \in DOMAIN all_apps : all_apps[i] # Placeholder => i <= token_c

\* The number of apps, the length of the list, which the placeholders extend, and
\* the selection go together: nothing outside the list is drawn, and no app is
\* left outside of what can be selected.
ListUsable == DrawInBounds /\ AppsReachable

\* The entry marked with the disc is the one of the disc: unless the list was
\* read anew during the walk, for the index found is stored after the flags were
\* reset; or the disc was changed while the app was idle, for the flag says that
\* it was found already.
DiscMarked ==
  ~Rescanning /\ inserted_disc > 0 /\ disc # Placeholder =>
    all_apps[inserted_disc] = disc \/ scannedList \/ swapped

\* A disc that stays in is found in the end: but for the same two, and unless
\* the drive refused to eject it, or it came while the one before was ejected, for
\* the mark is gone then, and not looked for.
DiscFound ==
  \A a \in Apps \ Fpkgs :
    <>[](disc = a /\ ~is_idle /\ ~Rescanning /\ \E i \in DOMAIN all_apps : all_apps[i] = a)
      => <>[](inserted_disc > 0 \/ inserted_disc = -1 \/ scannedList \/ swapped)

\* An idle app wakes up, also from a controller that was lost, for a button.
ButtonWakes == reset_idle_timer ~> ~is_idle
=============================================================================
