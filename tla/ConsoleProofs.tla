----------------------------- MODULE ConsoleProofs -----------------------------
(***************************************************************************)
(* The user interface, and the parts together.  NotifyQueue implements     *)
(* NoteFifo for any number of messages and any length of the queue.        *)
(* AppList draws what is in the list, and marks the entry of the disc, for *)
(* any apps.  Every behaviour of MCConsole is one of each part, so that    *)
(* what is proved of the parts, here and in GameProofs and InstallProofs,  *)
(* holds of the whole.                                                     *)
(***************************************************************************)
EXTENDS MCConsole, GameProofs, InstallProofs, SequenceTheorems, FiniteSetTheorems, TLAPS

-----------------------------------------------------------------------------
(* NotifyQueue *)

Messages == Notes \cup {FullNote}

\* What is left of a queue that gets a message is what was left, and the message.
LEMMA LeftOfAppend ==
  ASSUME NEW S, NEW s \in Seq(S), NEW e \in S, NEW n \in 0..Len(s)
  PROVE  SubSeq(Append(s, e), n + 1, Len(Append(s, e))) = Append(SubSeq(s, n + 1, Len(s)), e)
<1> DEFINE l == SubSeq(Append(s, e), n + 1, Len(s) + 1)
           r == Append(SubSeq(s, n + 1, Len(s)), e)
<1>1. /\ Append(s, e) \in Seq(S) /\ Len(Append(s, e)) = Len(s) + 1 /\ Len(s) \in Nat
      /\ \A i \in 1..Len(s) + 1 :
           Append(s, e)[i] \in S /\ Append(s, e)[i] = IF i <= Len(s) THEN s[i] ELSE e
  OBVIOUS
<1>2. /\ SubSeq(s, n + 1, Len(s)) \in Seq(S) /\ Len(SubSeq(s, n + 1, Len(s))) = Len(s) - n
      /\ \A i \in 1..Len(s) - n : SubSeq(s, n + 1, Len(s))[i] = s[n + i]
  OBVIOUS
<1>3. l \in Seq(S) /\ Len(l) = Len(s) + 1 - n
  BY <1>1, SubSeqProperties
<1>4. r \in Seq(S) /\ Len(r) = Len(s) + 1 - n
  BY <1>2
<1>5. \A i \in 1..Len(s) + 1 - n : l[i] = r[i]
  <2> SUFFICES ASSUME NEW i \in 1..Len(s) + 1 - n PROVE l[i] = r[i]
    OBVIOUS
  <2>1. l[i] = Append(s, e)[n + i]
    BY <1>1
  <2>2. r[i] = IF i <= Len(s) - n THEN s[n + i] ELSE e
    BY <1>2
  <2> QED BY <1>1, <2>1, <2>2
<1>6. l = r
  <2> HIDE DEF l, r
  <2> QED BY <1>3, <1>4, <1>5, SeqEqual
<1> QED BY <1>1, <1>6

\* Every step keeps the types: the queue does not outgrow MAX_MESSAGES, and a
\* message is shown while it is in the queue.
LEMMA NoteTypeStep == NoteTypeOK /\ [NoteNext]_noteVars => NoteTypeOK'
<1> SUFFICES ASSUME NoteTypeOK, [NoteNext]_noteVars PROVE NoteTypeOK'
  OBVIOUS
<1> USE QueueAssumption DEF NoteTypeOK
<1>1. ASSUME NEW m \in Notes, ani_notify(m) PROVE NoteTypeOK'
  <2>1. CASE UNCHANGED cv
    BY <1>1, <2>1 DEF ani_notify
  <2>2. ASSUME NEW n \in Notes \cup {FullNote}, Len(cv) < MAX_MESSAGES, add_new_queue_item(n)
        PROVE  NoteTypeOK'
    <3>1. cv' \in Seq(Notes \cup {FullNote}) /\ Len(cv') = Len(cv) + 1
      BY <2>2 DEF add_new_queue_item
    <3>2. UNCHANGED <<last_num, ani_is_running>>
      BY <1>1 DEF ani_notify
    <3>3. Len(cv') <= MAX_MESSAGES /\ last_num' \in 0..Len(cv')
      BY <2>2, <3>1, <3>2
    <3> QED BY <3>1, <3>2, <3>3
  <2>3. Len(cv) <= MAX_QUEUE => Len(cv) < MAX_MESSAGES
    OBVIOUS
  <2> QED BY <1>1, <2>1, <2>2, <2>3 DEF ani_notify, TellsFull
<1>2. CASE AnimationEnds
  BY <1>2 DEF AnimationEnds
<1>3. CASE ShowNext
  <2>1. CASE AllShown
    <3>1. cv' = <<>> /\ last_num' = 0 /\ UNCHANGED ani_is_running /\ ~ani_is_running
      BY <1>3, <2>1 DEF ShowNext
    <3>2. <<>> \in Seq(Notes \cup {FullNote}) /\ Len(<<>>) = 0
      BY EmptySeq
    <3>3. Len(<<>>) <= MAX_MESSAGES /\ 0 \in 0..Len(<<>>)
      BY <3>2
    <3> QED BY <3>1, <3>2, <3>3
  <2>2. CASE ~AllShown
    BY <1>3, <2>2 DEF ShowNext, AllShown
  <2> QED BY <2>1, <2>2
<1>4. CASE UNCHANGED noteVars
  BY <1>4 DEF noteVars
<1> QED BY <1>1, <1>2, <1>3, <1>4 DEF NoteNext

\* The queue is within its bounds at any time.
THEOREM NoteTypes == NoteSpec => []NoteTypeOK
<1>1. NoteInit => NoteTypeOK
  <2>1. <<>> \in Seq(Notes \cup {FullNote}) /\ Len(<<>>) = 0
    BY EmptySeq
  <2>2. Len(<<>>) <= MAX_MESSAGES /\ 0 \in 0..Len(<<>>)
    BY <2>1, QueueAssumption
  <2> QED BY <2>1, <2>2 DEF NoteInit, NoteTypeOK
<1> QED BY <1>1, NoteTypeStep, PTL DEF NoteSpec

\* A message that is added is one that the queue accepts.
LEMMA AddedIsAccepted ==
  ASSUME NoteTypeOK, NEW m \in Messages, add_new_queue_item(m),
         UNCHANGED <<last_num, ani_is_running>>
  PROVE  Fifo!FifoNext
<1>1. SubSeq(cv', last_num + 1, Len(cv')) = Append(SubSeq(cv, last_num + 1, Len(cv)), m)
  BY LeftOfAppend DEF NoteTypeOK, Messages, add_new_queue_item
<1>2. ani_is_running => cv'[last_num] = cv[last_num]
  BY DEF NoteTypeOK, Messages, add_new_queue_item
<1> QED BY <1>1, <1>2 DEF Fifo!FifoNext, Fifo!Accept, Messages

\* Every step is one of the promised queue, or none.
LEMMA NoteStepMaps == NoteTypeOK /\ [NoteNext]_noteVars => [Fifo!FifoNext]_(Fifo!fifoVars)
<1> SUFFICES ASSUME NoteTypeOK, [NoteNext]_noteVars PROVE [Fifo!FifoNext]_(Fifo!fifoVars)
  OBVIOUS
<1>1. ASSUME NEW m \in Notes, ani_notify(m) PROVE [Fifo!FifoNext]_(Fifo!fifoVars)
  <2>1. CASE UNCHANGED cv
    BY <1>1, <2>1 DEF ani_notify, Fifo!fifoVars
  <2>2. CASE \E n \in Messages : add_new_queue_item(n)
    BY <1>1, <2>2, AddedIsAccepted DEF ani_notify
  <2> QED BY <1>1, <2>1, <2>2 DEF ani_notify, Messages
<1>2. CASE AnimationEnds
  <2>1. cv[last_num] \in Messages /\ cv[last_num] # NoNote
    BY <1>2, QueueAssumption DEF AnimationEnds, NoteTypeOK, Messages
  <2> QED BY <1>2, <2>1 DEF AnimationEnds, Fifo!FifoNext, Fifo!Expire
<1>3. CASE ShowNext
  <2>1. CASE AllShown
    <3>1. SubSeq(cv, last_num + 1, Len(cv)) = <<>>
      BY <2>1, SubSeqEmpty DEF AllShown, NoteTypeOK
    <3>2. cv' = <<>> /\ last_num' = 0 /\ Len(<<>>) = 0
      BY <1>3, <2>1 DEF ShowNext
    <3>3. SubSeq(cv', last_num' + 1, Len(cv')) = <<>>
      BY <3>2, SubSeqEmpty
    <3> QED BY <1>3, <2>1, <3>1, <3>3 DEF ShowNext, Fifo!fifoVars
  <2>2. CASE ~AllShown
    <3>1. last_num + 1 \in 1..Len(cv) /\ Len(cv) \in (last_num + 1)..Len(cv)
      BY <2>2 DEF AllShown, NoteTypeOK
    <3>2. /\ Head(SubSeq(cv, last_num + 1, Len(cv))) = cv[last_num + 1]
          /\ Tail(SubSeq(cv, last_num + 1, Len(cv))) = SubSeq(cv, last_num + 1 + 1, Len(cv))
      BY <3>1, HeadTailOfSubSeq DEF NoteTypeOK
    <3>3. SubSeq(cv, last_num + 1, Len(cv)) # <<>>
      <4>1. Len(SubSeq(cv, last_num + 1, Len(cv))) = Len(cv) - last_num
        BY <3>1 DEF NoteTypeOK
      <4>2. last_num \in Nat /\ Len(cv) \in Nat /\ last_num < Len(cv)
        BY <3>1 DEF NoteTypeOK
      <4>3. Len(cv) - last_num # 0
        BY <4>2
      <4>4. Len(<<>>) = 0
        OBVIOUS
      <4> QED BY <4>1, <4>3, <4>4
    <3> QED BY <1>3, <2>2, <3>2, <3>3 DEF ShowNext, Fifo!FifoNext, Fifo!Show
  <2> QED BY <2>1, <2>2
<1>4. CASE UNCHANGED noteVars
  BY <1>4 DEF noteVars, Fifo!fifoVars
<1> QED BY <1>1, <1>2, <1>3, <1>4 DEF NoteNext

\* The queue implements what the notifications promise: each message that is
\* accepted is shown at most once, alone, and in its turn.  (That it is shown is
\* left to the fairness of NotesShown.)
THEOREM NotesInTurn == NoteSpec => Fifo!FifoSpec
<1>1. NoteInit => Fifo!FifoInit
  BY SubSeqEmpty DEF NoteInit, Fifo!FifoInit
<1> QED BY <1>1, NoteTypes, NoteStepMaps, PTL DEF NoteSpec, Fifo!FifoSpec

-----------------------------------------------------------------------------
(* AppList *)

\* In a finite set of numbers there is one of each rank.
LEMMA RankFound ==
  ASSUME NEW S \in SUBSET Nat, IsFiniteSet(S), NEW i \in 1..Cardinality(S)
  PROVE  \E a \in S : Cardinality({b \in S : b < a}) = i - 1
<1> DEFINE Below(a) == {b \in S : b < a}
           n == Cardinality(S)
           f == [a \in S |-> Cardinality(Below(a)) + 1]
<1>1. n \in Nat
  BY FS_CardinalityType
<1>2. ASSUME NEW a \in S
      PROVE  IsFiniteSet(Below(a)) /\ Cardinality(Below(a)) \in 0..n - 1
  <2>1. Below(a) \in SUBSET S /\ Below(a) # S
    OBVIOUS
  <2>2. IsFiniteSet(Below(a)) /\ Cardinality(Below(a)) <= n /\ Cardinality(Below(a)) # n
    BY <2>1, FS_Subset
  <2>3. Cardinality(Below(a)) \in Nat
    BY <2>2, FS_CardinalityType
  <2> QED BY <1>1, <2>2, <2>3
<1>3. ASSUME NEW a \in S, NEW b \in S, a < b
      PROVE  Cardinality(Below(a)) # Cardinality(Below(b))
  <2>1. \A c \in S : c < a => c < b
    BY <1>3
  <2>2. Below(a) \in SUBSET Below(b)
    BY <2>1
  <2>3. a \in Below(b) /\ a \notin Below(a)
    BY <1>3
  <2> QED BY <1>2, <2>2, <2>3, FS_Subset
<1>4. f \in [S -> 1..n]
  BY <1>1, <1>2
<1>5. ASSUME NEW a \in S, NEW b \in S, f[a] = f[b] PROVE a = b
  <2>1. Cardinality(Below(a)) = Cardinality(Below(b))
    BY <1>2, <1>5
  <2>2. ~(a < b) /\ ~(b < a)
    BY <1>3, <2>1
  <2> QED BY <2>2
<1>6. f \in Injection(S, 1..n)
  <2> HIDE DEF f
  <2> QED BY <1>4, <1>5 DEF Injection, IsInjective
<1>7. IsFiniteSet(1..n) /\ Cardinality(1..n) = n
  BY <1>1, FS_Interval
<1>8. f \in Surjection(S, 1..n)
  <2> HIDE DEF f
  <2> QED BY <1>6, <1>7, FS_Injection
<1>9. PICK a \in S : f[a] = i
  <2> HIDE DEF f
  <2> QED BY <1>8 DEF Surjection
<1>10. Cardinality(Below(a)) + 1 = i
  BY <1>9
<1>11. Cardinality(Below(a)) = i - 1
  <2> HIDE DEF Below
  <2> QED BY <1>2, <1>10
<1> QED BY <1>11

\* Sorting lists each member once, in order.
THEOREM SortedLists ==
  ASSUME NEW S \in SUBSET Nat, IsFiniteSet(S)
  PROVE  /\ Sorted(S) \in Seq(S) /\ Len(Sorted(S)) = Cardinality(S)
         /\ \A a \in S : \E i \in 1..Cardinality(S) : Sorted(S)[i] = a
         /\ \A i, j \in 1..Cardinality(S) : i < j => Sorted(S)[i] < Sorted(S)[j]
<1> DEFINE rank(a) == Cardinality({b \in S : b < a})
           n == Cardinality(S)
<1>1. n \in Nat
  BY FS_CardinalityType
<1>2. \A i \in 1..n : \E a \in S : rank(a) = i - 1
  BY RankFound
<1>3. ASSUME NEW i \in 1..n PROVE Sorted(S)[i] \in S /\ rank(Sorted(S)[i]) = i - 1
  <2>1. Sorted(S)[i] = CHOOSE a \in S : rank(a) = i - 1
    BY DEF Sorted
  <2> HIDE DEF rank
  <2> QED BY <1>2, <2>1
<1>4. Sorted(S) \in [1..n -> S]
  BY <1>3 DEF Sorted
<1>5. Sorted(S) \in Seq(S) /\ Len(Sorted(S)) = n
  <2> HIDE DEF n
  <2> QED BY <1>1, <1>4
<1>6. ASSUME NEW a \in S, NEW b \in S, b <= a
      PROVE  rank(b) <= rank(a) /\ (rank(b) = rank(a) => a = b)
  <2> \A c \in S : c < b => c < a
    BY <1>6
  <2>1. {c \in S : c < b} \in SUBSET {c \in S : c < a}
    OBVIOUS
  <2>2. IsFiniteSet({c \in S : c < a})
    <3>1. {c \in S : c < a} \in SUBSET S
      OBVIOUS
    <3> QED BY <3>1, FS_Subset
  <2>3. rank(b) <= rank(a) /\ (rank(b) = rank(a) => {c \in S : c < b} = {c \in S : c < a})
    BY <2>1, <2>2, FS_Subset
  <2>4. b # a => b \in {c \in S : c < a} /\ b \notin {c \in S : c < b}
    BY <1>6
  <2> QED BY <2>3, <2>4
<1>7. ASSUME NEW a \in S PROVE \E i \in 1..n : Sorted(S)[i] = a
  <2>1. rank(a) \in 0..n - 1
    <3>1. {c \in S : c < a} \in SUBSET S /\ {c \in S : c < a} # S
      OBVIOUS
    <3>2. IsFiniteSet({c \in S : c < a}) /\ rank(a) <= n /\ rank(a) # n
      BY <3>1, FS_Subset
    <3>3. rank(a) \in Nat
      BY <3>2, FS_CardinalityType
    <3> QED BY <1>1, <3>2, <3>3
  <2>2. rank(a) + 1 \in 1..n
    BY <1>1, <2>1
  <2>3. Sorted(S)[rank(a) + 1] \in S /\ rank(Sorted(S)[rank(a) + 1]) = rank(a)
    BY <1>3, <2>1, <2>2
  <2>4. Sorted(S)[rank(a) + 1] = a
    <3> DEFINE s == Sorted(S)[rank(a) + 1]
    <3>1. s \in S /\ rank(s) = rank(a)
      BY <2>3
    <3>2. s <= a \/ a <= s
      <4> HIDE DEF s
      <4> QED BY <3>1
    <3>3. s = a
      <4> HIDE DEF s, rank
      <4> QED BY <1>6, <3>1, <3>2
    <3> QED BY <3>3
  <2> QED BY <2>2, <2>4
<1>8. ASSUME NEW i \in 1..n, NEW j \in 1..n, i < j PROVE Sorted(S)[i] < Sorted(S)[j]
  <2> DEFINE a == Sorted(S)[i]
             b == Sorted(S)[j]
  <2>1. a \in S /\ b \in S /\ rank(a) = i - 1 /\ rank(b) = j - 1
    BY <1>3
  <2>2. ~(b <= a)
    <3> HIDE DEF a, b, rank
    <3> QED BY <1>1, <1>6, <1>8, <2>1
  <2>3. a < b
    <3> HIDE DEF a, b
    <3> QED BY <2>1, <2>2
  <2> QED BY <2>3
<1> QED BY <1>5, <1>7, <1>8

\* The list of the apps of S: placeholders fill it up, and come after the apps
\* unless it is sorted by title.
LEMMA ListingLists ==
  ASSUME NEW S \in SUBSET Apps, NEW title \in BOOLEAN
  PROVE  LET n == Cardinality(S)
             l == Listing(S, title)
         IN  /\ n \in Nat
             /\ l \in Seq(Apps \cup {Placeholder}) /\ Len(l) = n + MissingApps(n)
             /\ ~title => \A i \in 1..Len(l) : l[i] # Placeholder => i <= n
<1> DEFINE n == Cardinality(S)
           E == Apps \cup {Placeholder}
           fill == [i \in 1..MissingApps(n) |-> Placeholder]
           early == S \cap Early
           late == S \ Early
<1>1. IsFiniteSet(S) /\ n \in Nat /\ S \in SUBSET Nat
  BY AppsAssumption, FS_Subset, FS_CardinalityType
<1>2. MissingApps(n) \in Nat
  BY <1>1 DEF MissingApps, MIN_NUMBER_OF_IF_APPS
<1>3. ASSUME NEW T \in SUBSET S
      PROVE  Sorted(T) \in Seq(E) /\ Len(Sorted(T)) = Cardinality(T) /\ Cardinality(T) \in Nat
  <2>1. IsFiniteSet(T) /\ T \in SUBSET Nat
    BY <1>1, FS_Subset
  <2>2. Sorted(T) \in Seq(T) /\ Len(Sorted(T)) = Cardinality(T) /\ Cardinality(T) \in Nat
    BY <2>1, SortedLists, FS_CardinalityType
  <2>3. T \subseteq E
    OBVIOUS
  <2> HIDE DEF E
  <2> QED BY <2>2, <2>3
<1>4. /\ fill \in Seq(E) /\ Len(fill) = MissingApps(n)
      /\ \A i \in 1..MissingApps(n) : fill[i] = Placeholder
  BY <1>2
<1>5. CASE title
  <2>1. Listing(S, title) = Sorted(early) \o fill \o Sorted(late)
    BY <1>5 DEF Listing
  <2>2. early \in SUBSET S /\ late \in SUBSET S
    OBVIOUS
  <2>3. Cardinality(early) + Cardinality(late) = n
    <3>1. Cardinality(late) = n - Cardinality(early)
      BY <1>1, FS_Difference
    <3> QED BY <1>1, <1>3, <2>2, <3>1
  <2> HIDE DEF E, fill, early, late, n
  <2>4. /\ Sorted(early) \in Seq(E) /\ Len(Sorted(early)) = Cardinality(early)
        /\ Sorted(late) \in Seq(E) /\ Len(Sorted(late)) = Cardinality(late)
        /\ Cardinality(early) \in Nat /\ Cardinality(late) \in Nat
    BY <1>3, <2>2
  <2>5. /\ Sorted(early) \o fill \in Seq(E)
        /\ Len(Sorted(early) \o fill) = Cardinality(early) + MissingApps(n)
    BY <1>4, <2>4, ConcatProperties
  <2>6. /\ Sorted(early) \o fill \o Sorted(late) \in Seq(E)
        /\ Len(Sorted(early) \o fill \o Sorted(late))
             = Cardinality(early) + MissingApps(n) + Cardinality(late)
    BY <2>4, <2>5, ConcatProperties
  <2>7. Len(Listing(S, title)) = n + MissingApps(n)
    BY <1>1, <1>2, <2>1, <2>3, <2>4, <2>6
  <2> QED BY <1>1, <1>5, <2>1, <2>6, <2>7 DEF n, E
<1>6. CASE ~title
  <2>1. Listing(S, title) = Sorted(S) \o fill
    BY <1>6 DEF Listing, Order
  <2> HIDE DEF E, fill, n
  <2>2. Sorted(S) \in Seq(E) /\ Len(Sorted(S)) = n
    BY <1>3 DEF n
  <2>3. /\ Sorted(S) \o fill \in Seq(E) /\ Len(Sorted(S) \o fill) = n + MissingApps(n)
        /\ \A i \in 1..n + MissingApps(n) :
             (Sorted(S) \o fill)[i] = IF i <= n THEN Sorted(S)[i] ELSE fill[i - n]
    <3> DEFINE s == Sorted(S)
               m == MissingApps(n)
    <3>1. fill \in Seq(E) /\ Len(fill) = m /\ s \in Seq(E) /\ Len(s) = n
      BY <1>4, <2>2
    <3>2. /\ s \o fill \in Seq(E) /\ Len(s \o fill) = n + m
          /\ \A i \in 1..n + m : (s \o fill)[i] = IF i <= n THEN s[i] ELSE fill[i - n]
      <4> HIDE DEF s, m
      <4>1. /\ s \o fill \in Seq(E) /\ Len(s \o fill) = Len(s) + Len(fill)
            /\ \A i \in 1..Len(s) + Len(fill) :
                 (s \o fill)[i] = IF i <= Len(s) THEN s[i] ELSE fill[i - Len(s)]
        BY <3>1, ConcatProperties
      <4> QED BY <3>1, <4>1
    <3> QED BY <3>2
  <2>4. \A i \in 1..n + MissingApps(n) : i > n => i - n \in 1..MissingApps(n)
    BY <1>1, <1>2
  <2>5. \A i \in 1..n + MissingApps(n) : (Sorted(S) \o fill)[i] # Placeholder => i <= n
    BY <1>1, <1>2, <1>4, <2>3, <2>4
  <2> QED BY <1>1, <2>1, <2>3, <2>5 DEF n, E
<1> QED BY <1>5, <1>6

\* What can be selected from n apps: pm_r at the start, and without any app 0
\* and 1.
Selectable(n) == 1..n \cup {pm_r} \cup (IF n = 0 THEN {0, 1} ELSE {})

\* What is drawn around the selection is in the list for any number of apps,
\* of which the list has MIN_NUMBER_OF_IF_APPS entries at least.
THEOREM WindowInList ==
  ASSUME NEW n \in Nat, NEW g \in Selectable(n), NEW j \in Drawn(n)
  PROVE  TexIdx(g, n, j) \in 0..n + MissingApps(n)
  BY DEF Selectable, TexIdx, Drawn, MissingApps, MIN_NUMBER_OF_IF_APPS, pm_r

\* The list is that of some apps, all of which are counted, except while it is
\* read, and the selection is one that can be made.
ListFits ==
  /\ rescanPc = "index" => all_apps = <<>>
  /\ rescanPc # "index" =>
       \E S \in SUBSET Apps : all_apps = Listing(S, byTitle) /\ token_c = Cardinality(S)
  /\ ~Rescanning => g_idx \in Selectable(token_c)

ListIInv == AppTypeOK /\ ListFits

\* Every step of the user interface keeps the invariant.
LEMMA ListByUser ==
  ASSUME ListIInv,
         \/ RescanClears \/ RescanIndexes \/ RescanEnds \/ AskToEject \/ EjectDisc
         \/ UnmarkDisc \/ PressButton \/ \E d \in {-1, 1} : MoveSelection(d)
  PROVE  ListIInv'
<1> USE DEF ListIInv, AppTypeOK, idleVars, listVars, discVars, Rescanning
<1>1. CASE RescanClears
  <2>1. scannedList' \in BOOLEAN /\ all_apps' = <<>> /\ rescanPc' = "index"
    BY <1>1, Zenon DEF RescanClears
  <2>2. <<>> \in Seq(Apps \cup {Placeholder})
    BY EmptySeq
  <2>3. UNCHANGED <<token_c, g_idx, byTitle, disc, is_disc_inserted, inserted_disc, found, swapped,
                    reset_idle_timer, is_idle, utilPc>>
    BY <1>1 DEF RescanClears
  <2> QED BY <2>1, <2>2, <2>3 DEF ListFits
<1>2. CASE RescanIndexes
  <2>1. PICK S \in SUBSET Apps : all_apps' = Listing(S, byTitle') /\ token_c' = Cardinality(S)
    BY <1>2 DEF RescanIndexes
  <2>2. byTitle' \in BOOLEAN /\ scannedList' \in BOOLEAN /\ rescanPc' = "end"
    BY <1>2, Zenon DEF RescanIndexes
  <2>3. all_apps' \in Seq(Apps \cup {Placeholder}) /\ token_c' \in Nat
    BY <2>1, <2>2, ListingLists
  <2>4. UNCHANGED <<g_idx, disc, is_disc_inserted, inserted_disc, found, swapped,
                    reset_idle_timer, is_idle, utilPc>>
    BY <1>2 DEF RescanIndexes
  <2> QED BY <2>1, <2>2, <2>3, <2>4 DEF ListFits
<1>3. CASE RescanEnds
  <2>1. /\ scannedList' \in BOOLEAN /\ swapped' \in BOOLEAN
        /\ is_disc_inserted' = FALSE /\ inserted_disc' = NOT_INSERTED
    <3>1. Scanning \in BOOLEAN
      BY SMT DEF Scanning
    <3>2. scannedList' = Scanning /\ swapped' = (swapped /\ Scanning)
      BY <1>3, Zenon DEF RescanEnds
    <3>3. scannedList' \in BOOLEAN
      BY <3>1, <3>2, Zenon
    <3>4. swapped' \in BOOLEAN
      BY <3>2, Zenon
    <3>5. is_disc_inserted' = FALSE /\ inserted_disc' = NOT_INSERTED
      BY <1>3, Zenon DEF RescanEnds, ForgetDisc
    <3> QED BY <3>3, <3>4, <3>5
  <2>2. /\ rescanPc' = "no" /\ rescanPc = "end" /\ g_idx' = 1
        /\ UNCHANGED <<all_apps, token_c, byTitle, disc, found, reset_idle_timer, is_idle, utilPc>>
    BY <1>3 DEF RescanEnds
  <2>3. 1 \in Selectable(token_c)
    BY DEF Selectable
  <2> QED BY <2>1, <2>2, <2>3 DEF ListFits
<1>4. CASE AskToEject \/ EjectDisc \/ UnmarkDisc
  <2>1. /\ UNCHANGED <<all_apps, token_c, g_idx, byTitle>>
        /\ ~Rescanning /\ rescanPc' \in {"no", "confirm", "ejected"}
    BY <1>4 DEF AskToEject, EjectDisc, UnmarkDisc
  <2>2. ListFits'
    BY <2>1 DEF ListFits
  <2>3. disc' \in {disc, Placeholder} /\ inserted_disc' \in {inserted_disc, -1}
    BY <1>4, Zenon DEF AskToEject, EjectDisc, UnmarkDisc
  <2>4. UNCHANGED <<is_disc_inserted, found, scannedList, swapped, reset_idle_timer, is_idle,
      utilPc>>
    BY <1>4 DEF AskToEject, EjectDisc, UnmarkDisc
  <2> QED BY <2>1, <2>2, <2>3, <2>4
<1>5. CASE PressButton
  <2>1. UNCHANGED <<listVars, discVars, is_idle, utilPc>> /\ reset_idle_timer' = TRUE
    BY <1>5 DEF PressButton
  <2>2. ListFits'
    BY <2>1 DEF ListFits
  <2> QED BY <2>1, <2>2
<1>6. ASSUME NEW d \in {-1, 1}, MoveSelection(d) PROVE ListIInv'
  <2>1. /\ rescanPc = "no"
        /\ UNCHANGED <<all_apps, token_c, byTitle, rescanPc, discVars, idleVars, utilPc>>
    BY <1>6 DEF MoveSelection
  <2>2. g_idx' \in Nat /\ g_idx' \in Selectable(token_c)
    BY <1>6, <2>1 DEF MoveSelection, ListFits, Selectable, pm_r
  <2> QED BY <2>1, <2>2 DEF ListFits
<1> QED BY <1>1, <1>2, <1>3, <1>4, <1>5, <1>6

\* The thread and the console leave the list alone.
LEMMA ListByOthers ==
  ASSUME ListIInv, UtilThread \/ RemoveDisc \/ \E a \in Apps : InsertDisc(a)
  PROVE  ListIInv'
<1> USE DEF ListIInv, AppTypeOK, idleVars, listVars, discVars, Rescanning
<1>1. UNCHANGED listVars
  BY DEF UtilThread, UtilRound, ResetClock, CheckIdle, AskForDisc, WalkList, MarkDisc, FlagDisc,
         RemoveDisc, InsertDisc
<1>2. ListFits'
  BY <1>1 DEF ListFits
<1>3. CASE UtilRound \/ ResetClock
  BY <1>2, <1>3 DEF UtilRound, ResetClock
<1>4. CASE CheckIdle
  BY <1>2, <1>4 DEF CheckIdle
<1>5. CASE AskForDisc
  <2> HIDE DEF Rescanning
  <2>0. Rescanning \in BOOLEAN
    BY SMT DEF Rescanning
  <2>1. /\ is_disc_inserted' \in BOOLEAN /\ swapped' \in BOOLEAN /\ scannedList' \in BOOLEAN
        /\ inserted_disc' \in {inserted_disc, NOT_INSERTED} /\ utilPc' \in {"round", "walk"}
        /\ found' \in {found, disc} /\ UNCHANGED <<listVars, disc, idleVars>>
    BY <1>5, <2>0, Zenon DEF AskForDisc, ForgetDisc
  <2>2. disc \in Nat
    BY AppsAssumption DEF Placeholder
  <2> QED BY <1>2, <2>1, <2>2
<1>6. CASE WalkList
  <2>1. found' \in Nat
    <3>1. DOMAIN all_apps \subseteq Nat
      OBVIOUS
    <3> QED BY <1>6, <3>1 DEF WalkList
  <2>2. utilPc' \in {"mark", "round"}
    BY <1>6, Zenon DEF WalkList
  <2>3. UNCHANGED <<disc, is_disc_inserted, inserted_disc, scannedList, swapped, idleVars>>
    BY <1>6, Zenon DEF WalkList
  <2>4. AppTypeOK'
    BY <1>1, <2>1, <2>2, <2>3
  <2> QED BY <1>2, <2>4
<1>7. CASE MarkDisc \/ FlagDisc
  <2>1. /\ utilPc' \in {"flag", "round"} /\ inserted_disc' \in {inserted_disc, found}
        /\ found' \in {found, 0}
        /\ UNCHANGED <<disc, scannedList, swapped, idleVars>>
    BY <1>7, Zenon DEF MarkDisc, FlagDisc
  <2>2. is_disc_inserted' \in BOOLEAN
    BY <1>7, Zenon DEF MarkDisc, FlagDisc
  <2> QED BY <1>1, <1>2, <2>1, <2>2
<1>8. CASE RemoveDisc
  BY <1>2, <1>8 DEF RemoveDisc
<1>9. ASSUME NEW a \in Apps, InsertDisc(a) PROVE ListIInv'
  <2>1. swapped' \in BOOLEAN
    BY <1>9, Zenon DEF InsertDisc
  <2> QED BY <1>2, <1>9, <2>1 DEF InsertDisc
<1> QED BY <1>3, <1>4, <1>5, <1>6, <1>7, <1>8, <1>9 DEF UtilThread

\* Every state of the list satisfies the invariant.
LEMMA ListInvariant == AppListSpec => []ListIInv
<1>1. AppInit => ListIInv
  <2> SUFFICES ASSUME AppInit PROVE ListIInv
    OBVIOUS
  <2>1. Apps \in SUBSET Apps /\ FALSE \in BOOLEAN
    OBVIOUS
  <2>2. Listing(Apps, FALSE) \in Seq(Apps \cup {Placeholder}) /\ Cardinality(Apps) \in Nat
    BY <2>1, ListingLists
  <2>3. AppTypeOK
    BY <2>2 DEF AppInit, AppTypeOK, pm_r
  <2>4. ListFits
    BY <2>1 DEF AppInit, ListFits, Rescanning, Selectable
  <2> QED BY <2>3, <2>4 DEF ListIInv
<1>2. ListIInv /\ [AppListNext]_appVars => ListIInv'
  <2> SUFFICES ASSUME ListIInv, [AppListNext]_appVars PROVE ListIInv'
    OBVIOUS
  <2>1. CASE UNCHANGED appVars
    BY <2>1 DEF ListIInv, ListFits, AppTypeOK, Rescanning, appVars, idleVars, listVars, discVars
  <2> QED BY <2>1, ListByUser, ListByOthers DEF AppListNext
<1> QED BY <1>1, <1>2, PTL DEF AppListSpec

\* Nothing outside of the list is drawn and no app is left out of what can be
\* selected, for any number of apps and however the list is read anew, but for
\* the placeholders that are sorted by title.
THEOREM ListAlwaysUsable == AppListSpec => []ListUsable
<1>1. ListIInv => ListUsable
  <2> SUFFICES ASSUME ListIInv PROVE ListUsable
    OBVIOUS
  <2>1. CASE rescanPc = "index"
    <3>1. DOMAIN all_apps = {}
      BY <2>1 DEF ListIInv, ListFits
    <3> QED BY <2>1, <3>1 DEF ListUsable, DrawInBounds, AppsReachable, Rescanning
  <2>2. CASE rescanPc # "index"
    <3>1. PICK S \in SUBSET Apps : all_apps = Listing(S, byTitle) /\ token_c = Cardinality(S)
      BY <2>2 DEF ListIInv, ListFits
    <3>2. byTitle \in BOOLEAN /\ all_apps \in Seq(Apps \cup {Placeholder})
      BY DEF ListIInv, AppTypeOK
    <3>3. /\ token_c \in Nat /\ Len(all_apps) = token_c + MissingApps(token_c)
          /\ ~byTitle => \A i \in 1..Len(all_apps) : all_apps[i] # Placeholder => i <= token_c
      BY <3>1, <3>2, ListingLists
    <3>4. AppsReachable
      BY <3>2, <3>3 DEF AppsReachable
    <3>5. DrawInBounds
      BY <3>3, WindowInList DEF ListIInv, ListFits, DrawInBounds
    <3> QED BY <3>4, <3>5 DEF ListUsable
  <2> QED BY <2>1, <2>2
<1> QED BY <1>1, ListInvariant, PTL

\* The scan, from the title it asked for to the index it stores.
ScanRight ==
  /\ inserted_disc > 0 => is_disc_inserted \/ utilPc = "flag"
  /\ ~scannedList /\ ~swapped /\ disc # Placeholder =>
       /\ utilPc = "walk" => ~Rescanning /\ found = disc
       /\ utilPc = "mark" => ~Rescanning /\ all_apps[found] = disc
  /\ DiscMarked

\* Every step of the user interface keeps the invariant.
LEMMA ScanByUser ==
  ASSUME ScanRight,
         \/ RescanClears \/ RescanIndexes \/ RescanEnds \/ AskToEject \/ EjectDisc
         \/ UnmarkDisc \/ PressButton \/ \E d \in {-1, 1} : MoveSelection(d)
  PROVE  ScanRight'
<1> USE DEF ScanRight, DiscMarked, idleVars, listVars, discVars, Scanning, Rescanning
<1>1. CASE RescanClears \/ RescanIndexes
  <2>1. scannedList' <=> (scannedList \/ Scanning)
    BY <1>1, Zenon DEF RescanClears, RescanIndexes
  <2> QED BY <1>1, <2>1 DEF RescanClears, RescanIndexes
<1>2. CASE RescanEnds
  <2>1. (scannedList' <=> Scanning) /\ inserted_disc' = -999
    BY <1>2, Zenon DEF RescanEnds, ForgetDisc, NOT_INSERTED
  <2> QED BY <1>2, <2>1 DEF RescanEnds
<1>3. CASE AskToEject \/ EjectDisc \/ UnmarkDisc
  BY <1>3 DEF AskToEject, EjectDisc, UnmarkDisc
<1>4. CASE PressButton
  BY <1>4 DEF PressButton
<1>5. ASSUME NEW d \in {-1, 1}, MoveSelection(d) PROVE ScanRight'
  BY <1>5 DEF MoveSelection
<1> QED BY <1>1, <1>2, <1>3, <1>4, <1>5

\* So does every step of the scan.
LEMMA ScanByThread ==
  ASSUME ScanRight, UtilThread
  PROVE  ScanRight'
<1> USE DEF ScanRight, DiscMarked, idleVars, listVars, discVars, Rescanning
<1>1. CASE UtilRound \/ ResetClock \/ CheckIdle
  BY <1>1 DEF UtilRound, ResetClock, CheckIdle
<1>2. CASE AskForDisc
  <2>1. CASE disc = Placeholder
    BY <1>2, <2>1 DEF AskForDisc, ForgetDisc, NOT_INSERTED
  <2>2. CASE disc # Placeholder
    <3>1. scannedList' <=> IF utilPc' = "walk" THEN Rescanning ELSE scannedList
      BY <1>2, <2>2 DEF AskForDisc
    <3>2. utilPc' = "walk" => ~is_disc_inserted /\ found' = disc
      BY <1>2, <2>2 DEF AskForDisc
    <3> QED BY <1>2, <2>2, <3>1, <3>2 DEF AskForDisc
  <2> QED BY <2>1, <2>2
<1>3. CASE WalkList
  BY <1>3 DEF WalkList, HasDisc
<1>4. CASE MarkDisc
  BY <1>4 DEF MarkDisc
<1>5. CASE FlagDisc
  BY <1>5 DEF FlagDisc
<1> QED BY <1>1, <1>2, <1>3, <1>4, <1>5 DEF UtilThread

\* Every state satisfies the invariant.
LEMMA ScanAlwaysRight == AppListSpec => []ScanRight
<1>1. AppInit => ScanRight
  BY DEF AppInit, ScanRight, DiscMarked, Rescanning
<1>2. ScanRight /\ [AppListNext]_appVars => ScanRight'
  <2> SUFFICES ASSUME ScanRight, [AppListNext]_appVars PROVE ScanRight'
    OBVIOUS
  <2>1. ASSUME NEW a \in Apps, InsertDisc(a) PROVE ScanRight'
    <3>1. swapped' <=> (swapped \/ is_disc_inserted \/ Scanning)
      BY <2>1, Zenon DEF InsertDisc
    <3> QED BY <2>1, <3>1
            DEF InsertDisc, ScanRight, DiscMarked, Scanning, Rescanning, idleVars, listVars
  <2>2. CASE RemoveDisc
    BY <2>2 DEF RemoveDisc, ScanRight, DiscMarked, Rescanning, idleVars, listVars
  <2>3. CASE UNCHANGED appVars
    BY <2>3 DEF appVars, ScanRight, DiscMarked, Rescanning, idleVars, listVars, discVars
  <2> QED BY <2>1, <2>2, <2>3, ScanByUser, ScanByThread DEF AppListNext
<1> QED BY <1>1, <1>2, PTL DEF AppListSpec

\* The entry that is marked is the disc's, for any apps, but for a list that was
\* read anew during the scan and a disc that was changed since.
THEOREM MarksDisc == AppListSpec => []DiscMarked
<1>1. ScanRight => DiscMarked
  BY DEF ScanRight
<1> QED BY <1>1, ScanAlwaysRight, PTL
-----------------------------------------------------------------------------
(* The parts together *)

\* A step of the whole is a step of each part or leaves the part alone.
LEMMA StepOfParts ==
  [Next]_vars =>
    /\ [StatsNext]_statsVars /\ [DumpNext]_dumpVars /\ [UpdNext]_updVars
    /\ [InstNext]_instVars /\ [LoaderNext]_loaderVars /\ [NoteNext]_noteVars
    /\ [PlayNext]_playVars /\ [AppListNext]_appVars /\ [MoveNext]_moveVars
<1> SUFFICES ASSUME [Next]_vars
             PROVE  /\ [StatsNext]_statsVars /\ [DumpNext]_dumpVars /\ [UpdNext]_updVars
                    /\ [InstNext]_instVars /\ [LoaderNext]_loaderVars /\ [NoteNext]_noteVars
                    /\ [PlayNext]_playVars /\ [AppListNext]_appVars /\ [MoveNext]_moveVars
  OBVIOUS
<1>1. CASE Stats
  BY <1>1 DEF Stats
<1>2. CASE Dump
  BY <1>2 DEF Dump
<1>3. CASE Update
  BY <1>3 DEF Update
<1>4. CASE Install
  BY <1>4 DEF Install
<1>5. CASE Load
  BY <1>5 DEF Load
<1>6. CASE Notify
  BY <1>6 DEF Notify
<1>7. CASE Play
  BY <1>7 DEF Play
<1>8. CASE List
  BY <1>8 DEF List
<1>9. CASE Move
  BY <1>9 DEF Move
<1>10. CASE UNCHANGED vars
  BY <1>10 DEF vars
<1> QED BY <1>1, <1>2, <1>3, <1>4, <1>5, <1>6, <1>7, <1>8, <1>9, <1>10 DEF Next

\* Seen from one part, a behaviour of the whole is a behaviour of the part, in
\* which the other parts take no step.
THEOREM WholeOfParts ==
  Spec => /\ StatsSpec /\ DumpSpec /\ UpdSpec /\ InstSpec /\ LoaderSpec /\ NoteSpec /\ PlaySpec
          /\ AppListSpec /\ MoveSpec
<1>1. Init => /\ StatsInit /\ DumpInit /\ UpdInit /\ InstInit /\ LoaderInit /\ NoteInit /\ PlayInit
              /\ AppInit /\ MoveInit
  BY DEF Init
<1> QED
  BY <1>1, StepOfParts, PTL
  DEF Spec, StatsSpec, DumpSpec, UpdSpec, InstSpec, LoaderSpec, NoteSpec, PlaySpec, AppListSpec,
      MoveSpec

\* Whatever the daemon, the app and the loader do, every part's variables stay
\* in their ranges, for any titles, threads, apps and limits.
THEOREM PartsTyped == Spec => []PartsTypeOK
<1>1. /\ StatsIInv => StatsTypeOK
      /\ UpdIInv => UpdTypeOK
      /\ InstIInv => InstTypeOK
      /\ LoaderIInv => LoaderTypeOK
      /\ ListIInv => AppTypeOK
  BY DEF StatsIInv, UpdIInv, InstIInv, LoaderIInv, ListIInv
<1>2. /\ StatsTypeOK /\ DumpTypeOK /\ UpdTypeOK /\ InstTypeOK /\ LoaderTypeOK /\ NoteTypeOK
      /\ PlayTypeOK /\ AppTypeOK /\ MoveTypeOK
      => PartsTypeOK
  BY DEF PartsTypeOK
<1> QED
  BY <1>1, <1>2, WholeOfParts, StatsInvariant, DumpTypes, UpdInvariant, InstInvariant,
     LoaderInvariant, NoteTypes, PlayTypes, ListInvariant, MoveTypes, PTL

\* What the parts promise holds of the whole: the statistics are counted with
\* the handle that was opened for them, no settings, service, daemon package or
\* app package is lost, the page and the list show what they should, and a game
\* is dumped or suspended only if it was asked for.
THEOREM WholeKeepsPromises ==
  Spec => /\ [](/\ QueryHandleLives /\ SettingsKept /\ ServiceKept /\ InstallsDaemon
                /\ MinutesOfPage /\ ListUsable /\ DiscMarked /\ PackageKept)
          /\ DumpsAsked /\ SuspendsAsked /\ StartRepairs /\ Fifo!FifoSpec
<1> QED
  BY WholeOfParts, QueriesKeepHandle, SettingsAlwaysKept, ServiceStaysUp, AlwaysInstallsDaemon,
     PageShowsItsMinutes, ListAlwaysUsable, MarksDisc, PackageAlwaysKept, DumpsOnlyAsked,
     SuspendsOnlyAsked, StartsRepaired, NotesInTurn, PTL
=============================================================================
