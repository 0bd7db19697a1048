------------------------- MODULE GeneticPieceProofs --------------------------
(***************************************************************************)
(* The genetic piece: its types, the room of its arrays, the cutting into   *)
(* measures, and that what is played is what was evolved, for every length  *)
(* of measure, number of bars and samples.                                  *)
(***************************************************************************)
EXTENDS GeneticPiece, SequenceTheorems, WellFoundedInduction, TLAPS

(* What piece_to_list builds.  Each entry begins where the one before ends, *)
(* none goes over the bar line, and a continuation begins a measure.        *)
Chained ==
  \A k \in 1..Len(finalist) :
    /\ k = 1 => finalist[k].at = 0
    /\ finalist[k].cont => finalist[k].at = 0
    /\ k < Len(finalist) =>
         /\ finalist[k].at + finalist[k].tempo <= Q
         /\ finalist[k + 1].at = After(finalist[k].at, finalist[k].tempo)

(* The last entry, against the count of the measure: it is about to be      *)
(* split, or the count says where the next one begins.                      *)
LastEntry ==
  IF finalist = <<>>
  THEN sqcount = 0 /\ phase # "split"
  ELSE LET last == finalist[Len(finalist)]
       IN IF phase = "split"
          THEN /\ ~last.cont /\ last.at = sqcount
               /\ last.at + last.tempo > Q
          ELSE /\ last.at + last.tempo <= Q
               /\ sqcount = After(last.at, last.tempo)

(* compose_measure_genetic has not begun before the list is complete.       *)
NotBegun ==
  phase \in {"rehearsal", "evolve", "list", "split"} => node = 1 /\ tempo = 0

(* How long the measure is so far is where the entry to come begins.        *)
InStep ==
  /\ node <= Len(finalist) => tempo = finalist[node].at
  /\ tempo = 0 => measure = <<>>

CutInv == Chained /\ LastEntry /\ NotBegun /\ InStep /\ WellCut

(* The room is never less than at first, so that doubling it makes room for *)
(* a measure more.                                                          *)
RoomInv ==
  /\ NotesFit
  /\ ginitial.size >= StartSize /\ ggoal.size >= StartSize

IInv == TypeOK /\ CutInv /\ RoomInv

-----------------------------------------------------------------------------
(* The arrays: every sum of measures fits after one doubling.               *)
LEMMA RoomSuffices ==
  ASSUME NEW store \in Store, NEW n \in 0..Q,
         store.count <= store.size, store.size >= StartSize
  PROVE  /\ Stored(store, n) \in Store
         /\ Stored(store, n).count <= Stored(store, n).size
         /\ Stored(store, n).size >= StartSize
         /\ Room(store, n) \in Nat /\ Room(store, n) >= store.size
BY PieceAssumption DEF Store, Stored, Room

(* Where an entry ends is inside the measure, or its end.                   *)
LEMMA AfterInMeasure ==
  ASSUME NEW s \in 0..Q-1, NEW t \in 1..Q, s + t <= Q
  PROVE  After(s, t) \in 0..Q-1
BY PieceAssumption DEF After

(* A new entry that begins where the list ends keeps it chained.            *)
LEMMA ChainGrows ==
  ASSUME NEW list \in Seq(Entry), NEW e \in Entry,
         \A k \in 1..Len(list) :
           /\ k = 1 => list[k].at = 0
           /\ list[k].cont => list[k].at = 0
           /\ k < Len(list) => /\ list[k].at + list[k].tempo <= Q
                               /\ list[k + 1].at = After(list[k].at, list[k].tempo),
         e.cont => e.at = 0,
         list = <<>> => e.at = 0,
         list # <<>> => LET last == list[Len(list)]
                        IN last.at + last.tempo <= Q /\ e.at = After(last.at, last.tempo)
  PROVE  LET longer == Append(list, e)
         IN \A k \in 1..Len(longer) :
              /\ k = 1 => longer[k].at = 0
              /\ longer[k].cont => longer[k].at = 0
              /\ k < Len(longer) => /\ longer[k].at + longer[k].tempo <= Q
                                   /\ longer[k + 1].at = After(longer[k].at, longer[k].tempo)
<1> DEFINE longer == Append(list, e)
<1>1. Len(longer) = Len(list) + 1 /\ Len(list) \in Nat /\ longer[Len(list) + 1] = e
  OBVIOUS
<1>2. \A k \in 1..Len(list) : longer[k] = list[k]
  OBVIOUS
<1>3. list = <<>> <=> Len(list) = 0
  OBVIOUS
<1> HIDE DEF longer
<1>4. SUFFICES ASSUME NEW k \in 1..Len(longer)
               PROVE  /\ k = 1 => longer[k].at = 0
                      /\ longer[k].cont => longer[k].at = 0
                      /\ k < Len(longer) => /\ longer[k].at + longer[k].tempo <= Q
                                           /\ longer[k + 1].at = After(longer[k].at, longer[k].tempo)
  BY DEF longer
<1>5. CASE k = Len(list) + 1
  BY <1>1, <1>3, <1>5
<1>6. CASE k = Len(list)
  BY <1>1, <1>2, <1>3, <1>6
<1>7. CASE k < Len(list)
  BY <1>1, <1>2, <1>7
<1> QED
  BY <1>1, <1>5, <1>6, <1>7

-----------------------------------------------------------------------------
LEMMA InitInv == Init => IInv
BY PieceAssumption
   DEF Init, IInv, TypeOK, Store, CutInv, Chained, LastEntry, NotBegun, InStep, WellCut,
       RoomInv, NotesFit

LEMMA RehearseStep == IInv /\ Rehearse => IInv'
<1> SUFFICES ASSUME IInv, Rehearse
             PROVE  IInv'
  OBVIOUS
<1> USE DEF listVars, playVars
<1>1. ASSUME NEW n \in 0..Q-1, NEW g \in GoalSizes, StoreGmeasure(n, g)
      PROVE  IInv'
  <2>1. n \in 0..Q /\ g \in 0..Q
    BY PieceAssumption
  <2>2. /\ ginitial' \in Store /\ ginitial'.count <= ginitial'.size /\ ginitial'.size >= StartSize
        /\ ggoal' \in Store /\ ggoal'.count <= ggoal'.size /\ ggoal'.size >= StartSize
    BY <1>1, <2>1, RoomSuffices DEF IInv, TypeOK, RoomInv, NotesFit, StoreGmeasure
  <2>3. TypeOK'
    BY <1>1, <2>2, PieceAssumption DEF IInv, TypeOK, StoreGmeasure
  <2>4. CutInv'
    BY <1>1 DEF IInv, CutInv, Chained, LastEntry, NotBegun, InStep, WellCut, StoreGmeasure
  <2> QED
    BY <2>2, <2>3, <2>4 DEF IInv, RoomInv, NotesFit
<1>2. ASSUME NEW n \in 0..Q-1, NEW g \in GoalSizes, StoreWithoutGoal(n, g)
      PROVE  IInv'
  <2>1. n \in 0..Q /\ g \in 0..Q
    BY PieceAssumption
  <2>2. /\ ginitial' \in Store /\ ginitial'.count <= ginitial'.size /\ ginitial'.size >= StartSize
        /\ Room(ggoal, g) \in Nat /\ Room(ggoal, g) >= ggoal.size
    BY <1>2, <2>1, RoomSuffices DEF IInv, TypeOK, RoomInv, NotesFit, StoreWithoutGoal
  <2>3. ggoal' \in Store /\ ggoal'.count <= ggoal'.size /\ ggoal'.size >= StartSize
    <3>1. ggoal \in Store /\ ggoal' = [ggoal EXCEPT !.size = Room(ggoal, g)]
      BY <1>2 DEF IInv, TypeOK, StoreWithoutGoal
    <3>2. ggoal' \in Store /\ ggoal'.count = ggoal.count /\ ggoal'.size = Room(ggoal, g)
      BY <2>2, <3>1 DEF Store
    <3>3. ggoal.count \in Nat /\ ggoal.size \in Nat /\ StartSize \in Nat
          /\ ggoal.count <= ggoal.size /\ ggoal.size >= StartSize
      BY <3>1, PieceAssumption DEF Store, IInv, RoomInv, NotesFit
    <3> QED
      BY <2>2, <3>2, <3>3
  <2>4. TypeOK'
    BY <1>2, <2>2, <2>3, PieceAssumption DEF IInv, TypeOK, StoreWithoutGoal
  <2>5. CutInv'
    BY <1>2 DEF IInv, CutInv, Chained, LastEntry, NotBegun, InStep, WellCut, StoreWithoutGoal
  <2> QED
    BY <2>2, <2>3, <2>4, <2>5 DEF IInv, RoomInv, NotesFit
<1>3. CASE StoreNothing
  BY <1>3, PieceAssumption
     DEF IInv, TypeOK, CutInv, Chained, LastEntry, NotBegun, InStep, WellCut,
         RoomInv, NotesFit, StoreNothing
<1> QED
  BY <1>1, <1>2, <1>3 DEF Rehearse

LEMMA EvolveStep ==
  IInv /\ (EndRehearsal \/ GeneticLoop \/ GeneticLoopCrashes \/ EndOfPiece
           \/ TakeListHead \/ EndOfConcert) => IInv'
<1> SUFFICES ASSUME IInv
             PROVE  EndRehearsal \/ GeneticLoop \/ GeneticLoopCrashes \/ EndOfPiece
                      \/ TakeListHead \/ EndOfConcert => IInv'
  OBVIOUS
<1> USE DEF storeVars, listVars, playVars
<1>1. CASE GeneticLoop
  <2>1. piece' \in Seq(1..MAX_TEMPO)
    <3>1. ggoal.count \in Nat /\ piece' \in [1..ggoal.count -> 1..MAX_TEMPO]
      BY <1>1 DEF GeneticLoop, NewTempo, IInv, TypeOK, Store
    <3> QED
      BY <3>1, SeqDef
  <2> QED
    BY <1>1, <2>1
       DEF IInv, TypeOK, CutInv, Chained, LastEntry, NotBegun, InStep, WellCut,
           RoomInv, NotesFit, GeneticLoop
<1>2. CASE EndRehearsal \/ GeneticLoopCrashes \/ EndOfPiece \/ TakeListHead \/ EndOfConcert
  <2>1. TypeOK' /\ RoomInv'
    BY <1>2 DEF IInv, TypeOK, RoomInv, NotesFit, EndRehearsal, GeneticLoopCrashes, EndOfPiece,
                TakeListHead, EndOfConcert
  <2>2. CutInv'
    BY <1>2 DEF IInv, CutInv, Chained, LastEntry, NotBegun, InStep, WellCut,
                EndRehearsal, GeneticLoopCrashes, EndOfPiece, TakeListHead, EndOfConcert
  <2> QED
    BY <2>1, <2>2 DEF IInv
<1> QED
  BY <1>1, <1>2

(* One note more: it begins at the count of the measure, where the last one *)
(* ended.                                                                   *)
LEMMA AddStep == IInv /\ AddNote => IInv'
<1> SUFFICES ASSUME IInv, AddNote
             PROVE  IInv'
  OBVIOUS
<1> USE DEF storeVars, playVars
<1> DEFINE t == piece[next]
           e == [tempo |-> t, cont |-> FALSE, at |-> sqcount]
<1>1. t \in 1..Q /\ sqcount \in 0..Q-1 /\ e \in Entry /\ finalist \in Seq(Entry)
  <2>1. piece \in Seq(1..Q) /\ next \in 1..Len(piece)
        /\ sqcount \in 0..Q-1 /\ finalist \in Seq(Entry)
    BY DEF IInv, TypeOK, AddNote, MAX_TEMPO
  <2>2. t \in 1..Q
    BY <2>1, ElementOfSeq
  <2> QED
    BY <2>1, <2>2 DEF Entry
<1>2. finalist' = Append(finalist, e) /\ finalist' # <<>> /\ finalist' \in Seq(Entry)
      /\ Len(finalist') = Len(finalist) + 1 /\ finalist'[Len(finalist')] = e
      /\ Len(finalist) \in Nat /\ \A k \in 1..Len(finalist) : finalist'[k] = finalist[k]
  BY <1>1 DEF AddNote
<1>3. /\ phase = "list" /\ node = 1 /\ tempo = 0 /\ measure = <<>>
      /\ UNCHANGED <<node, tempo, measure, parts>>
  BY DEF IInv, CutInv, NotBegun, InStep, AddNote
<1>4. IF sqcount + t > Q
      THEN phase' = "split" /\ sqcount' = sqcount
      ELSE phase' = "list" /\ sqcount' = After(sqcount, t)
  BY DEF AddNote
<1>5. sqcount' \in 0..Q-1
  <2> HIDE DEF t, e
  <2>1. CASE sqcount + t > Q
    BY <1>1, <1>4, <2>1
  <2>2. CASE ~(sqcount + t > Q)
    <3>1. sqcount + t <= Q
      BY <1>1, <2>2, PieceAssumption
    <3> QED
      BY <1>1, <1>4, <2>2, <3>1, AfterInMeasure
  <2> QED
    BY <2>1, <2>2
<1>6. TypeOK'
  BY <1>2, <1>3, <1>4, <1>5 DEF IInv, TypeOK, AddNote
<1>7. Chained'
  <2>1. finalist # <<>> => LET last == finalist[Len(finalist)]
                           IN last.at + last.tempo <= Q /\ e.at = After(last.at, last.tempo)
    BY <1>3 DEF IInv, CutInv, LastEntry
  <2>2. finalist = <<>> => e.at = 0
    BY DEF IInv, CutInv, LastEntry
  <2> HIDE DEF e
  <2>3. e.cont => e.at = 0
    BY DEF e
  <2> QED
    BY <1>1, <1>2, <2>1, <2>2, <2>3, ChainGrows DEF IInv, CutInv, Chained
<1>8. LastEntry'
  BY <1>1, <1>2, <1>4, PieceAssumption DEF LastEntry
<1>9. NotBegun' /\ InStep' /\ WellCut'
  <2>1. Len(finalist') >= 1 => finalist'[1].at = 0
    BY <1>2, <1>7 DEF Chained
  <2> QED
    BY <1>3, <1>4, <2>1, <1>2 DEF NotBegun, InStep, WellCut
<1>10. RoomInv'
  BY DEF IInv, RoomInv, NotesFit, AddNote
<1> QED
  BY <1>6, <1>7, <1>8, <1>9, <1>10 DEF IInv, CutInv

(* One note cut: the first half ends with the measure, the rest begins the  *)
(* next one, and is shorter than it.                                        *)
LEMMA SplitStep == IInv /\ SplitNote => IInv'
<1> SUFFICES ASSUME IInv, SplitNote
             PROVE  IInv'
  OBVIOUS
<1> USE DEF storeVars, playVars
<1> DEFINE K == Len(finalist)
           left == Q - sqcount
           rest == finalist[K].tempo - left
           cut == [finalist EXCEPT ![K].tempo = left]
           e == [tempo |-> rest, cont |-> TRUE, at |-> 0]
<1>1. /\ finalist \in Seq(Entry) /\ K \in Nat /\ K >= 1 /\ finalist[K] \in Entry
      /\ sqcount \in 0..Q-1 /\ phase = "split"
  BY DEF IInv, TypeOK, CutInv, LastEntry, SplitNote
<1>2. ~finalist[K].cont /\ finalist[K].at = sqcount /\ sqcount + finalist[K].tempo > Q
  BY <1>1 DEF IInv, CutInv, LastEntry
<1>3. left \in 1..Q /\ rest \in 1..Q-1
  BY <1>1, <1>2, PieceAssumption DEF Entry
<1>4. finalist' = Append(cut, e) /\ sqcount' = rest /\ phase' = "list"
  BY <1>2, <1>3, PieceAssumption DEF SplitNote, Continuation, CountOfRest
<1>5. /\ cut \in Seq(Entry) /\ Len(cut) = K
      /\ cut[K].tempo = left /\ cut[K].at = sqcount /\ ~cut[K].cont
      /\ \A k \in 1..K-1 : cut[k] = finalist[k]
      /\ \A k \in 1..K : cut[k].at = finalist[k].at /\ cut[k].cont = finalist[k].cont
  <2>1. [finalist[K] EXCEPT !.tempo = left] \in Entry
    BY <1>1, <1>3 DEF Entry
  <2>2. cut = [finalist EXCEPT ![K] = [finalist[K] EXCEPT !.tempo = left]]
    OBVIOUS
  <2> QED
    BY <1>1, <1>2, <2>1, <2>2 DEF Entry
<1>6. e \in Entry
  BY <1>3, PieceAssumption DEF Entry
<1> HIDE DEF cut
<1>7. /\ finalist' \in Seq(Entry) /\ finalist' # <<>> /\ Len(finalist') = K + 1
      /\ finalist'[K + 1] = e
  BY <1>1, <1>4, <1>5, <1>6
<1>8. Chained'
  <2>1. \A k \in 1..Len(cut) :
           /\ k = 1 => cut[k].at = 0
           /\ cut[k].cont => cut[k].at = 0
           /\ k < Len(cut) => /\ cut[k].at + cut[k].tempo <= Q
                              /\ cut[k + 1].at = After(cut[k].at, cut[k].tempo)
    BY <1>1, <1>5 DEF IInv, CutInv, Chained
  <2>2. cut # <<>> /\ cut[Len(cut)].at + cut[Len(cut)].tempo <= Q
        /\ After(cut[Len(cut)].at, cut[Len(cut)].tempo) = 0
    BY <1>1, <1>3, <1>5, PieceAssumption DEF After
  <2>3. e.at = 0
    OBVIOUS
  <2> HIDE DEF e
  <2> QED
    BY <1>4, <1>5, <1>6, <2>1, <2>2, <2>3, ChainGrows DEF Chained
<1>9. LastEntry'
  BY <1>3, <1>4, <1>7, PieceAssumption DEF LastEntry, After
<1>10. /\ node = 1 /\ tempo = 0 /\ measure = <<>>
       /\ UNCHANGED <<node, tempo, measure, parts>>
  BY <1>1 DEF IInv, CutInv, NotBegun, InStep, SplitNote
<1>11. NotBegun' /\ InStep' /\ WellCut'
  <2>1. finalist'[1].at = 0
    BY <1>1, <1>7, <1>8 DEF Chained
  <2> QED
    BY <1>4, <1>10, <2>1 DEF NotBegun, InStep, WellCut
<1>12. TypeOK'
  <2>1. UNCHANGED <<bar, ginitial, ggoal, piece, next>>
    BY DEF SplitNote
  <2>2. sqcount' \in 0..Q-1
    BY <1>3, <1>4, PieceAssumption
  <2> HIDE DEF rest, e
  <2> QED
    BY <1>4, <1>7, <1>10, <2>1, <2>2 DEF IInv, TypeOK
<1>13. RoomInv'
  BY DEF IInv, RoomInv, NotesFit, SplitNote
<1> QED
  BY <1>8, <1>9, <1>11, <1>12, <1>13 DEF IInv, CutInv

(* One note played: the measure so far is as long as where the entry begins, *)
(* so that it fits.                                                         *)
LEMMA TakeStep == IInv /\ TakeNote => IInv'
<1> SUFFICES ASSUME IInv, TakeNote
             PROVE  IInv'
  OBVIOUS
<1> USE DEF storeVars, listVars
<1> DEFINE note == finalist[node]
<1>1. /\ phase = "concert" /\ node \in 1..Len(finalist) /\ note \in Entry
      /\ finalist \in Seq(Entry) /\ Len(finalist) \in Nat
      /\ tempo \in 0..Q-1 /\ tempo = note.at
  BY DEF IInv, TypeOK, CutInv, InStep, TakeNote
<1>2. tempo + note.tempo <= Q
  <2>1. CASE node < Len(finalist)
    BY <1>1, <2>1 DEF IInv, CutInv, Chained
  <2>2. CASE node = Len(finalist)
    BY <1>1, <2>2 DEF IInv, CutInv, LastEntry
  <2> QED
    BY <1>1, <2>1, <2>2
<1>3. Fits(note)
  BY <1>1, <1>2 DEF Fits, IInv, CutInv, Chained, InStep
<1>4. /\ UNCHANGED <<phase, finalist, sqcount, next, piece, ginitial, ggoal, bar>>
      /\ node' = node + 1 /\ tempo' = After(tempo, note.tempo)
      /\ measure' = IF tempo + note.tempo = Q THEN <<>> ELSE Append(measure, note)
      /\ parts' = IF tempo + note.tempo = Q THEN Append(parts, Append(measure, note)) ELSE parts
  BY <1>3 DEF TakeNote
<1>5. tempo' \in 0..Q-1 /\ (tempo' = 0 => measure' = <<>>)
  <2>1. note.tempo \in 1..Q
    BY <1>1 DEF Entry
  <2> QED
    BY <1>1, <1>2, <1>4, <2>1, PieceAssumption DEF After
<1>6. TypeOK'
  <2>1. Append(measure, note) \in Seq(Entry)
    BY <1>1 DEF IInv, TypeOK
  <2> HIDE DEF note
  <2> QED
    BY <1>1, <1>4, <1>5, <2>1 DEF IInv, TypeOK
<1>7. InStep'
  <2>1. ASSUME node + 1 <= Len(finalist)
        PROVE  finalist[node + 1].at = After(note.at, note.tempo)
    <3>1. node < Len(finalist)
      BY <1>1, <2>1
    <3> QED
      BY <1>1, <3>1 DEF IInv, CutInv, Chained
  <2> HIDE DEF note
  <2> QED
    BY <1>1, <1>4, <1>5, <2>1 DEF InStep
<1>8. Chained' /\ LastEntry' /\ NotBegun' /\ WellCut' /\ RoomInv'
  BY <1>1, <1>4 DEF IInv, CutInv, Chained, LastEntry, NotBegun, WellCut, RoomInv, NotesFit
<1> QED
  BY <1>6, <1>7, <1>8 DEF IInv, CutInv

LEMMA StutterStep == IInv /\ UNCHANGED vars => IInv'
BY DEF vars, IInv, TypeOK, CutInv, Chained, LastEntry, NotBegun, InStep, WellCut,
       RoomInv, NotesFit

(* The inductive invariant: store_gmeasure, piece_to_list with split_note,  *)
(* and compose_measure_genetic together, for every length of measure.       *)
THEOREM Invariance == Spec => []IInv
<1>1. IInv /\ [Next]_vars => IInv'
  BY RehearseStep, EvolveStep, AddStep, SplitStep, TakeStep, StutterStep DEF Next, Ended
<1> QED
  BY <1>1, InitInv, PTL DEF Spec

(* The variables of the genetic piece keep their types.                     *)
THEOREM TypeCorrect == Spec => []TypeOK
<1>1. IInv => TypeOK
  BY DEF IInv
<1> QED
  BY <1>1, Invariance, PTL

(* store_gmeasure never writes past the end of its arrays.                  *)
THEOREM RoomHolds == Spec => []NotesFit
<1>1. IInv => NotesFit
  BY DEF IInv, RoomInv
<1> QED
  BY <1>1, Invariance, PTL

(* compose_measure_genetic never refuses a note of the list.                *)
THEOREM NeverRefused == Spec => []WellCut
<1>1. IInv => WellCut
  BY DEF IInv, CutInv
<1> QED
  BY <1>1, Invariance, PTL

-----------------------------------------------------------------------------
(* What is played.                                                          *)

(* When the entries of a list begin, and the last one ends.                 *)
Onsets(list) == Begins(Tempos(list))

(* The list so far: it is as long as the notes taken from the piece, and an *)
(* entry that is not the rest of a note begins where the note does.         *)
Written ==
  /\ next \in 1..Len(piece) + 1
  /\ Onsets(finalist)[Len(finalist) + 1] = Begins(piece)[next]
  /\ {Onsets(finalist)[k] : k \in Begun(finalist)} = {Begins(piece)[j] : j \in 1..next - 1}

(* The list is built after the evolution, and played when it is complete.   *)
InOrder ==
  /\ phase \in {"rehearsal", "evolve"} => piece = <<>> /\ finalist = <<>> /\ next = 1
  /\ phase \in {"rehearsal", "evolve", "list", "split"} => parts = <<>>
  /\ phase = "concert" \/ parts # <<>> => next = Len(piece) + 1

(* The measure so far is the entries before the one to come, from where the *)
(* measure begins.                                                          *)
Gathered ==
  LET o == node - 1 - Len(measure)
  IN /\ node \in 1..Len(finalist) + 1 /\ o \in Nat
     /\ \A k \in 1..Len(measure) : measure[k] = finalist[o + k]
     /\ Onsets(finalist)[o + 1] = Q * Len(parts)
     /\ Onsets(finalist)[node] = Q * Len(parts) + tempo

(* The notes in the measures sent begin where those of the list do.         *)
Sent ==
  BeginningsPlayed(parts) =
    {Onsets(finalist)[k] : k \in {j \in Begun(finalist) : Onsets(finalist)[j] < Q * Len(parts)}}

MusicInv == Written /\ InOrder /\ Gathered /\ Sent

LEMMA HasLeast ==
  ASSUME NEW S \in SUBSET Nat, S # {}
  PROVE  \E x \in S : \A y \in S : x <= y
<1> DEFINE R == OpToRel(<, Nat)
<1>1. IsWellFoundedOn(R, Nat)
  BY NatLessThanWellFounded
<1>2. \A a, b \in Nat : <<a, b>> \in R <=> a < b
  BY DEF OpToRel
<1> HIDE DEF R
<1>3. PICK x \in S : \A y \in S : ~(<<y, x>> \in R)
  BY <1>1, WFMin
<1>4. ASSUME NEW y \in S
      PROVE  x <= y
  <2>1. x \in Nat /\ y \in Nat
    OBVIOUS
  <2>2. ~(y < x)
    BY <1>2, <1>3, <2>1
  <2> QED
    BY <2>1, <2>2
<1> QED
  BY <1>4

(* Induction up to a number, for a set.                                     *)
LEMMA UpTo ==
  ASSUME NEW n \in Nat, NEW S, 1 \in S, \A k \in 1..n : k \in S => k + 1 \in S
  PROVE  \A k \in 1..n + 1 : k \in S
<1> DEFINE Bad == {k \in 1..n + 1 : k \notin S}
<1>1. SUFFICES ASSUME Bad # {} PROVE FALSE
  OBVIOUS
<1>2. Bad \in SUBSET Nat
  OBVIOUS
<1>3. PICK x \in Bad : \A y \in Bad : x <= y
  BY <1>1, <1>2, HasLeast
<1>4. x \in 1..n + 1 /\ x \notin S /\ x # 1
  BY <1>3
<1>5. x - 1 \in 1..n /\ x - 1 \in 1..n + 1 /\ ~(x <= x - 1) /\ (x - 1) + 1 = x
  BY <1>4
<1>6. x - 1 \in S
  BY <1>3, <1>5
<1> QED
  BY <1>4, <1>5, <1>6

(* From its place o on, b goes up by the first n members of t.              *)
Climbs(b, o, t, n) ==
  \A k \in 1..n : t[k] \in Int /\ b[o + (k + 1)] = b[o + k] + t[k]

(* c is d higher than b.                                                    *)
Level(b, c, o, d, k) == b[k] \in Int /\ c[o + k] = b[k] + d

(* What goes up by the same steps is the same, but for where it begins.     *)
LEMMA SameSteps ==
  ASSUME NEW n \in Nat, NEW o \in Nat, NEW d \in Int, NEW b, NEW c, NEW t,
         Climbs(b, 0, t, n), Climbs(c, o, t, n), Level(b, c, o, d, 1)
  PROVE  \A k \in 1..n + 1 : Level(b, c, o, d, k)
<1> DEFINE S == {k \in 1..n + 1 : b[k] \in Int /\ c[o + k] = b[k] + d}
<1>1. 1 \in S
  BY DEF Level
<1>2. ASSUME NEW k \in 1..n, k \in S
      PROVE  k + 1 \in S
  <2>1. /\ t[k] \in Int /\ b[k + 1] = b[k] + t[k] /\ c[o + (k + 1)] = c[o + k] + t[k]
        /\ b[k] \in Int /\ c[o + k] = b[k] + d /\ k + 1 \in 1..n + 1
    BY <1>2 DEF Climbs
  <2>2. b[k + 1] \in Int /\ c[o + (k + 1)] = b[k + 1] + d
    BY <2>1
  <2> QED
    BY <2>1, <2>2
<1> HIDE DEF S
<1>3. \A k \in 1..n + 1 : k \in S
  BY <1>1, <1>2, UpTo
<1> QED
  BY <1>3 DEF S, Level

LEMMA SameSums ==
  ASSUME NEW n \in Nat, NEW b, NEW c, NEW t,
         Climbs(b, 0, t, n), Climbs(c, 0, t, n), b[1] = 0, c[1] = 0
  PROVE  \A k \in 1..n + 1 : b[k] = c[k]
<1> DEFINE S == {k \in 1..n + 1 : b[k] = c[k]}
<1>1. 1 \in S
  OBVIOUS
<1>2. ASSUME NEW k \in 1..n, k \in S
      PROVE  k + 1 \in S
  <2>1. b[k + 1] = b[k] + t[k] /\ c[k + 1] = c[k] + t[k]
    BY DEF Climbs
  <2> QED
    BY <1>2, <2>1
<1> HIDE DEF S
<1>3. \A k \in 1..n + 1 : k \in S
  BY <1>1, <1>2, UpTo
<1> QED
  BY <1>3 DEF S

LEMMA SumsExist ==
  ASSUME NEW t \in Seq(Nat)
  PROVE  \E b \in [1..Len(t) + 1 -> Nat] :
            b[1] = 0 /\ \A k \in 1..Len(t) : b[k + 1] = b[k] + t[k]
<1> DEFINE n == Len(t)
           Sums(m) == {b \in [1..m -> Nat] : b[1] = 0 /\ \A k \in 1..m - 1 : b[k + 1] = b[k] + t[k]}
           S == {m \in 1..n + 1 : Sums(m) # {}}
<1>1. n \in Nat /\ \A k \in 1..n : t[k] \in Nat
  BY ElementOfSeq
<1> HIDE DEF n
<1>2. 1 \in S
  <2>1. [k \in 1..1 |-> 0] \in Sums(1)
    OBVIOUS
  <2> QED
    BY <1>1, <2>1
<1>3. ASSUME NEW m \in 1..n, m \in S
      PROVE  m + 1 \in S
  <2>1. PICK b \in [1..m -> Nat] : b[1] = 0 /\ \A k \in 1..m - 1 : b[k + 1] = b[k] + t[k]
    BY <1>3
  <2> DEFINE c == [k \in 1..m + 1 |-> IF k <= m THEN b[k] ELSE b[m] + t[m]]
  <2>2. m \in Nat /\ m + 1 \in 1..n + 1 /\ b[m] \in Nat /\ t[m] \in Nat /\ 1 <= m
    BY <1>1, <2>1
  <2>3. c \in [1..m + 1 -> Nat] /\ c[1] = 0
    BY <2>1, <2>2
  <2>4. ASSUME NEW k \in 1..(m + 1) - 1
        PROVE  c[k + 1] = c[k] + t[k]
    <3>1. CASE k = m
      BY <2>1, <2>2, <3>1
    <3>2. CASE k # m
      <4>1. k \in 1..m - 1 /\ k + 1 <= m /\ k <= m /\ k + 1 \in 1..m + 1 /\ k \in 1..m + 1
        BY <2>2, <3>2
      <4> QED
        BY <2>1, <4>1
    <3> QED
      BY <3>1, <3>2
  <2>5. c \in Sums(m + 1)
    BY <2>3, <2>4
  <2> QED
    BY <2>2, <2>5
<1>4. n + 1 \in S
  <2> HIDE DEF S
  <2>1. \A k \in 1..n + 1 : k \in S
    BY <1>1, <1>2, <1>3, UpTo
  <2> QED
    BY <1>1, <2>1
<1>5. PICK b \in [1..n + 1 -> Nat] : b[1] = 0 /\ \A k \in 1..(n + 1) - 1 : b[k + 1] = b[k] + t[k]
  BY <1>4
<1>6. 1..(n + 1) - 1 = 1..n
  BY <1>1
<1> QED
  BY <1>5, <1>6 DEF n

LEMMA BeginsIs ==
  ASSUME NEW t \in Seq(Nat)
  PROVE  /\ Begins(t) \in [1..Len(t) + 1 -> Nat] /\ Begins(t)[1] = 0
         /\ \A k \in 1..Len(t) : Begins(t)[k + 1] = Begins(t)[k] + t[k]
<1> DEFINE n == Len(t)
           Is(b) == b = [k \in 1..n + 1 |-> IF k = 1 THEN 0 ELSE b[k - 1] + t[k - 1]]
<1>1. n \in Nat /\ \A k \in 1..n : t[k] \in Nat
  BY ElementOfSeq
<1>2. PICK b \in [1..n + 1 -> Nat] : b[1] = 0 /\ \A k \in 1..n : b[k + 1] = b[k] + t[k]
  BY SumsExist
<1>3. Begins(t) = CHOOSE c : Is(c)
  BY DEF Begins
<1> HIDE DEF n
<1>4. Is(b)
  <2> SUFFICES \A k \in 1..n + 1 : b[k] = IF k = 1 THEN 0 ELSE b[k - 1] + t[k - 1]
    BY <1>2
  <2>1. ASSUME NEW k \in 1..n + 1, k # 1
        PROVE  b[k] = b[k - 1] + t[k - 1]
    <3>1. k - 1 \in 1..n /\ (k - 1) + 1 = k
      BY <1>1, <2>1
    <3> QED
      BY <1>2, <3>1
  <2> QED
    BY <1>2, <2>1
<1>5. Is(Begins(t))
  BY <1>3, <1>4
<1> DEFINE f == Begins(t)
<1>6. f = [k \in 1..n + 1 |-> IF k = 1 THEN 0 ELSE f[k - 1] + t[k - 1]]
  BY <1>5
<1> HIDE DEF f
<1>7. f[1] = 0 /\ \A k \in 1..n : f[k + 1] = f[k] + t[k]
  <2>1. 1 \in 1..n + 1 /\ \A k \in 1..n : k + 1 \in 1..n + 1 /\ k + 1 # 1 /\ (k + 1) - 1 = k
    BY <1>1
  <2> QED
    BY <1>6, <2>1
<1>8. \A k \in 1..n + 1 : f[k] = b[k]
  <2>1. f[1] = 0 /\ b[1] = 0 /\ Climbs(f, 0, t, n) /\ Climbs(b, 0, t, n)
    BY <1>1, <1>2, <1>7 DEF Climbs
  <2> QED
    BY <1>1, <2>1, SameSums, Zenon
<1>9. f \in [1..n + 1 -> Nat]
  BY <1>2, <1>6, <1>8
<1> QED
  BY <1>7, <1>9 DEF n, f

(* A list and its durations.                                                *)
LEMMA TemposIs ==
  ASSUME NEW list \in Seq(Entry)
  PROVE  /\ Tempos(list) \in Seq(Nat) /\ Len(Tempos(list)) = Len(list) /\ Len(list) \in Nat
         /\ \A k \in 1..Len(list) :
              Tempos(list)[k] = list[k].tempo /\ list[k].tempo \in 1..Q /\ list[k] \in Entry
<1>1. ASSUME NEW k \in 1..Len(list)
      PROVE  list[k].tempo \in 1..Q /\ list[k] \in Entry
  <2>1. list[k] \in Entry
    BY ElementOfSeq
  <2> QED
    BY <2>1 DEF Entry
<1>2. Tempos(list) \in [1..Len(list) -> Nat] /\ Len(list) \in Nat
  BY <1>1, PieceAssumption DEF Tempos
<1>3. Tempos(list) \in Seq(Nat) /\ Len(Tempos(list)) = Len(list)
  <2>1. \A n \in Nat : \A f \in [1..n -> Nat] : f \in Seq(Nat) /\ Len(f) = n
    BY SeqDef
  <2> QED
    BY <1>2, <2>1
<1>4. \A k \in 1..Len(list) : Tempos(list)[k] = list[k].tempo
  BY DEF Tempos
<1> QED
  BY <1>1, <1>2, <1>3, <1>4

LEMMA OnsetsIs ==
  ASSUME NEW list \in Seq(Entry)
  PROVE  /\ Onsets(list) \in [1..Len(list) + 1 -> Nat] /\ Onsets(list)[1] = 0
         /\ Climbs(Onsets(list), 0, Tempos(list), Len(list))
         /\ \A k \in 1..Len(list) : Onsets(list)[k + 1] = Onsets(list)[k] + list[k].tempo
<1> DEFINE t == Tempos(list)
<1>1. /\ t \in Seq(Nat) /\ Len(t) = Len(list) /\ Len(list) \in Nat
      /\ \A k \in 1..Len(list) : t[k] = list[k].tempo /\ list[k].tempo \in 1..Q
  BY TemposIs
<1>2. Onsets(list) = Begins(t)
  BY DEF Onsets
<1> HIDE DEF t
<1>3. /\ Begins(t) \in [1..Len(t) + 1 -> Nat] /\ Begins(t)[1] = 0
      /\ \A k \in 1..Len(t) : Begins(t)[k + 1] = Begins(t)[k] + t[k]
  BY <1>1, BeginsIs
<1>4. Climbs(Onsets(list), 0, t, Len(list))
  <2> SUFFICES ASSUME NEW k \in 1..Len(list)
               PROVE  t[k] \in Int /\ Onsets(list)[0 + (k + 1)] = Onsets(list)[0 + k] + t[k]
    BY DEF Climbs
  <2>1. 0 + (k + 1) = k + 1 /\ 0 + k = k
    BY <1>1
  <2> QED
    BY <1>1, <1>2, <1>3, <2>1, PieceAssumption
<1> QED
  BY <1>1, <1>2, <1>3, <1>4 DEF t

(* The entries of a list begin one after the other.                         *)
LEMMA OnsetsGrow ==
  ASSUME NEW list \in Seq(Entry)
  PROVE  \A m \in 1..Len(list) + 1 : \A j \in 1..m - 1 : Onsets(list)[j] < Onsets(list)[m]
<1> DEFINE n == Len(list)
           b == Onsets(list)
           S == {m \in 1..n + 1 : \A j \in 1..m - 1 : b[j] < b[m]}
<1>1. n \in Nat /\ b \in [1..n + 1 -> Nat]
      /\ \A k \in 1..n : b[k + 1] = b[k] + list[k].tempo /\ list[k].tempo \in 1..Q
  BY TemposIs, OnsetsIs
<1> HIDE DEF n, b
<1>2. 1 \in S
  BY <1>1
<1>3. ASSUME NEW m \in 1..n, m \in S
      PROVE  m + 1 \in S
  <2>1. m + 1 \in 1..n + 1 /\ m \in 1..n + 1
    BY <1>1
  <2>2. b[m] < b[m + 1]
    <3> DEFINE t == list[m].tempo
    <3>1. t \in 1..Q /\ b[m] \in Nat /\ b[m + 1] = b[m] + t
      BY <1>1, <2>1
    <3> HIDE DEF t
    <3> QED
      BY <3>1, PieceAssumption
  <2>3. ASSUME NEW j \in 1..(m + 1) - 1
        PROVE  b[j] < b[m + 1]
    <3>1. CASE j = m
      BY <2>2, <3>1
    <3>2. CASE j # m
      <4>1. j \in 1..m - 1 /\ j \in 1..n + 1
        BY <1>1, <3>2
      <4>2. b[j] < b[m]
        BY <1>3, <4>1
      <4> QED
        BY <1>1, <2>1, <2>2, <4>1, <4>2
    <3> QED
      BY <3>1, <3>2
  <2> QED
    BY <2>1, <2>3
<1> HIDE DEF S
<1>4. \A m \in 1..n + 1 : m \in S
  BY <1>1, <1>2, <1>3, UpTo
<1> QED
  BY <1>4 DEF S, n, b

(* Lists that last the same up to a place begin the same up to the next.    *)
LEMMA SameOnsets ==
  ASSUME NEW list \in Seq(Entry), NEW other \in Seq(Entry),
         NEW n \in Nat, n <= Len(list), n <= Len(other),
         \A k \in 1..n : list[k].tempo = other[k].tempo
  PROVE  \A k \in 1..n + 1 : Onsets(list)[k] = Onsets(other)[k]
<1> DEFINE b == Onsets(list)
           c == Onsets(other)
           t == [k \in 1..n |-> list[k].tempo]
<1>1. /\ Len(list) \in Nat /\ Len(other) \in Nat /\ b[1] = 0 /\ c[1] = 0
      /\ \A k \in 1..Len(list) : b[k + 1] = b[k] + list[k].tempo /\ list[k].tempo \in 1..Q
      /\ \A k \in 1..Len(other) : c[k + 1] = c[k] + other[k].tempo
  BY TemposIs, OnsetsIs
<1> HIDE DEF b, c
<1>2. \A k \in 1..n : /\ t[k] = list[k].tempo /\ t[k] = other[k].tempo
                      /\ k \in 1..Len(list) /\ k \in 1..Len(other)
  BY <1>1
<1> HIDE DEF t
<1>3. Climbs(b, 0, t, n) /\ Climbs(c, 0, t, n)
  <2> SUFFICES ASSUME NEW k \in 1..n
               PROVE  /\ t[k] \in Int /\ b[0 + (k + 1)] = b[0 + k] + t[k]
                      /\ c[0 + (k + 1)] = c[0 + k] + t[k]
    BY DEF Climbs
  <2>1. 0 + (k + 1) = k + 1 /\ 0 + k = k
    OBVIOUS
  <2> QED
    BY <1>1, <1>2, <2>1, PieceAssumption
<1>4. n \in Nat /\ b[1] = 0 /\ c[1] = 0 /\ Climbs(b, 0, t, n) /\ Climbs(c, 0, t, n)
  BY <1>1, <1>3
<1>5. \A k \in 1..n + 1 : b[k] = c[k]
  BY <1>4, SameSums, Zenon
<1> QED
  BY <1>5 DEF b, c

(* Entries taken out of a list begin where they did, counted from the first.*)
LEMMA OnsetsWithin ==
  ASSUME NEW list \in Seq(Entry), NEW notes \in Seq(Entry), NEW o \in Nat,
         o + Len(notes) <= Len(list),
         \A k \in 1..Len(notes) : notes[k] = list[o + k]
  PROVE  \A k \in 1..Len(notes) + 1 : Onsets(list)[o + k] = Onsets(notes)[k] + Onsets(list)[o + 1]
<1> DEFINE b == Onsets(notes)
           c == Onsets(list)
           t == Tempos(notes)
           n == Len(notes)
           d == c[o + 1]
<1>1. /\ Len(list) \in Nat /\ n \in Nat /\ b[1] = 0 /\ Climbs(b, 0, t, n)
      /\ c \in [1..Len(list) + 1 -> Nat]
      /\ \A k \in 1..Len(list) : c[k + 1] = c[k] + list[k].tempo
      /\ \A k \in 1..n : t[k] = notes[k].tempo /\ notes[k].tempo \in 1..Q
  BY TemposIs, OnsetsIs
<1>2. o + n <= Len(list) /\ \A k \in 1..n : notes[k] = list[o + k]
  OBVIOUS
<1> HIDE DEF b, c, t, n
<1>3. d \in Int
  <2>1. o + 1 \in 1..Len(list) + 1
    BY <1>1, <1>2
  <2> QED
    BY <1>1, <2>1
<1>4. Climbs(c, o, t, n)
  <2> SUFFICES ASSUME NEW k \in 1..n
               PROVE  t[k] \in Int /\ c[o + (k + 1)] = c[o + k] + t[k]
    BY DEF Climbs
  <2>1. o + k \in 1..Len(list) /\ o + (k + 1) = (o + k) + 1
    BY <1>1, <1>2
  <2>2. t[k] = list[o + k].tempo /\ t[k] \in 1..Q
    BY <1>1, <1>2
  <2> QED
    BY <1>1, <2>1, <2>2, PieceAssumption
<1>5. b[1] \in Int /\ c[o + 1] = b[1] + d
  BY <1>1, <1>3
<1>6. \A k \in 1..n + 1 : c[o + k] = b[k] + d
  <2> HIDE DEF d
  <2>1. /\ n \in Nat /\ o \in Nat /\ d \in Int
        /\ Climbs(b, 0, t, n) /\ Climbs(c, o, t, n)
        /\ Level(b, c, o, d, 1)
    BY <1>1, <1>3, <1>4, <1>5 DEF Level
  <2>2. \A k \in 1..n + 1 : Level(b, c, o, d, k)
    BY <2>1, SameSteps, Zenon
  <2> QED
    BY <2>2 DEF Level
<1> QED
  BY <1>6 DEF b, c, n, d

(* One measure more.                                                        *)
LEMMA PlayedGrows ==
  ASSUME NEW measures \in Seq(Seq(Entry)), NEW notes \in Seq(Entry)
  PROVE  BeginningsPlayed(Append(measures, notes)) =
           BeginningsPlayed(measures)
             \union {Q * Len(measures) + Onsets(notes)[k] : k \in Begun(notes)}
<1> DEFINE more == Append(measures, notes)
           n == Len(measures)
           P(b, m) == {Q * (b - 1) + Begins(Tempos(m))[k] : k \in Begun(m)}
<1>1. /\ n \in Nat /\ Len(more) = n + 1 /\ more[n + 1] = notes
      /\ \A b \in 1..n : more[b] = measures[b]
  OBVIOUS
<1>2. /\ BeginningsPlayed(more) = UNION {P(b, more[b]) : b \in 1..Len(more)}
      /\ BeginningsPlayed(measures) = UNION {P(b, measures[b]) : b \in 1..n}
  BY DEF BeginningsPlayed
<1>3. P(n + 1, notes) = {Q * n + Onsets(notes)[k] : k \in Begun(notes)}
  <2>1. (n + 1) - 1 = n
    BY <1>1
  <2> QED
    BY <2>1 DEF Onsets
<1> HIDE DEF more, n, P
<1>4. UNION {P(b, more[b]) : b \in 1..n + 1}
        = (UNION {P(b, measures[b]) : b \in 1..n}) \union P(n + 1, notes)
  <2>1. \A b \in 1..n + 1 : b \in 1..n \/ b = n + 1
    BY <1>1
  <2>2. \A b \in 1..n : b \in 1..n + 1
    BY <1>1
  <2>3. n + 1 \in 1..n + 1
    BY <1>1
  <2> QED
    BY <1>1, <2>1, <2>2, <2>3
<1> QED
  BY <1>1, <1>2, <1>3, <1>4 DEF more, n

LEMMA SeqWider ==
  ASSUME NEW S, NEW T, S \subseteq T, NEW s \in Seq(S)
  PROVE  s \in Seq(T)
<1>1. \A k \in 1..Len(s) : s[k] \in T
  BY ElementOfSeq
<1>2. Len(s) \in Nat /\ s \in [1..Len(s) -> S]
  BY LenProperties
<1>3. s \in [1..Len(s) -> T]
  BY <1>1, <1>2
<1> QED
  BY <1>2, <1>3, SeqDef

LEMMA PieceSums ==
  ASSUME NEW p \in Seq(1..MAX_TEMPO)
  PROVE  /\ Len(p) \in Nat /\ Begins(p) \in [1..Len(p) + 1 -> Nat] /\ Begins(p)[1] = 0
         /\ \A k \in 1..Len(p) : Begins(p)[k + 1] = Begins(p)[k] + p[k] /\ p[k] \in 1..Q
<1>1. \A k \in 1..Len(p) : p[k] \in 1..Q
  BY ElementOfSeq DEF MAX_TEMPO
<1>2. p \in Seq(Nat) /\ Len(p) \in Nat
  <2>1. 1..MAX_TEMPO \subseteq Nat
    BY PieceAssumption DEF MAX_TEMPO
  <2>2. p \in Seq(Nat)
    BY <2>1, SeqWider, Zenon
  <2> QED
    BY <2>2
<1> QED
  BY <1>1, <1>2, BeginsIs

(* Nothing has been played before the concert.                              *)
LEMMA NothingPlayed ==
  ASSUME NEW list \in Seq(Entry)
  PROVE  BeginningsPlayed(<<>>) = {Onsets(list)[k] : k \in {j \in Begun(list) : Onsets(list)[j] < Q * 0}}
<1>1. BeginningsPlayed(<<>>) = {}
  BY DEF BeginningsPlayed
<1>2. ASSUME NEW j \in Begun(list)
      PROVE  ~(Onsets(list)[j] < Q * 0)
  <2>1. j \in 1..Len(list) + 1
    BY TemposIs DEF Begun
  <2>2. Onsets(list)[j] \in Nat
    BY <2>1, OnsetsIs
  <2> QED
    BY <2>2, PieceAssumption
<1> QED
  BY <1>1, <1>2

LEMMA InitMusic == Init => MusicInv
<1> SUFFICES ASSUME Init PROVE MusicInv
  OBVIOUS
<1>1. /\ piece = <<>> /\ finalist = <<>> /\ next = 1 /\ node = 1 /\ measure = <<>> /\ tempo = 0
      /\ parts = <<>>
  BY DEF Init
<1>2. Onsets(<<>>)[1] = 0 /\ Begins(<<>>)[1] = 0
  <2>1. <<>> \in Seq(Entry) /\ <<>> \in Seq(1..MAX_TEMPO)
    OBVIOUS
  <2> QED
    BY <2>1, OnsetsIs, PieceSums
<1>3. Written
  BY <1>1, <1>2 DEF Written, Begun
<1>4. Q * 0 = 0
  BY PieceAssumption
<1>5. Gathered
  BY <1>1, <1>2, <1>4 DEF Gathered
<1>6. Sent
  <2>1. <<>> \in Seq(Entry) /\ Len(<<>>) = 0
    OBVIOUS
  <2> QED
    BY <1>1, <2>1, NothingPlayed DEF Sent
<1>7. InOrder
  BY <1>1 DEF Init, InOrder
<1> QED
  BY <1>3, <1>5, <1>6, <1>7 DEF MusicInv

(* The piece has been evolved, and nothing of it is in the list yet.        *)
LEMMA LoopMusic == IInv /\ MusicInv /\ GeneticLoop => MusicInv'
<1> SUFFICES ASSUME IInv, MusicInv, GeneticLoop PROVE MusicInv'
  OBVIOUS
<1>1. /\ finalist = <<>> /\ next = 1 /\ parts = <<>> /\ phase' = "list"
      /\ UNCHANGED <<finalist, next, node, measure, tempo, parts>>
  BY DEF GeneticLoop, listVars, playVars, MusicInv, InOrder
<1>2. piece' \in Seq(1..MAX_TEMPO)
  <2>1. IInv'
    BY EvolveStep
  <2> QED
    BY <2>1 DEF IInv, TypeOK
<1>3. Len(piece') \in Nat /\ Begins(piece')[1] = 0 /\ Onsets(<<>>)[1] = 0
  <2>1. <<>> \in Seq(Entry)
    OBVIOUS
  <2> QED
    BY <1>2, <2>1, OnsetsIs, PieceSums
<1>4. Written'
  <2>1. 1 \in 1..Len(piece') + 1 /\ 1..1 - 1 = {} /\ Len(<<>>) = 0 /\ Begun(<<>>) = {}
    BY <1>3 DEF Begun
  <2> QED
    BY <1>1, <1>3, <2>1 DEF Written
<1>5. InOrder' /\ Gathered' /\ Sent'
  BY <1>1 DEF MusicInv, InOrder, Gathered, Sent
<1> QED
  BY <1>4, <1>5 DEF MusicInv

LEMMA OtherMusic ==
  MusicInv /\ (Rehearse \/ EndRehearsal \/ GeneticLoopCrashes \/ EndOfPiece
               \/ TakeListHead \/ EndOfConcert \/ UNCHANGED vars) => MusicInv'
<1> SUFFICES ASSUME MusicInv,
                    Rehearse \/ EndRehearsal \/ GeneticLoopCrashes \/ EndOfPiece
                      \/ TakeListHead \/ EndOfConcert \/ UNCHANGED vars
             PROVE  MusicInv'
  OBVIOUS
<1>1. /\ UNCHANGED <<piece, finalist, next, node, measure, tempo, parts>>
      /\ phase' \in {"rehearsal", "evolve"} => phase \in {"rehearsal", "evolve"}
      /\ phase' \in {"rehearsal", "evolve", "list", "split"} =>
           phase \in {"rehearsal", "evolve", "list", "split"}
      /\ phase' = "concert" => phase = "concert" \/ next > Len(piece)
  BY DEF Rehearse, StoreGmeasure, StoreWithoutGoal, StoreNothing, EndRehearsal,
         GeneticLoopCrashes, EndOfPiece, TakeListHead, EndOfConcert, listVars, playVars, vars
<1>2. next > Len(piece) => next = Len(piece) + 1
  BY DEF MusicInv, Written
<1>3. InOrder'
  BY <1>1, <1>2 DEF MusicInv, InOrder
<1>4. Written'
  BY <1>1 DEF MusicInv, Written
<1>5. Gathered'
  BY <1>1 DEF MusicInv, Gathered
<1>6. Sent'
  BY <1>1 DEF MusicInv, Sent
<1> QED
  BY <1>3, <1>4, <1>5, <1>6 DEF MusicInv

(* What every step of piece_to_list keeps, whatever it adds to the list.    *)
LEMMA ListMusic ==
  ASSUME IInv, IInv', MusicInv, phase \in {"list", "split"}, phase' \in {"list", "split"},
         UNCHANGED <<piece, node, measure, tempo, parts>>,
         finalist' # <<>>, next' \in 1..Len(piece) + 1
  PROVE  InOrder' /\ Gathered' /\ Sent'
<1>1. parts = <<>> /\ node = 1 /\ tempo = 0 /\ measure = <<>>
  BY DEF MusicInv, InOrder, IInv, CutInv, NotBegun, InStep
<1>2. finalist' \in Seq(Entry)
  BY DEF IInv, TypeOK
<1>3. Onsets(finalist')[1] = 0 /\ Len(finalist') \in Nat
  BY <1>2, OnsetsIs, TemposIs
<1>4. Q * 0 = 0 /\ Len(<<>>) = 0
  BY PieceAssumption
<1>5. Gathered'
  BY <1>1, <1>3, <1>4 DEF Gathered
<1>6. Sent'
  BY <1>1, <1>2, <1>4, NothingPlayed DEF Sent
<1>7. InOrder'
  BY <1>1 DEF InOrder
<1> QED
  BY <1>5, <1>6, <1>7

(* A note of the piece begins where the list has come to.                   *)
LEMMA AddMusic == IInv /\ IInv' /\ MusicInv /\ AddNote => MusicInv'
<1> SUFFICES ASSUME IInv, IInv', MusicInv, AddNote PROVE MusicInv'
  OBVIOUS
<1> DEFINE K == Len(finalist)
           e == [tempo |-> piece[next], cont |-> FALSE, at |-> sqcount]
           F == Onsets(finalist)
           G == Onsets(finalist')
           P == Begins(piece)
           t == piece[next]
<1>1. /\ finalist \in Seq(Entry) /\ finalist' \in Seq(Entry) /\ finalist' = Append(finalist, e)
      /\ next \in 1..Len(piece) + 1 /\ next <= Len(piece) /\ next' = next + 1
      /\ piece \in Seq(1..MAX_TEMPO)
      /\ UNCHANGED <<piece, node, measure, tempo, parts>>
      /\ phase \in {"list", "split"} /\ phase' \in {"list", "split"}
  BY DEF AddNote, IInv, TypeOK, MusicInv, Written, playVars
<1>2. /\ K \in Nat /\ Len(finalist') = K + 1 /\ finalist' # <<>>
      /\ finalist'[K + 1].tempo = t /\ ~finalist'[K + 1].cont
      /\ \A k \in 1..K : finalist'[k] = finalist[k]
  BY <1>1
<1>3. /\ Len(piece) \in Nat /\ P \in [1..Len(piece) + 1 -> Nat]
      /\ P[next + 1] = P[next] + t /\ next \in 1..Len(piece) /\ next + 1 \in 1..Len(piece) + 1
  <2>1. next \in 1..Len(piece) /\ next + 1 \in 1..Len(piece) + 1
    BY <1>1
  <2> QED
    BY <1>1, <2>1, PieceSums
<1>4. \A k \in 1..K + 1 : G[k] = F[k]
  <2>1. /\ K \in Nat /\ K <= Len(finalist') /\ K <= Len(finalist)
        /\ \A k \in 1..K : finalist'[k].tempo = finalist[k].tempo
    BY <1>2
  <2> HIDE DEF K
  <2> QED
    BY <1>1, <2>1, SameOnsets
<1>5. G[(K + 1) + 1] = G[K + 1] + t
  <2>1. K + 1 \in 1..Len(finalist')
    BY <1>2
  <2> QED
    BY <1>1, <1>2, <2>1, OnsetsIs
<1>6. F[K + 1] = P[next] /\ {F[k] : k \in Begun(finalist)} = {P[j] : j \in 1..next - 1}
  BY DEF MusicInv, Written
<1>7. Begun(finalist') = Begun(finalist) \union {K + 1}
  BY <1>2 DEF Begun
<1>8. \A k \in Begun(finalist) : k \in 1..K + 1
  BY <1>2 DEF Begun
<1> HIDE DEF K, F, G, P, t, e
<1>9. {G[k] : k \in Begun(finalist')} = {P[j] : j \in 1..(next + 1) - 1}
  <2>1. K + 1 \in 1..K + 1
    BY <1>2
  <2>2. {G[k] : k \in Begun(finalist')} = {F[k] : k \in Begun(finalist)} \union {F[K + 1]}
    BY <1>4, <1>7, <1>8, <2>1
  <2>3. 1..(next + 1) - 1 = (1..next - 1) \union {next}
    BY <1>3
  <2> QED
    BY <1>6, <2>2, <2>3
<1>10. Written'
  <2>1. G[Len(finalist') + 1] = P[next + 1]
    <3>1. K + 1 \in 1..K + 1
      BY <1>2
    <3> QED
      BY <1>2, <1>3, <1>4, <1>5, <1>6, <3>1
  <2> QED
    BY <1>1, <1>3, <1>9, <2>1 DEF Written, G, P
<1>11. InOrder' /\ Gathered' /\ Sent'
  BY <1>1, <1>2, <1>3, ListMusic
<1> QED
  BY <1>10, <1>11 DEF MusicInv

LEMMA Shortened ==
  ASSUME NEW e \in Entry, NEW t
  PROVE  [e EXCEPT !.tempo = t] = [tempo |-> t, cont |-> e.cont, at |-> e.at]
BY DEF Entry

(* A note that is cut begins where it did, and the list is as long.         *)
LEMMA SplitMusic == IInv /\ IInv' /\ MusicInv /\ SplitNote => MusicInv'
<1> SUFFICES ASSUME IInv, IInv', MusicInv, SplitNote PROVE MusicInv'
  OBVIOUS
<1> DEFINE K == Len(finalist)
           left == Q - sqcount
           rest == finalist[K].tempo - left
           cut == [finalist EXCEPT ![K].tempo = left]
           e == [tempo |-> rest, cont |-> TRUE, at |-> 0]
           F == Onsets(finalist)
           G == Onsets(finalist')
           P == Begins(piece)
<1>1. /\ finalist \in Seq(Entry) /\ K \in Nat /\ K >= 1 /\ finalist[K] \in Entry
      /\ finalist' \in Seq(Entry)
      /\ sqcount \in 0..Q-1 /\ phase = "split" /\ phase' \in {"list", "split"}
      /\ UNCHANGED <<piece, next, node, measure, tempo, parts>>
  BY DEF IInv, TypeOK, CutInv, LastEntry, SplitNote, playVars
<1>2. ~finalist[K].cont
  BY <1>1 DEF IInv, CutInv, LastEntry
<1>3. finalist' = Append(cut, e)
  BY <1>2 DEF SplitNote, Continuation
<1>4. /\ left \in Int /\ finalist[K].tempo \in Int /\ left + rest = finalist[K].tempo
  BY <1>1, PieceAssumption DEF Entry
<1>5. /\ Len(cut) = K
      /\ cut[K].tempo = left /\ cut[K].cont = finalist[K].cont
      /\ \A k \in 1..K-1 : cut[k] = finalist[k]
      /\ cut \in Seq([tempo : Int, cont : BOOLEAN, at : Int])
  <2>1. cut = [finalist EXCEPT ![K] = [finalist[K] EXCEPT !.tempo = left]]
    OBVIOUS
  <2>2. [finalist[K] EXCEPT !.tempo = left] =
          [tempo |-> left, cont |-> finalist[K].cont, at |-> finalist[K].at]
    BY <1>1, Shortened, Zenon
  <2>3. finalist \in Seq([tempo : Int, cont : BOOLEAN, at : Int])
    <3>1. Entry \subseteq [tempo : Int, cont : BOOLEAN, at : Int]
      BY PieceAssumption DEF Entry
    <3> QED
      BY <1>1, <3>1, SeqWider, Zenon
  <2>4. [finalist[K] EXCEPT !.tempo = left] \in [tempo : Int, cont : BOOLEAN, at : Int]
    BY <1>1, <1>4, <2>2, PieceAssumption DEF Entry
  <2> HIDE DEF left
  <2> QED
    BY <1>1, <2>1, <2>2, <2>3, <2>4
<1> HIDE DEF cut
<1>6. /\ Len(finalist') = K + 1 /\ finalist'[K + 1] = e /\ finalist' # <<>>
      /\ \A k \in 1..K : finalist'[k] = cut[k]
  BY <1>1, <1>3, <1>5
<1>7. /\ \A k \in 1..K-1 : finalist'[k] = finalist[k]
      /\ finalist'[K].tempo = left /\ finalist'[K].cont = finalist[K].cont
      /\ finalist'[K + 1].tempo = rest /\ finalist'[K + 1].cont
  BY <1>1, <1>5, <1>6
<1>8. \A k \in 1..K : G[k] = F[k]
  <2>1. PICK n \in Nat : n = K - 1
    BY <1>1
  <2>2. n <= Len(finalist') /\ n <= Len(finalist)
        /\ \A k \in 1..n : finalist'[k].tempo = finalist[k].tempo
    BY <1>1, <1>6, <1>7, <2>1
  <2>3. \A k \in 1..n + 1 : Onsets(finalist')[k] = Onsets(finalist)[k]
    BY <1>1, <2>2, SameOnsets
  <2> QED
    BY <1>1, <2>1, <2>3
<1>9. G[K + 1] = G[K] + left /\ G[(K + 1) + 1] = G[K + 1] + rest
  <2>1. K \in 1..Len(finalist') /\ K + 1 \in 1..Len(finalist')
    BY <1>1, <1>6
  <2> QED
    BY <1>1, <1>7, <2>1, OnsetsIs
<1>10. F[K + 1] = F[K] + finalist[K].tempo /\ F[K] \in Nat
  <2>1. K \in 1..Len(finalist) /\ K \in 1..Len(finalist) + 1
    BY <1>1
  <2> QED
    BY <1>1, <2>1, OnsetsIs
<1>11. Begun(finalist') = Begun(finalist)
  BY <1>1, <1>6, <1>7 DEF Begun
<1>12. \A k \in Begun(finalist) : k \in 1..K
  BY DEF Begun
<1>13. /\ next \in 1..Len(piece) + 1 /\ F[K + 1] = P[next]
       /\ {F[k] : k \in Begun(finalist)} = {P[j] : j \in 1..next - 1}
  BY DEF MusicInv, Written
<1> HIDE DEF K, F, G, P, left, rest, e
<1>14. G[Len(finalist') + 1] = P[next]
  <2>1. K \in 1..K
    BY <1>1
  <2>2. rest \in Int
    BY <1>4 DEF rest
  <2> QED
    BY <1>4, <1>6, <1>8, <1>9, <1>10, <1>13, <2>1, <2>2
<1>15. {G[k] : k \in Begun(finalist')} = {P[j] : j \in 1..next - 1}
  BY <1>8, <1>11, <1>12, <1>13
<1>16. Written'
  BY <1>1, <1>13, <1>14, <1>15 DEF Written, G, P
<1>17. InOrder' /\ Gathered' /\ Sent'
  BY <1>1, <1>6, <1>13, ListMusic
<1> QED
  BY <1>16, <1>17 DEF MusicInv

(* A note played is one entry more; a measure that is full begins where the *)
(* measures before end, and holds the entries up to the next bar line.      *)
LEMMA TakeMusic == IInv /\ IInv' /\ MusicInv /\ TakeNote => MusicInv'
<1> SUFFICES ASSUME IInv, IInv', MusicInv, TakeNote PROVE MusicInv'
  OBVIOUS
<1> DEFINE note == finalist[node]
           notes == Append(measure, note)
           F == Onsets(finalist)
           L == Len(parts)
           n == Len(measure)
           o == node - 1 - n
           w == Q * L
<1>1. Fits(note)
  <2> SUFFICES ASSUME ~Fits(note) PROVE FALSE
    OBVIOUS
  <2>1. phase' = "failed"
    BY DEF TakeNote
  <2> QED
    BY <2>1 DEF IInv, CutInv, WellCut
<1>2. /\ UNCHANGED <<phase, finalist, next, piece>>
      /\ node' = node + 1 /\ tempo' = After(tempo, note.tempo)
      /\ measure' = IF tempo + note.tempo = Q THEN <<>> ELSE notes
      /\ parts' = IF tempo + note.tempo = Q THEN Append(parts, notes) ELSE parts
      /\ phase = "concert" /\ node <= Len(finalist)
  BY <1>1 DEF TakeNote, listVars
<1>3. /\ finalist \in Seq(Entry) /\ Len(finalist) \in Nat /\ measure \in Seq(Entry) /\ n \in Nat
      /\ parts \in Seq(Seq(Entry)) /\ L \in Nat /\ tempo \in 0..Q-1 /\ node \in 1..Len(finalist)
  BY <1>2 DEF IInv, TypeOK
<1>4. note \in Entry /\ note.tempo \in 1..Q /\ tempo + note.tempo <= Q
  <2>1. note \in Entry
    BY <1>3, ElementOfSeq
  <2> QED
    BY <1>1, <2>1 DEF Fits, Entry
<1>5. /\ o \in Nat /\ \A k \in 1..n : measure[k] = finalist[o + k]
      /\ F[o + 1] = w /\ F[node] = w + tempo
  BY DEF MusicInv, Gathered
<1>6. notes \in Seq(Entry) /\ Len(notes) = n + 1 /\ \A k \in 1..n + 1 : notes[k] = finalist[o + k]
  <2>1. notes \in Seq(Entry) /\ Len(notes) = n + 1 /\ notes[n + 1] = note
        /\ \A k \in 1..n : notes[k] = measure[k]
    BY <1>3, <1>4
  <2>2. o + (n + 1) = node
    BY <1>3
  <2>3. notes[n + 1] = finalist[o + (n + 1)]
    BY <2>1, <2>2
  <2> HIDE DEF notes, o, n
  <2>4. \A k \in 1..n + 1 : k \in 1..n \/ k = n + 1
    BY <1>3
  <2> QED
    BY <1>5, <2>1, <2>3, <2>4
<1>7. F[node + 1] = w + tempo + note.tempo /\ w \in Nat
  <2>1. F[node + 1] = F[node] + note.tempo
    BY <1>3, OnsetsIs
  <2> QED
    BY <1>3, <1>5, <2>1, PieceAssumption
<1>8. InOrder' /\ Written'
  <2>1. InOrder'
    BY <1>2 DEF MusicInv, InOrder
  <2> QED
    BY <1>2, <2>1 DEF MusicInv, Written
<1>9. CASE tempo + note.tempo # Q
  <2>1. /\ parts' = parts /\ measure' = notes /\ tempo' = tempo + note.tempo
    BY <1>2, <1>9 DEF After
  <2>2. node' - 1 - Len(measure') = o
    BY <1>2, <1>3, <1>6, <2>1
  <2>3. Sent'
    BY <1>2, <2>1 DEF MusicInv, Sent
  <2>4. F[node + 1] = w + (tempo + note.tempo)
    BY <1>3, <1>4, <1>7
  <2>5. node + 1 \in 1..Len(finalist) + 1
    BY <1>3
  <2> HIDE DEF o, notes, n, note
  <2>6. Gathered'
    BY <1>2, <1>5, <1>6, <2>1, <2>2, <2>4, <2>5 DEF Gathered
  <2> QED
    BY <1>8, <2>3, <2>6 DEF MusicInv
<1>10. CASE tempo + note.tempo = Q
  <2>1. /\ parts' = Append(parts, notes) /\ measure' = <<>> /\ tempo' = 0 /\ Len(parts') = L + 1
    BY <1>2, <1>3, <1>6, <1>10 DEF After
  <2>2. F[node + 1] = Q * (L + 1) /\ Q * (L + 1) = w + Q
    <3>1. Q * (L + 1) = w + Q
      BY <1>3, PieceAssumption
    <3> QED
      BY <1>3, <1>4, <1>7, <1>10, <3>1
  <2>3. Gathered'
    <3>1. node' - 1 - Len(measure') = node /\ Len(<<>>) = 0 /\ node \in Nat
          /\ node + 1 \in 1..Len(finalist) + 1
      BY <1>2, <1>3, <2>1
    <3>2. Q * (L + 1) + 0 = Q * (L + 1)
      BY <1>3, PieceAssumption
    <3>3. /\ node' \in 1..Len(finalist') + 1 /\ node' - 1 - Len(measure') \in Nat
          /\ \A k \in 1..Len(measure') : measure'[k] = finalist'[node' - 1 - Len(measure') + k]
      <4>1. node' \in 1..Len(finalist') + 1 /\ node' - 1 - Len(measure') \in Nat
        BY <1>2, <3>1
      <4>2. 1..Len(measure') = {}
        BY <2>1, <3>1
      <4> QED
        BY <4>1, <4>2
    <3>4. node' - 1 - Len(measure') + 1 = node + 1
      BY <3>1
    <3>5. /\ Onsets(finalist')[node' - 1 - Len(measure') + 1] = Q * Len(parts')
          /\ Onsets(finalist')[node'] = Q * Len(parts') + tempo'
      <4> HIDE DEF F
      <4>1. Onsets(finalist') = F /\ node' = node + 1
        BY <1>2 DEF F
      <4> QED
        BY <2>1, <2>2, <3>2, <3>4, <4>1
    <3> QED
      BY <3>3, <3>5 DEF Gathered
  <2>4. BeginningsPlayed(parts') =
          BeginningsPlayed(parts) \union {w + Onsets(notes)[k] : k \in Begun(notes)}
    BY <1>3, <1>6, <2>1, PlayedGrows
  <2>5. BeginningsPlayed(parts) = {F[k] : k \in {j \in Begun(finalist) : F[j] < w}}
    BY DEF MusicInv, Sent
  <2>6. ASSUME NEW k \in 1..n + 1
        PROVE  F[o + k] = w + Onsets(notes)[k]
    <3>1. \A m \in 1..Len(notes) + 1 : F[o + m] = Onsets(notes)[m] + F[o + 1]
      <4>1. o + Len(notes) <= Len(finalist)
        BY <1>3, <1>6
      <4>2. \A m \in 1..Len(notes) : notes[m] = finalist[o + m]
        BY <1>6
      <4> HIDE DEF o, notes
      <4> QED
        BY <1>3, <1>5, <1>6, <4>1, <4>2, OnsetsWithin
    <3>2. Onsets(notes)[k] \in Nat /\ k \in 1..Len(notes) + 1
      <4>1. k \in 1..Len(notes) + 1
        BY <1>3, <1>6
      <4> QED
        BY <1>6, <4>1, OnsetsIs
    <3> QED
      BY <1>5, <1>7, <3>1, <3>2
  <2>7. \A m \in 1..Len(finalist) + 1 : F[m] \in Nat /\ \A j \in 1..m - 1 : F[j] < F[m]
    BY <1>3, OnsetsIs, OnsetsGrow
  <2>8. node = o + (n + 1) /\ n + 1 \in Nat
    BY <1>3
  <2>9. Begun(notes) = {k \in 1..n + 1 : ~finalist[o + k].cont}
    BY <1>6 DEF Begun
  <2> DEFINE now == {j \in Begun(finalist) : F[j] < Q * (L + 1)}
             then == {j \in Begun(finalist) : F[j] < w}
  <2> HIDE DEF o, notes, n, w, F, note
  <2>10. ASSUME NEW j \in then
         PROVE  j \in now
    <3>1. j \in 1..Len(finalist) + 1
      BY <1>3 DEF Begun
    <3> QED
      BY <1>7, <2>2, <2>7, <3>1, PieceAssumption
  <2>11. ASSUME NEW k \in Begun(notes)
         PROVE  o + k \in now /\ w + Onsets(notes)[k] = F[o + k]
    <3>1. k \in 1..n + 1 /\ ~finalist[o + k].cont
      BY <2>9
    <3>2. o + k \in 1..Len(finalist) /\ o + k \in 1..(node + 1) - 1 /\ node + 1 \in 1..Len(finalist) + 1
      BY <1>3, <1>5, <2>8, <3>1
    <3>3. F[o + k] < F[node + 1]
      BY <2>7, <3>2
    <3> QED
      BY <2>2, <2>6, <3>1, <3>2, <3>3 DEF Begun
  <2>12. ASSUME NEW j \in now, j \notin then
         PROVE  \E k \in Begun(notes) : j = o + k
    <3>1. j \in 1..Len(finalist) /\ ~finalist[j].cont /\ F[j] < F[node + 1] /\ ~(F[j] < w)
      BY <2>2, <2>12 DEF Begun
    <3>2. j \in 1..Len(finalist) + 1 /\ node + 1 \in 1..Len(finalist) + 1
          /\ o + 1 \in 1..Len(finalist) + 1
      BY <1>3, <1>5, <2>8, <3>1
    <3>3. ~(node + 1 <= j)
      <4>1. SUFFICES ASSUME node + 1 <= j PROVE FALSE
        OBVIOUS
      <4>2. CASE j = node + 1
        BY <2>7, <3>1, <3>2, <4>2
      <4>3. CASE j # node + 1
        <5>1. node + 1 \in 1..j - 1
          BY <1>3, <3>1, <4>1, <4>3
        <5>2. F[node + 1] < F[j] /\ F[j] \in Nat /\ F[node + 1] \in Nat
          BY <2>7, <3>2, <5>1
        <5> QED
          BY <3>1, <5>2
      <4> QED
        BY <4>2, <4>3
    <3>4. ~(j < o + 1)
      <4>1. SUFFICES ASSUME j < o + 1 PROVE FALSE
        OBVIOUS
      <4>2. j \in 1..(o + 1) - 1
        BY <1>5, <3>1, <4>1
      <4>3. F[j] < F[o + 1]
        BY <2>7, <3>2, <4>2
      <4> QED
        BY <1>5, <3>1, <4>3
    <3>5. j - o \in 1..n + 1 /\ j = o + (j - o)
      BY <1>3, <1>5, <2>8, <3>1, <3>3, <3>4
    <3> QED
      BY <2>9, <3>1, <3>5
  <2>13. {F[k] : k \in then} \union {w + Onsets(notes)[k] : k \in Begun(notes)} = {F[k] : k \in now}
    <3> HIDE DEF now, then
    <3> QED
      BY <2>10, <2>11, <2>12
  <2>14. Sent'
    BY <1>2, <2>1, <2>4, <2>5, <2>13 DEF Sent, F
  <2> QED
    BY <1>8, <2>3, <2>14 DEF MusicInv
<1> QED
  BY <1>9, <1>10

LEMMA MusicAlways == Spec => []MusicInv
<1>1. IInv /\ IInv' /\ MusicInv /\ [Next]_vars => MusicInv'
  BY LoopMusic, OtherMusic, AddMusic, SplitMusic, TakeMusic DEF Next, Ended
<1> QED
  BY <1>1, InitMusic, Invariance, PTL DEF Spec

(* For every length of measure and every evolved piece: the notes of the    *)
(* measures sent begin where the evolved ones do, none is lost and none is  *)
(* new, however the bar lines cut them.                                     *)
THEOREM SameMusicHolds == Spec => []SameMusic
<1>1. IInv /\ MusicInv => SameMusic
  <2> SUFFICES ASSUME IInv, MusicInv PROVE SameMusic
    OBVIOUS
  <2> DEFINE F == Onsets(finalist)
             P == Begins(piece)
             w == Q * Len(parts)
  <2>1. BeginningsPlayed(parts) = {F[k] : k \in {j \in Begun(finalist) : F[j] < w}}
    BY DEF MusicInv, Sent
  <2>2. CASE parts = <<>>
    <3>1. \A k \in 1..Len(piece) : ~(P[k] < Q * 0)
      <4> SUFFICES ASSUME NEW k \in 1..Len(piece) PROVE ~(P[k] < Q * 0)
        OBVIOUS
      <4>1. piece \in Seq(1..MAX_TEMPO)
        BY DEF IInv, TypeOK
      <4>2. k \in 1..Len(piece) + 1
        BY <4>1, PieceSums
      <4>3. P[k] \in Nat
        BY <4>1, <4>2, PieceSums
      <4> QED
        BY <4>3, PieceAssumption
    <3>2. Len(parts) = 0 /\ BeginningsPlayed(parts) = {}
      BY <2>2 DEF BeginningsPlayed
    <3> HIDE DEF P
    <3>3. {t \in {P[k] : k \in 1..Len(piece)} : t < w} = {}
      BY <3>1, <3>2
    <3> QED
      BY <3>2, <3>3 DEF SameMusic, P
  <2>3. CASE parts # <<>>
    <3>1. next = Len(piece) + 1 /\ {F[k] : k \in Begun(finalist)} = {P[j] : j \in 1..next - 1}
      BY <2>3 DEF MusicInv, InOrder, Written
    <3>2. next - 1 = Len(piece)
      <4>1. Len(piece) \in Nat
        BY PieceSums DEF IInv, TypeOK
      <4> QED
        BY <3>1, <4>1
    <3> HIDE DEF F, P, w
    <3>3. {F[k] : k \in {j \in Begun(finalist) : F[j] < w}} = {t \in {P[k] : k \in 1..Len(piece)} : t < w}
      <4>1. {F[k] : k \in {j \in Begun(finalist) : F[j] < w}}
              = {t \in {F[k] : k \in Begun(finalist)} : t < w}
        OBVIOUS
      <4> QED
        BY <3>1, <3>2, <4>1
    <3> QED
      BY <2>1, <3>3 DEF SameMusic, P, w
  <2> QED
    BY <2>2, <2>3
<1> QED
  BY <1>1, MusicAlways, Invariance, PTL
==============================================================================
