---------------------------- MODULE GenePoolProofs ----------------------------
(***************************************************************************)
(* Proofs about the pool, for any pool with an even quarter, any number of  *)
(* rounds, any pieces and draws.  Whatever compute_similarity returns, NaN  *)
(* included, the pieces never share an array and recombination is what the  *)
(* report says it is.  If it returns numbers, the pool is in their order    *)
(* when it is said to be.  As it is written, it is highest at the goal and  *)
(* nowhere else.                                                            *)
(***************************************************************************)
EXTENDS GenePool, SequenceTheorems, FiniteSetTheorems, TLAPS

(* The size of the pool.                                                    *)
LEMMA PoolFacts ==
  /\ GENETIC_POOL_SIZE \in Nat /\ GENETIC_POOL_SIZE >= 8
  /\ Top \in Place /\ 0 \in Place /\ Place \subseteq Nat
  /\ GENETIC_POOL_SIZE \div 4 \in Nat /\ 4 * (GENETIC_POOL_SIZE \div 4) = GENETIC_POOL_SIZE
  /\ (GENETIC_POOL_SIZE \div 4) % 2 = 0
<1>1. GENETIC_POOL_SIZE \in Nat \ {0} /\ GENETIC_POOL_SIZE % 8 = 0
  BY PoolAssumption
<1>2. PICK m \in Nat : GENETIC_POOL_SIZE = 8 * m
  <2>1. GENETIC_POOL_SIZE = 8 * (GENETIC_POOL_SIZE \div 8)
    BY <1>1
  <2>2. GENETIC_POOL_SIZE \div 8 \in Nat
    BY <1>1
  <2> QED
    BY <2>1, <2>2
<1>3. GENETIC_POOL_SIZE \div 4 = 2 * m
  BY <1>1, <1>2
<1>4. m >= 1
  BY <1>1, <1>2
<1> QED
  BY <1>1, <1>2, <1>3, <1>4 DEF Top, Place

(* The number of notes of a piece of the pool.                              *)
LEMMA CountFacts ==
  ASSUME TypeOK
  PROVE  Len(ggoal) \in Nat \ {0} /\ ggoal \in Seq(Note)
<1>1. ggoal \in Seq(Note) /\ ggoal # <<>>
  BY PoolAssumption DEF TypeOK
<1> QED
  BY <1>1, EmptySeq, LenProperties

(* The notes of each piece are those of its array.                          *)
LEMMA NotesType ==
  ASSUME TypeOK, NEW k \in Place
  PROVE  Notes(k) \in [1..Len(ggoal) -> Note]
BY DEF TypeOK, Notes

(* The pitch and the duration that are drawn are bytes.                     *)
LEMMA NewPitchType ==
  ASSUME NEW pitch \in 0..255, NEW d \in -NOTES_CHANGE_DIST..NOTES_CHANGE_DIST
  PROVE  NewPitch(pitch, d) \in 0..255
<1> DEFINE p == (IF pitch = MIDI_REST_NOTE THEN MIDDLE_NOTE ELSE pitch) + d
<1>1. p \in Int /\ p >= -11
  BY DEF NOTES_CHANGE_DIST, MIDI_REST_NOTE, MIDDLE_NOTE
<1>2. NewPitch(pitch, d) = IF p < 0 THEN p + 256 ELSE p % 128
  BY DEF NewPitch
<1>3. CASE p < 0
  BY <1>1, <1>2, <1>3
<1>4. CASE p >= 0
  <2>1. p % 128 \in 0..127
    BY <1>1, <1>4
  <2> QED
    BY <1>1, <1>2, <1>4, <2>1
<1> QED
  BY <1>1, <1>3, <1>4

LEMMA NewTempoType ==
  ASSUME NEW tempo \in 0..255, NEW d \in -TEMPO_CHANGE_DIST..TEMPO_CHANGE_DIST
  PROVE  NewTempo(tempo, d) \in 1..MAX_TEMPO
<1> DEFINE b == (tempo + d) % 256
<1>1. b \in 0..255
  BY DEF TEMPO_CHANGE_DIST
<1>2. NewTempo(tempo, d) = (b % MAX_TEMPO) + 1
  BY DEF NewTempo
<1> HIDE DEF b
<1>3. b % 16 \in 0..15
  BY <1>1
<1> QED
  BY <1>2, <1>3 DEF MAX_TEMPO

(* A changed note is a note.                                                *)
LEMMA ChangedType ==
  ASSUME NEW n \in Nat \ {0}, NEW notes \in [1..n -> Note], NEW draw \in Draw
  PROVE  Changed(notes, draw) \in [1..n -> Note]
<1>1. Len(notes) = n
  BY LenProperties
<1> DEFINE at == (draw.r % Len(notes)) + 1
<1>2. at \in 1..n
  BY <1>1 DEF Draw
<1>3. notes[at] \in Note
  BY <1>2
<1> HIDE DEF at
<1>4. NewPitch(notes[at].pitch, draw.pitch) \in 0..255
  BY <1>3, NewPitchType DEF Note, Draw
<1>5. NewTempo(notes[at].tempo, draw.tempo) \in 0..255
  <2>1. notes[at].tempo \in 0..255 /\ draw.tempo \in -TEMPO_CHANGE_DIST..TEMPO_CHANGE_DIST
    BY <1>3 DEF Note, Draw
  <2>2. NewTempo(notes[at].tempo, draw.tempo) \in 1..MAX_TEMPO
    BY <2>1, NewTempoType
  <2> QED
    BY <2>2 DEF MAX_TEMPO
<1> DEFINE new == [pitch |-> NewPitch(notes[at].pitch, draw.pitch),
                   tempo |-> NewTempo(notes[at].tempo, draw.tempo)]
<1>6. Changed(notes, draw) = [notes EXCEPT ![at] = new]
  BY <1>2 DEF Changed, at
<1>7. new \in Note
  BY <1>4, <1>5 DEF Note
<1> HIDE DEF new
<1> QED
  BY <1>2, <1>6, <1>7

(* A child has its notes from its parents.                                  *)
LEMMA CrossedType ==
  ASSUME NEW n \in Nat, NEW fst \in [1..n -> Note], NEW snd \in [1..n -> Note],
         NEW crossover \in 1..n
  PROVE  Crossed(fst, snd, crossover) \in [1..n -> Note]
BY DEF Crossed

LEMMA InitInv == Init => IInv
<1> SUFFICES ASSUME Init PROVE IInv
  OBVIOUS
<1>1. ginitial \in Seq(Note) /\ ginitial # <<>> /\ ggoal \in Seq(Note) /\ ggoal # <<>>
  BY PoolAssumption DEF Init
<1>2. Len(ginitial) \in Nat \ {0} /\ Len(ggoal) \in Nat \ {0}
  BY <1>1, EmptySeq, LenProperties
<1>3. Stretched(ginitial, Len(ggoal)) \in [1..Len(ggoal) -> Note]
  <2> SUFFICES ASSUME NEW n \in 1..Len(ggoal)
               PROVE  ginitial[((n - 1) % Len(ginitial)) + 1] \in Note
    BY DEF Stretched
  <2>1. ((n - 1) % Len(ginitial)) + 1 \in 1..Len(ginitial)
    BY <1>2
  <2> QED
    BY <1>1, <2>1, ElementOfSeq
<1>4. TypeOK
  BY <1>1, <1>2, <1>3, PoolFacts, PoolAssumption DEF Init, TypeOK, NUM_CHANGE
<1>5. OwnArrays
  BY DEF Init, OwnArrays
<1>6. Staged /\ InRange /\ Merging
  BY PoolAssumption DEF Init, Staged, InRange, Merging
<1> QED
  BY <1>4, <1>5, <1>6 DEF IInv

(* Two places with one array are one place.                                 *)
LEMMA RecombineStep == IInv /\ Recombine => IInv'
<1> SUFFICES ASSUME IInv, Recombine PROVE IInv'
  OBVIOUS
<1> DEFINE fst == Notes(Top - j)
           snd == Notes(Top - j - 1)
<1>1. j \in Nat /\ j % 2 = 0 /\ j + 1 < GENETIC_POOL_SIZE \div 4
  BY PoolFacts DEF IInv, TypeOK, Staged, Recombine
<1>2. Top - j \in Place /\ Top - j - 1 \in Place /\ j + 1 \in Place
  BY <1>1, PoolFacts DEF Top, Place
<1>3. PICK crossover \in 1..Len(ggoal) :
        heap' = [heap EXCEPT ![genetic_pool[Child(j)].notes] = Crossed(fst, snd, crossover),
                             ![genetic_pool[Child(j + 1)].notes] = Crossed(snd, fst, crossover)]
  BY DEF Recombine
<1>4. fst \in [1..Len(ggoal) -> Note] /\ snd \in [1..Len(ggoal) -> Note]
  BY <1>2, NotesType DEF IInv
<1>5. heap' \in [Place -> [1..Len(ggoal) -> Note]]
  <2> HIDE DEF fst, snd
  <2>1. /\ Crossed(fst, snd, crossover) \in [1..Len(ggoal) -> Note]
        /\ Crossed(snd, fst, crossover) \in [1..Len(ggoal) -> Note]
    BY <1>3, <1>4, CrossedType, CountFacts DEF IInv
  <2> QED
    BY <1>3, <2>1 DEF IInv, TypeOK
<1>6. /\ UNCHANGED <<pieceVars, i, genetic_pool, sim, changed, sortVars>>
      /\ phase = "recombine" /\ phase' \in {"recombine", "change"}
  BY DEF Recombine
<1>7. /\ j' \in Place
      /\ phase' = "recombine" => j' % 2 = 0 /\ j' + 1 < GENETIC_POOL_SIZE \div 4
  <2>1. CASE j + 2 < GENETIC_POOL_SIZE \div 4
    <3>1. j' = j + 2
      BY <2>1 DEF Recombine
    <3>2. (j + 2) % 2 = 0 /\ j + 3 < GENETIC_POOL_SIZE \div 4
      BY <1>1, <2>1, PoolFacts
    <3> QED
      BY <1>1, <2>1, <3>1, <3>2, PoolFacts DEF Place
  <2>2. CASE ~(j + 2 < GENETIC_POOL_SIZE \div 4)
    BY <2>2, PoolFacts DEF Recombine
  <2> QED
    BY <2>1, <2>2
<1>8. TypeOK'
  BY <1>5, <1>6, <1>7 DEF IInv, TypeOK, pieceVars, sortVars
<1>9. OwnArrays'
  BY <1>6 DEF IInv, OwnArrays, pieceVars
<1>10. InRange' /\ Merging'
  BY <1>6 DEF IInv, InRange, Merging, sortVars
<1>11. Staged'
  BY <1>6, <1>7 DEF IInv, Staged
<1> QED
  BY <1>8, <1>9, <1>10, <1>11 DEF IInv

LEMMA ChangeNoteStep == IInv /\ ChangeNote => IInv'
<1> SUFFICES ASSUME IInv, ChangeNote PROVE IInv'
  OBVIOUS
<1>1. PICK draw \in Draws[j] :
        heap' = [heap EXCEPT ![genetic_pool[j].notes] = Changed(Notes(j), draw)]
  BY DEF ChangeNote
<1>2. UNCHANGED <<pieceVars, i, genetic_pool, lw, hh, sandbox>> /\ phase = "change"
  BY DEF ChangeNote
<1>3. j \in Place /\ Len(ggoal) \in Nat \ {0}
  BY CountFacts DEF IInv, TypeOK
<1>4. heap' \in [Place -> [1..Len(ggoal) -> Note]]
  <2>1. draw \in Draw
    BY <1>1, <1>3, PoolAssumption
  <2>2. Notes(j) \in [1..Len(ggoal) -> Note]
    BY <1>3, NotesType DEF IInv
  <2>3. Changed(Notes(j), draw) \in [1..Len(ggoal) -> Note]
    BY <1>3, <2>1, <2>2, ChangedType
  <2> QED
    BY <1>1, <2>3 DEF IInv, TypeOK
<1>5. /\ phase' \in {"change", "sort"} /\ j' \in Place /\ DOMAIN sim' = Place
      /\ changed' \in 0..NUM_CHANGE(Len(ggoal)) - 1
      /\ phase' = "sort" => j' = 0
      /\ \/ calls' = calls
         \/ calls' = <<[op |-> "sort", fst |-> 0, end |-> Top]>>
  <2>1. CASE changed + 1 < NUM_CHANGE(Len(ggoal))
    BY <1>2, <2>1, <1>3 DEF ChangeNote, IInv, TypeOK, NUM_CHANGE
  <2>2. CASE ~(changed + 1 < NUM_CHANGE(Len(ggoal)))
    <3>1. changed' = 0 /\ DOMAIN sim' = Place
      BY <2>2 DEF ChangeNote, IInv, TypeOK
    <3>2. 0 \in 0..NUM_CHANGE(Len(ggoal)) - 1
      BY <1>3 DEF NUM_CHANGE
    <3>3. /\ phase' \in {"change", "sort"} /\ j' \in Place
          /\ phase' = "sort" => j' = 0
          /\ \/ calls' = calls
             \/ calls' = <<[op |-> "sort", fst |-> 0, end |-> Top]>>
      BY <1>2, <2>2, <1>3, PoolFacts DEF ChangeNote, Place, Top
    <3> QED
      BY <3>1, <3>2, <3>3
  <2> QED
    BY <2>1, <2>2
<1>6. calls' \in Seq(Call) /\ InRange'
  <2>1. CASE calls' = calls
    BY <2>1 DEF IInv, TypeOK, InRange
  <2>2. CASE calls' = <<[op |-> "sort", fst |-> 0, end |-> Top]>>
    BY <2>2, PoolFacts DEF InRange, Call, Top
  <2> QED
    BY <1>5, <2>1, <2>2
<1>7. TypeOK'
  BY <1>2, <1>4, <1>5, <1>6 DEF IInv, TypeOK, pieceVars
<1>8. OwnArrays'
  BY <1>2 DEF IInv, OwnArrays, pieceVars
<1>9. Staged' /\ Merging'
  BY <1>2, <1>5 DEF IInv, Staged, Merging
<1> QED
  BY <1>6, <1>7, <1>8, <1>9 DEF IInv

(* Of the first call and the others.                                        *)
LEMMA HeadFacts ==
  ASSUME TypeOK, InRange, calls # <<>>
  PROVE  /\ Head(calls) \in Call /\ Head(calls) = calls[1] /\ Len(calls) \in Nat \ {0}
         /\ Head(calls).fst \in Nat /\ Head(calls).end \in Nat
         /\ Head(calls).fst <= Head(calls).end
         /\ Head(calls).op = "merge" => Head(calls).fst < Head(calls).end
         /\ Mid(Head(calls)) \in Head(calls).fst..Head(calls).end
         /\ Head(calls).fst < Head(calls).end => Mid(Head(calls)) < Head(calls).end
         /\ Tail(calls) \in Seq(Call)
         /\ \A n \in 1..Len(Tail(calls)) : n + 1 \in 1..Len(calls) /\ Tail(calls)[n] = calls[n + 1]
<1>1. calls \in Seq(Call)
  BY DEF TypeOK
<1>2. Len(calls) \in Nat \ {0} /\ Head(calls) = calls[1] /\ calls[1] \in Call
  BY <1>1, EmptySeq, LenProperties, ElementOfSeq, HeadTailProperties
<1>3. calls[1].fst \in Nat /\ calls[1].end \in Nat
  BY <1>2, PoolFacts DEF Call
<1>4. calls[1].fst <= calls[1].end /\ (calls[1].op = "merge" => calls[1].fst < calls[1].end)
  BY <1>2 DEF InRange
<1>5. /\ Mid(calls[1]) \in calls[1].fst..calls[1].end
      /\ calls[1].fst < calls[1].end => Mid(calls[1]) < calls[1].end
  BY <1>3, <1>4 DEF Mid
<1>6. /\ Tail(calls) \in Seq(Call) /\ Len(Tail(calls)) = Len(calls) - 1
      /\ \A n \in 1..Len(Tail(calls)) : Tail(calls)[n] = calls[n + 1]
  BY <1>1, HeadTailProperties
<1> QED
  BY <1>2, <1>3, <1>4, <1>5, <1>6

LEMMA MergesortStep == IInv /\ MergesortPool => IInv'
<1> SUFFICES ASSUME IInv, MergesortPool PROVE IInv'
  OBVIOUS
<1> DEFINE call == Head(calls)
           q    == Mid(call)
           new  == IF call.fst < call.end
                   THEN <<[call EXCEPT !.end = q], [call EXCEPT !.fst = q + 1],
                          [call EXCEPT !.op = "merge"]>>
                   ELSE <<>>
<1>1. /\ calls # <<>> /\ calls' = new \o Tail(calls) /\ phase = "sort" /\ call.op = "sort"
      /\ UNCHANGED <<phase, pieceVars, i, genetic_pool, heap, sim, j, changed, lw, hh, sandbox>>
  BY DEF MergesortPool
<1>2. /\ call \in Call /\ call.fst \in Nat /\ call.end \in Nat /\ call.fst <= call.end
      /\ q \in call.fst..call.end /\ (call.fst < call.end => q < call.end)
      /\ Tail(calls) \in Seq(Call)
      /\ \A n \in 1..Len(Tail(calls)) : n + 1 \in 1..Len(calls) /\ Tail(calls)[n] = calls[n + 1]
  BY <1>1, HeadFacts DEF IInv
<1> DEFINE Fine(c) == /\ c \in Call /\ c.fst <= c.end
                      /\ c.op = "merge" => c.fst < c.end
<1>3. \A n \in 1..Len(Tail(calls)) : Fine(Tail(calls)[n])
  BY <1>2, ElementOfSeq DEF IInv, InRange
<1> HIDE DEF q
<1>4. new \in Seq(Call) /\ \A n \in 1..Len(new) : Fine(new[n])
  <2>1. CASE call.fst < call.end
    <3> HIDE DEF call
    <3>1. call.op \in {"sort", "merge"} /\ call.fst \in Place /\ call.end \in Place
      BY <1>2 DEF Call
    <3>2. q \in Place /\ q + 1 \in Place /\ call.fst <= q /\ q + 1 <= call.end
      <4>1. q < call.end /\ q \in Nat /\ call.fst <= q
        BY <1>2, <2>1
      <4> QED
        BY <3>1, <4>1, PoolFacts DEF Place
    <3>3. call = [op |-> "sort", fst |-> call.fst, end |-> call.end]
      BY <1>1, <1>2 DEF Call
    <3>4. /\ [call EXCEPT !.end = q] = [op |-> "sort", fst |-> call.fst, end |-> q]
          /\ [call EXCEPT !.fst = q + 1] = [op |-> "sort", fst |-> q + 1, end |-> call.end]
          /\ [call EXCEPT !.op = "merge"] = [op |-> "merge", fst |-> call.fst, end |-> call.end]
      BY <3>3
    <3>5. Fine([op |-> "sort", fst |-> call.fst, end |-> q])
      BY <3>1, <3>2 DEF Call
    <3>6. Fine([op |-> "sort", fst |-> q + 1, end |-> call.end])
      BY <3>1, <3>2 DEF Call
    <3>7. Fine([op |-> "merge", fst |-> call.fst, end |-> call.end])
      BY <2>1, <3>1, <1>2 DEF Call
    <3>8. PICK a, b, c : new = <<a, b, c>> /\ Fine(a) /\ Fine(b) /\ Fine(c)
      BY <2>1, <3>4, <3>5, <3>6, <3>7
    <3> HIDE DEF new
    <3> QED
      BY <3>8
  <2>2. CASE ~(call.fst < call.end)
    BY <2>2
  <2> QED
    BY <2>1, <2>2
<1> HIDE DEF new, call
<1>5. calls' \in Seq(Call) /\ \A n \in 1..Len(calls') : Fine(calls'[n])
  <2>1. /\ new \o Tail(calls) \in Seq(Call)
        /\ Len(new \o Tail(calls)) = Len(new) + Len(Tail(calls))
        /\ \A n \in 1..Len(new) + Len(Tail(calls)) :
             (new \o Tail(calls))[n] = IF n <= Len(new) THEN new[n] ELSE Tail(calls)[n - Len(new)]
    BY <1>2, <1>4, ConcatProperties
  <2>2. Len(new) \in Nat /\ Len(Tail(calls)) \in Nat
    BY <1>2, <1>4, LenProperties
  <2> HIDE DEF Fine
  <2>3. \A n \in 1..Len(new) + Len(Tail(calls)) :
          Fine(IF n <= Len(new) THEN new[n] ELSE Tail(calls)[n - Len(new)])
    BY <1>3, <1>4, <2>2
  <2> QED
    BY <1>1, <2>1, <2>3
<1>6. TypeOK'
  BY <1>1, <1>5 DEF IInv, TypeOK, pieceVars
<1>7. InRange'
  BY <1>5 DEF InRange
<1>8. OwnArrays' /\ Staged' /\ Merging'
  BY <1>1 DEF IInv, OwnArrays, Staged, Merging, pieceVars
<1> QED
  BY <1>6, <1>7, <1>8 DEF IInv

LEMMA BeginMergeStep == IInv /\ BeginMerge => IInv'
<1> SUFFICES ASSUME IInv, BeginMerge PROVE IInv'
  OBVIOUS
<1>1. /\ calls # <<>> /\ Head(calls).op = "merge" /\ phase = "sort" /\ phase' = "merge"
      /\ lw' = Head(calls).fst /\ hh' = Mid(Head(calls)) + 1 /\ sandbox' = <<>>
      /\ UNCHANGED <<pieceVars, i, genetic_pool, heap, sim, j, changed, calls>>
  BY DEF BeginMerge, Upper
<1>2. /\ Head(calls).fst \in Nat /\ Head(calls).end \in Nat
      /\ Mid(Head(calls)) \in Head(calls).fst..Head(calls).end
  BY <1>1, HeadFacts DEF IInv
<1>3. Mid(Head(calls))' = Mid(Head(calls))
  BY <1>1 DEF Mid
<1>4. TypeOK'
  BY <1>1, <1>2 DEF IInv, TypeOK, pieceVars
<1>5. Merging'
  BY <1>1, <1>2, <1>3 DEF Merging
<1>6. OwnArrays' /\ Staged' /\ InRange'
  BY <1>1 DEF IInv, OwnArrays, Staged, InRange, pieceVars
<1> QED
  BY <1>4, <1>5, <1>6 DEF IInv

(* What both TakeLow and TakeHigh do: one more place, that was not taken.   *)
LEMMA TakeStep ==
  ASSUME IInv, phase = "merge", NEW at \in Place, at \notin Taken,
         sandbox' = Append(sandbox, at),
         Taken' = Taken \union {at},
         NEW low, NEW high, lw' = low, hh' = high,
         low \in Head(calls).fst..Mid(Head(calls)) + 1,
         high \in Mid(Head(calls)) + 1..Head(calls).end + 1,
         low + high = lw + hh + 1,
         UNCHANGED <<phase, pieceVars, i, genetic_pool, heap, sim, j, changed, calls>>
  PROVE  IInv'
<1> DEFINE f == Head(calls).fst
           q == Mid(Head(calls))
           e == Head(calls).end
<1>1. /\ calls # <<>> /\ Head(calls).op = "merge"
      /\ lw \in f..q + 1 /\ hh \in q + 1..e + 1
      /\ lw + hh = f + q + 1 + Len(sandbox)
      /\ \A n \in 1..Len(sandbox) : sandbox[n] \in Taken
      /\ \A m, n \in 1..Len(sandbox) : sandbox[m] = sandbox[n] => m = n
  BY DEF IInv, Merging
<1>2. f \in Nat /\ e \in Nat /\ q \in f..e
  BY <1>1, HeadFacts DEF IInv
<1>3. /\ sandbox \in Seq(Place) /\ sandbox' \in Seq(Place)
      /\ Len(sandbox) \in Nat /\ Len(sandbox') = Len(sandbox) + 1
      /\ \A n \in 1..Len(sandbox) : sandbox'[n] = sandbox[n]
      /\ sandbox'[Len(sandbox) + 1] = at
  BY AppendProperties, LenProperties DEF IInv, TypeOK
<1>4. f' = f /\ q' = q /\ e' = e /\ calls' = calls
  BY DEF Mid
<1>5. low \in f..q + 1 /\ high \in q + 1..e + 1 /\ low + high = lw + hh + 1
  OBVIOUS
<1>6. low + high = f + q + 1 + Len(sandbox') /\ low \in Nat /\ high \in Nat
  <2> DEFINE m == Len(sandbox)
             n == Len(sandbox')
  <2>1. m \in Nat /\ n = m + 1 /\ lw + hh = f + q + 1 + m
    BY <1>1, <1>3
  <2> HIDE DEF f, q, e, m, n
  <2>2. lw \in Nat /\ hh \in Nat
    BY DEF IInv, TypeOK
  <2>3. low + high = f + q + 1 + n /\ low \in Nat /\ high \in Nat
    BY ONLY <1>2, <1>5, <2>1, <2>2
  <2> QED
    BY <2>3 DEF n
<1>7. TypeOK'
  BY <1>3, <1>6 DEF IInv, TypeOK, pieceVars
<1>8. \A n \in 1..Len(sandbox') : n \in 1..Len(sandbox) \/ n = Len(sandbox) + 1
  BY <1>3
<1>9. \A n \in 1..Len(sandbox') : sandbox'[n] \in Taken'
  BY <1>1, <1>3, <1>8
<1>10. \A m, n \in 1..Len(sandbox') : sandbox'[m] = sandbox'[n] => m = n
  BY <1>1, <1>3, <1>8
<1>11. Merging'
  BY <1>1, <1>4, <1>5, <1>6, <1>9, <1>10 DEF Merging
<1>12. OwnArrays' /\ Staged' /\ InRange'
  BY DEF IInv, OwnArrays, Staged, InRange, pieceVars
<1> QED
  BY <1>7, <1>11, <1>12 DEF IInv

LEMMA TakeLowStep == IInv /\ TakeLow => IInv'
<1> SUFFICES ASSUME IInv, TakeLow PROVE IInv'
  OBVIOUS
<1> DEFINE f == Head(calls).fst
           q == Mid(Head(calls))
           e == Head(calls).end
<1>1. /\ phase = "merge" /\ lw <= q /\ sandbox' = Append(sandbox, lw) /\ lw' = lw + 1 /\ hh' = hh
      /\ UNCHANGED <<phase, pieceVars, i, genetic_pool, heap, sim, j, changed, calls, hh>>
  BY DEF TakeLow, LowLeft
<1>2. calls # <<>> /\ lw \in f..q + 1 /\ hh \in q + 1..e + 1
  BY <1>1 DEF IInv, Merging
<1>3. f \in Nat /\ e \in Place /\ e \in Nat /\ q \in f..e
  BY <1>2, HeadFacts DEF IInv, Call
<1>4. Taken = f..lw - 1 \union q + 1..hh - 1 /\ Taken' = f'..lw' - 1 \union q' + 1..hh' - 1
  BY DEF Taken, Upper
<1>5. f' = f /\ q' = q
  BY <1>1 DEF Mid
<1> HIDE DEF f, q, e
<1>6. lw \in Place
  BY <1>1, <1>2, <1>3, PoolFacts DEF Place
<1>7. lw \notin Taken
  BY <1>1, <1>2, <1>3, <1>4
<1>8. Taken' = Taken \union {lw}
  BY <1>1, <1>2, <1>3, <1>4, <1>5
<1>9. lw + 1 \in f..q + 1 /\ (lw + 1) + hh = lw + hh + 1
  BY <1>1, <1>2, <1>3
<1> USE DEF f, q, e
<1> QED
  BY <1>1, <1>2, <1>6, <1>7, <1>8, <1>9, TakeStep

LEMMA TakeHighStep == IInv /\ TakeHigh => IInv'
<1> SUFFICES ASSUME IInv, TakeHigh PROVE IInv'
  OBVIOUS
<1> DEFINE f == Head(calls).fst
           q == Mid(Head(calls))
           e == Head(calls).end
<1>1. /\ phase = "merge" /\ hh <= e /\ sandbox' = Append(sandbox, hh) /\ hh' = hh + 1 /\ lw' = lw
      /\ UNCHANGED <<phase, pieceVars, i, genetic_pool, heap, sim, j, changed, calls, lw>>
  BY DEF TakeHigh, HighLeft
<1>2. calls # <<>> /\ lw \in f..q + 1 /\ hh \in q + 1..e + 1
  BY <1>1 DEF IInv, Merging
<1>3. f \in Nat /\ e \in Place /\ e \in Nat /\ q \in f..e
  BY <1>2, HeadFacts DEF IInv, Call
<1>4. Taken = f..lw - 1 \union q + 1..hh - 1 /\ Taken' = f'..lw' - 1 \union q' + 1..hh' - 1
  BY DEF Taken, Upper
<1>5. f' = f /\ q' = q
  BY <1>1 DEF Mid
<1> HIDE DEF f, q, e
<1>6. hh \in Place
  BY <1>1, <1>2, <1>3, PoolFacts DEF Place
<1>7. hh \notin Taken
  BY <1>1, <1>2, <1>3, <1>4
<1>8. Taken' = Taken \union {hh}
  BY <1>1, <1>2, <1>3, <1>4, <1>5
<1>9. hh + 1 \in q + 1..e + 1 /\ lw + (hh + 1) = lw + hh + 1
  BY <1>1, <1>2, <1>3
<1> USE DEF f, q, e
<1> QED
  BY <1>1, <1>2, <1>6, <1>7, <1>8, <1>9, TakeStep

(* What is taken is in the range, each place once: the pieces that are      *)
(* written back are those of the range in another order.                    *)
LEMMA WriteBackStep == IInv /\ WriteBack => IInv'
<1> SUFFICES ASSUME IInv, WriteBack PROVE IInv'
  OBVIOUS
<1> DEFINE f == Head(calls).fst
           q == Mid(Head(calls))
           e == Head(calls).end
<1>1. /\ phase = "merge" /\ ~(lw <= q) /\ ~(hh <= e)
      /\ genetic_pool' = Merged(genetic_pool) /\ sim' = Merged(sim)
      /\ calls' = Tail(calls) /\ phase' = "sort"
      /\ UNCHANGED <<pieceVars, i, heap, j, changed, lw, hh, sandbox>>
  BY DEF WriteBack, LowLeft, HighLeft
<1>2. /\ calls # <<>> /\ lw \in f..q + 1 /\ hh \in q + 1..e + 1
      /\ lw + hh = f + q + 1 + Len(sandbox)
      /\ \A n \in 1..Len(sandbox) : sandbox[n] \in Taken
      /\ \A m, n \in 1..Len(sandbox) : sandbox[m] = sandbox[n] => m = n
  BY <1>1 DEF IInv, Merging
<1>3. f \in Nat /\ e \in Place /\ e \in Nat /\ q \in f..e
  BY <1>2, HeadFacts DEF IInv, Call
<1>4. Taken = f..lw - 1 \union q + 1..hh - 1
  BY DEF Taken, Upper
<1>5. /\ Tail(calls) \in Seq(Call)
      /\ \A n \in 1..Len(Tail(calls)) : n + 1 \in 1..Len(calls) /\ Tail(calls)[n] = calls[n + 1]
  BY <1>2, HeadFacts DEF IInv
<1> DEFINE from(k) == IF k \in f..e THEN sandbox[k - f + 1] ELSE k
<1>6. \A array : Merged(array) = [k \in Place |-> IF k \in f..e THEN array[sandbox[k - f + 1]] ELSE array[k]]
  BY DEF Merged
<1> HIDE DEF f, q, e
<1>7. lw = q + 1 /\ hh = e + 1
  BY <1>1, <1>2, <1>3
<1>8. Taken = f..e
  BY <1>3, <1>4, <1>7
<1>9. Len(sandbox) = e - f + 1
  <2>1. Len(sandbox) \in Nat
    BY LenProperties DEF IInv, TypeOK
  <2> QED
    BY <1>2, <1>3, <1>7, <2>1
<1>10. \A k \in f..e : k - f + 1 \in 1..Len(sandbox) /\ sandbox[k - f + 1] \in f..e
  BY <1>2, <1>3, <1>8, <1>9
<1>11. \A k \in Place : from(k) \in Place
  <2>1. \A k \in f..e : k \in Place
    BY <1>3, PoolFacts DEF Place
  <2>2. \A k \in f..e : from(k) \in Place
    BY <1>10, <2>1
  <2> QED
    BY <2>2
<1>12. \A k, l \in Place : from(k) = from(l) => k = l
  <2> SUFFICES ASSUME NEW k \in Place, NEW l \in Place, from(k) = from(l) PROVE k = l
    OBVIOUS
  <2>1. f \in Int /\ k \in Int /\ l \in Int
    BY <1>3, PoolFacts
  <2>2. CASE k \in f..e /\ l \in f..e
    <3>1. k - f + 1 = l - f + 1
      BY <1>2, <1>10, <2>2
    <3> QED
      BY <2>1, <3>1
  <2>3. CASE ~(k \in f..e /\ l \in f..e)
    BY <1>10, <2>3
  <2> QED
    BY <2>2, <2>3
<1>13. \A array : Merged(array) = [k \in Place |-> array[from(k)]]
  BY <1>6
<1> HIDE DEF from
<1>14. /\ genetic_pool' = [k \in Place |-> genetic_pool[from(k)]]
       /\ DOMAIN sim' = Place
  BY <1>1, <1>13
<1>15. genetic_pool' \in [Place -> [notes : Place, count : Nat]]
  BY <1>11, <1>14 DEF IInv, TypeOK
<1>16. TypeOK'
  BY <1>1, <1>5, <1>14, <1>15 DEF IInv, TypeOK, pieceVars
<1>17. OwnArrays'
  BY <1>1, <1>11, <1>12, <1>14 DEF IInv, OwnArrays, pieceVars
<1>18. InRange'
  BY <1>1, <1>5 DEF IInv, InRange
<1>19. Staged' /\ Merging'
  BY <1>1 DEF IInv, Staged, Merging
<1> QED
  BY <1>16, <1>17, <1>18, <1>19 DEF IInv

LEMMA EndOfRoundStep == IInv /\ EndOfRound => IInv'
<1> SUFFICES ASSUME IInv, EndOfRound PROVE IInv'
  OBVIOUS
<1>1. /\ phase = "sort" /\ i' = i + 1 /\ phase' \in {"recombine", "done"}
      /\ UNCHANGED <<ggoal, genetic_pool, heap, sim, j, changed, sortVars>>
      /\ ginitial' = ginitial \/ ginitial' = Notes(Top)
      /\ phase' # "done" => i + 1 < GENETIC_ROUNDS
  BY DEF EndOfRound
<1>2. Notes(Top) \in Seq(Note) \ {<<>>}
  <2>1. Notes(Top) \in [1..Len(ggoal) -> Note] /\ Len(ggoal) \in Nat \ {0}
    BY PoolFacts, NotesType, CountFacts DEF IInv
  <2>2. Notes(Top) \in Seq(Note) /\ Len(Notes(Top)) # 0
    BY <2>1
  <2> QED
    BY <2>2
<1>3. TypeOK'
  <2>1. i + 1 \in 0..GENETIC_ROUNDS
    BY <1>1, PoolAssumption DEF IInv, TypeOK, Staged
  <2> QED
    BY <1>1, <1>2, <2>1 DEF IInv, TypeOK, sortVars
<1>4. Staged'
  <2>1. j = 0 /\ j' = 0
    BY <1>1 DEF IInv, Staged
  <2>2. 0 % 2 = 0 /\ 0 + 1 < GENETIC_POOL_SIZE \div 4
    BY PoolFacts
  <2> QED
    BY <1>1, <2>1, <2>2 DEF Staged
<1>5. OwnArrays' /\ InRange' /\ Merging'
  BY <1>1 DEF IInv, OwnArrays, InRange, Merging, sortVars
<1> QED
  BY <1>3, <1>4, <1>5 DEF IInv

LEMMA NextStep == IInv /\ [Next]_vars => IInv'
<1> SUFFICES ASSUME IInv, [Next]_vars PROVE IInv'
  OBVIOUS
<1>1. CASE Recombine
  BY <1>1, RecombineStep
<1>2. CASE ChangeNote
  BY <1>2, ChangeNoteStep
<1>3. CASE MergesortPool
  BY <1>3, MergesortStep
<1>4. CASE BeginMerge
  BY <1>4, BeginMergeStep
<1>5. CASE TakeLow
  BY <1>5, TakeLowStep
<1>6. CASE TakeHigh
  BY <1>6, TakeHighStep
<1>7. CASE WriteBack
  BY <1>7, WriteBackStep
<1>8. CASE EndOfRound
  BY <1>8, EndOfRoundStep
<1>9. CASE UNCHANGED vars
  BY <1>9 DEF vars, pieceVars, sortVars, IInv, TypeOK, OwnArrays, Staged, InRange, Merging, Taken,
              Mid, Upper, NUM_CHANGE, Place
<1> QED
  BY <1>1, <1>2, <1>3, <1>4, <1>5, <1>6, <1>7, <1>8, <1>9 DEF Next, MergePool, Ended

(* The pieces of the pool never share an array, and a merge takes every     *)
(* place of its range once and no other (genetic_loop, mergesort_pool,      *)
(* merge_pool, transrecombine).                                             *)
THEOREM PoolInvariance == Spec => []IInv
<1>1. Init => IInv
  BY InitInv
<1>2. IInv /\ [Next]_vars => IInv'
  BY NextStep
<1> QED
  BY <1>1, <1>2, PTL DEF Spec

(* A change of one piece changes no other, since each has its array.        *)
THEOREM PiecesAreSeparate == Spec => []OwnArrays
<1>1. IInv => OwnArrays
  BY DEF IInv
<1> QED
  BY <1>1, PoolInvariance, PTL

(* One of the two children has each note from one parent, and the other     *)
(* from the other.                                                          *)
LEMMA CrossedNotes ==
  ASSUME NEW N \in Nat, NEW fst \in [1..N -> Note], NEW snd \in [1..N -> Note],
         NEW crossover \in 1..N, NEW n \in 1..N
  PROVE  <<Crossed(fst, snd, crossover)[n], Crossed(snd, fst, crossover)[n]>>
           \in {<<fst[n], snd[n]>>, <<snd[n], fst[n]>>}
BY DEF Crossed

(* Recombination touches the two it replaces and no other.                  *)
LEMMA HeredityStep ==
  ASSUME IInv, Recombine, NEW k \in Place, j = k
  PROVE  /\ \A l \in Place \ {k, k + 1} : Notes(l)' = Notes(l)
         /\ \A n \in 1..Len(ggoal) :
              <<Notes(k)'[n], Notes(k + 1)'[n]>> \in
                {<<Notes(Top - k)[n], Notes(Top - k - 1)[n]>>,
                 <<Notes(Top - k - 1)[n], Notes(Top - k)[n]>>}
<1> DEFINE fst == Notes(Top - k)
           snd == Notes(Top - k - 1)
           at(l) == genetic_pool[l].notes
<1>1. k \in Nat /\ k + 1 < GENETIC_POOL_SIZE \div 4 /\ UNCHANGED <<ggoal, genetic_pool>>
  BY PoolFacts DEF IInv, TypeOK, Staged, Recombine, pieceVars
<1>2. Top - k \in Place /\ Top - k - 1 \in Place /\ k + 1 \in Place
  BY <1>1, PoolFacts DEF Top, Place
<1>3. PICK crossover \in 1..Len(ggoal) :
        heap' = [heap EXCEPT ![at(k)] = Crossed(fst, snd, crossover),
                             ![at(k + 1)] = Crossed(snd, fst, crossover)]
  BY DEF Recombine, Child
<1>4. fst \in [1..Len(ggoal) -> Note] /\ snd \in [1..Len(ggoal) -> Note]
  BY <1>2, NotesType DEF IInv
<1>5. \A l \in Place : Notes(l) = heap[at(l)] /\ Notes(l)' = heap'[at(l)] /\ at(l) \in Place
  BY <1>1 DEF Notes, IInv, TypeOK
<1>6. DOMAIN heap = Place
  BY DEF IInv, TypeOK
<1>7. \A l, m \in Place : at(l) = at(m) => l = m
  BY DEF IInv, OwnArrays
<1> HIDE DEF at, fst, snd
<1>8. at(k) \in Place /\ at(k + 1) \in Place /\ at(k) # at(k + 1)
  <2>1. k # k + 1
    BY <1>1
  <2> QED
    BY <1>2, <1>5, <1>7, <2>1
<1>9. Notes(k)' = Crossed(fst, snd, crossover) /\ Notes(k + 1)' = Crossed(snd, fst, crossover)
  <2> DEFINE a == at(k)
             b == at(k + 1)
             x == Crossed(fst, snd, crossover)
             y == Crossed(snd, fst, crossover)
  <2>1. heap' = [heap EXCEPT ![a] = x, ![b] = y] /\ a \in DOMAIN heap /\ b \in DOMAIN heap /\ a # b
    BY <1>3, <1>6, <1>8
  <2>2. Notes(k)' = heap'[a] /\ Notes(k + 1)' = heap'[b]
    BY <1>2, <1>5
  <2> HIDE DEF a, b, x, y
  <2>3. heap'[a] = x /\ heap'[b] = y
    BY <2>1
  <2> QED
    BY <2>2, <2>3 DEF x, y
<1>10. \A l \in Place \ {k, k + 1} : Notes(l)' = Notes(l)
  BY <1>2, <1>3, <1>5, <1>6, <1>7
<1>11. ASSUME NEW n \in 1..Len(ggoal)
       PROVE  <<Notes(k)'[n], Notes(k + 1)'[n]>> \in {<<fst[n], snd[n]>>, <<snd[n], fst[n]>>}
  <2> SUFFICES <<Crossed(fst, snd, crossover)[n], Crossed(snd, fst, crossover)[n]>>
                 \in {<<fst[n], snd[n]>>, <<snd[n], fst[n]>>}
    BY <1>9
  <2> QED
    BY <1>3, <1>4, CrossedNotes, CountFacts DEF IInv
<1> QED
  BY <1>10, <1>11 DEF fst, snd

(* The best are only copied, and the copies have all their notes between    *)
(* them (transrecombine).                                                   *)
THEOREM HeredityHolds == Spec => Heredity
<1> DEFINE Inherited(k) ==
      /\ \A l \in Place \ {k, k + 1} : Notes(l)' = Notes(l)
      /\ \A n \in 1..Len(ggoal) :
           <<Notes(k)'[n], Notes(k + 1)'[n]>> \in
             {<<Notes(Top - k)[n], Notes(Top - k - 1)[n]>>,
              <<Notes(Top - k - 1)[n], Notes(Top - k)[n]>>}
           A == \A k \in Place : phase = "recombine" /\ j = k => Inherited(k)
<1>1. IInv /\ [Next]_vars => [A]_vars
  <2> SUFFICES ASSUME IInv, Next, NEW k \in Place, phase = "recombine", j = k, ~UNCHANGED vars
               PROVE  Inherited(k)
    OBVIOUS
  <2>1. Recombine
    BY DEF Next, ChangeNote, MergesortPool, MergePool, BeginMerge, TakeLow, TakeHigh, WriteBack,
           EndOfRound, Ended
  <2> QED
    BY <2>1, HeredityStep
<1> QED
  BY <1>1, PoolInvariance, PTL DEF Spec, Heredity
-----------------------------------------------------------------------------
(* The order of the pool.                                                   *)
(*                                                                          *)
(* A half of a call of merge, and the whole pool, which is left in the end  *)
(* as a half would be, either are in order, and no earlier call touches     *)
(* them, or are what an earlier call is of.                                 *)

Span(call) == call.fst..call.end

Lower(call) == call.fst..Mid(call)

Higher(call) == Mid(call) + 1..call.end

Ordered(array, s) == \A k, l \in s : k <= l => array[k] <= array[l]

Settled(array, c, s, n) == Ordered(array, s) /\ \A m \in 1..n - 1 : Span(c[m]) \cap s = {}

Pending(c, s, n) == \E m \in 1..n - 1 : Span(c[m]) = s

WellFormed(c) ==
  /\ c \in Seq(Call)
  /\ \A n \in 1..Len(c) : c[n].fst <= c[n].end /\ (c[n].op = "merge" => c[n].fst < c[n].end)

(* An earlier call has nothing in common with a later one, or is of a part  *)
(* of a half that the later one merges.                                     *)
Nested(c) ==
  \A m, n \in 1..Len(c) :
    m < n => \/ Span(c[m]) \cap Span(c[n]) = {}
             \/ /\ c[n].op = "merge"
                /\ Span(c[m]) \subseteq Lower(c[n]) \/ Span(c[m]) \subseteq Higher(c[n])

Halves(array, c) ==
  \A n \in 1..Len(c) :
    c[n].op = "merge" =>
      \A s \in {Lower(c[n]), Higher(c[n])} : Settled(array, c, s, n) \/ Pending(c, s, n)

Whole(array, c) == Settled(array, c, Place, Len(c) + 1) \/ Pending(c, Place, Len(c) + 1)

(* The similarities are those of the pieces.                                *)
Known(k) == IF phase = "change" THEN k < j ELSE phase = "recombine" => j = 0

SimKept == \A k \in Place : Known(k) => sim[k] = Similarity(ggoal, Notes(k))

(* What a merge took is in order, and not more than what it left.           *)
Remaining == lw..Mid(Head(calls)) \union hh..Head(calls).end

Drawn ==
  /\ \A m, n \in 1..Len(sandbox) : m <= n => sim[sandbox[m]] <= sim[sandbox[n]]
  /\ \A m \in 1..Len(sandbox) : \A k \in Remaining : sim[sandbox[m]] <= sim[k]

Idle == phase \notin {"sort", "merge"} => calls = <<>>

Kept == phase = "done" => ginitial = Notes(Top)

OrderInv ==
  /\ phase \in {"sort", "merge"} => Halves(sim, calls) /\ Whole(sim, calls)
  /\ phase = "merge" => Drawn
  /\ phase \in {"done", "recombine"} /\ j = 0 => Ordered(sim, Place)

RankInv ==
  /\ IInv
  /\ Nested(calls) /\ Idle /\ SimKept /\ Kept
  /\ Len(ggoal) > 1 => OrderInv

(* Of a call and its halves.                                                *)
LEMMA SpanFacts ==
  ASSUME NEW a \in Call, a.fst <= a.end
  PROVE  /\ a.fst \in Nat /\ a.end \in Nat /\ Mid(a) \in a.fst..a.end
         /\ Span(a) \subseteq Place /\ a.fst \in Span(a)
         /\ a.fst < a.end =>
              /\ Mid(a) < a.end
              /\ Lower(a) \subseteq Span(a) /\ Higher(a) \subseteq Span(a)
              /\ Lower(a) \cap Higher(a) = {}
              /\ a.end \notin Lower(a) /\ a.fst \notin Higher(a) /\ a.end \in Span(a)
<1>1. a.fst \in Place /\ a.end \in Place /\ a.fst \in Nat /\ a.end \in Nat
  BY PoolFacts DEF Call
<1>2. Mid(a) \in a.fst..a.end /\ (a.fst < a.end => Mid(a) < a.end)
  BY <1>1 DEF Mid
<1> DEFINE f == a.fst
           e == a.end
           q == Mid(a)
<1>3. Span(a) = f..e /\ Lower(a) = f..q /\ Higher(a) = q + 1..e
  BY DEF Span, Lower, Higher
<1>4. GENETIC_POOL_SIZE \in Nat /\ Place = 0..GENETIC_POOL_SIZE - 1
  BY PoolFacts DEF Place
<1>5. f \in Place /\ e \in Place /\ f \in Nat /\ e \in Nat /\ q \in f..e /\ f <= e /\ (f < e => q < e)
  BY <1>1, <1>2
<1> HIDE DEF f, e, q
<1>6. f..e \subseteq Place /\ f \in f..e /\ e \in f..e
  BY <1>4, <1>5
<1>7. f < e => /\ f..q \subseteq f..e /\ q + 1..e \subseteq f..e /\ (f..q) \cap (q + 1..e) = {}
               /\ e \notin f..q /\ f \notin q + 1..e
  BY <1>5
<1> QED
  BY <1>3, <1>5, <1>6, <1>7 DEF f, e, q

(* The k-th call of a list of them.                                         *)
LEMMA CallFacts ==
  ASSUME NEW c, WellFormed(c), NEW n \in 1..Len(c)
  PROVE  /\ c[n] \in Call /\ c[n].fst <= c[n].end
         /\ c[n].op = "merge" => c[n].fst < c[n].end
BY ElementOfSeq DEF WellFormed

(* A call earlier than a merge is of a part of its half or has nothing to   *)
(* do with it.                                                              *)
LEMMA NestedApart ==
  ASSUME NEW c, WellFormed(c), Nested(c), NEW n \in 1..Len(c), c[n].op = "merge",
         NEW s \in {Lower(c[n]), Higher(c[n])}, NEW m \in 1..n - 1
  PROVE  Span(c[m]) \cap s = {} \/ Span(c[m]) \subseteq s
<1>1. Len(c) \in Nat
  BY LenProperties DEF WellFormed
<1>2. m \in 1..Len(c) /\ m < n
  BY <1>1
<1>3. /\ Lower(c[n]) \subseteq Span(c[n]) /\ Higher(c[n]) \subseteq Span(c[n])
      /\ Lower(c[n]) \cap Higher(c[n]) = {}
  BY CallFacts, SpanFacts
<1>4. \/ Span(c[m]) \cap Span(c[n]) = {}
      \/ Span(c[m]) \subseteq Lower(c[n]) \/ Span(c[m]) \subseteq Higher(c[n])
  BY <1>2 DEF Nested
<1> QED
  BY <1>3, <1>4

(* The first call is over and has left its range in order: what waited for  *)
(* it is settled, and the rest is as it was.                                *)
LEMMA Returned ==
  ASSUME NEW c, WellFormed(c), Nested(c), c # <<>>,
         NEW d, d \in Seq(Call), Len(d) = Len(c) - 1, \A m \in 1..Len(d) : d[m] = c[m + 1],
         NEW old, NEW new, Ordered(new, Span(c[1])),
         \A k \in Place \ Span(c[1]) : new[k] = old[k],
         NEW n \in 2..Len(c) + 1, NEW s \in SUBSET Place,
         \A m \in 1..n - 1 : Span(c[m]) \cap s = {} \/ Span(c[m]) \subseteq s,
         Settled(old, c, s, n) \/ Pending(c, s, n)
  PROVE  Settled(new, d, s, n - 1) \/ Pending(d, s, n - 1)
<1>1. Len(c) \in Nat /\ 1 \in 1..Len(c) /\ 1 \in 1..n - 1
  BY EmptySeq, LenProperties DEF WellFormed
<1>2. \A m \in 1..n - 2 : m + 1 \in 1..n - 1 /\ m + 1 \in 1..Len(c) /\ d[m] = c[m + 1] /\ 1 < m + 1
  BY <1>1
<1>3. n - 1 - 1 = n - 2
  BY <1>1
<1>4. CASE Settled(old, c, s, n)
  <2>1. Span(c[1]) \cap s = {}
    BY <1>1, <1>4 DEF Settled
  <2>2. \A k \in s : new[k] = old[k]
    BY <2>1
  <2>3. Ordered(new, s)
    BY <1>4, <2>2 DEF Settled, Ordered
  <2>4. \A m \in 1..n - 2 : Span(d[m]) \cap s = {}
    BY <1>2, <1>4 DEF Settled
  <2> QED
    BY <1>3, <2>3, <2>4 DEF Settled
<1>5. ASSUME NEW m \in 1..n - 1, Span(c[m]) = s
      PROVE  Settled(new, d, s, n - 1) \/ Pending(d, s, n - 1)
  <2>1. CASE m > 1
    <3>1. m - 1 \in 1..n - 2 /\ (m - 1) + 1 = m
      BY <1>1, <2>1
    <3>2. d[m - 1] = c[m]
      BY <1>2, <3>1
    <3> QED
      BY <1>3, <1>5, <3>1, <3>2 DEF Pending
  <2>2. CASE m = 1
    <3>1. ASSUME NEW p \in 1..n - 2, Span(d[p]) \cap s # {}
          PROVE  FALSE
      <4>1. /\ p + 1 \in 1..n - 1 /\ p + 1 \in 1..Len(c) /\ d[p] = c[p + 1] /\ 1 < p + 1
        BY <1>2
      <4>2. Span(c[p + 1]) \subseteq s
        BY <3>1, <4>1
      <4>3. /\ c[p + 1].op = "merge"
            /\ s \subseteq Lower(c[p + 1]) \/ s \subseteq Higher(c[p + 1])
        BY <1>1, <1>5, <2>2, <3>1, <4>1 DEF Nested
      <4>4. /\ c[p + 1].end \notin Lower(c[p + 1]) /\ c[p + 1].fst \notin Higher(c[p + 1])
            /\ c[p + 1].end \in Span(c[p + 1]) /\ c[p + 1].fst \in Span(c[p + 1])
        BY <4>1, <4>3, CallFacts, SpanFacts
      <4> QED
        BY <4>2, <4>3, <4>4
    <3>2. Ordered(new, s)
      BY <1>5, <2>2
    <3> QED
      BY <1>3, <3>1, <3>2 DEF Settled
  <2> QED
    BY <1>1, <2>1, <2>2
<1> QED
  BY <1>4, <1>5 DEF Pending

(* So all is as it should be when the first call is over.                   *)
LEMMA FirstReturns ==
  ASSUME NEW c, WellFormed(c), Nested(c), c # <<>>,
         NEW old, NEW new, Ordered(new, Span(Head(c))),
         \A k \in Place \ Span(Head(c)) : new[k] = old[k],
         Halves(old, c), Whole(old, c)
  PROVE  Halves(new, Tail(c)) /\ Whole(new, Tail(c))
<1> DEFINE d == Tail(c)
<1>1. /\ d \in Seq(Call) /\ Len(d) = Len(c) - 1 /\ \A m \in 1..Len(d) : d[m] = c[m + 1]
      /\ Head(c) = c[1] /\ Len(c) \in Nat \ {0}
  BY HeadTailProperties, EmptySeq, LenProperties DEF WellFormed
<1> HIDE DEF d
<1>2. ASSUME NEW n \in 1..Len(d), d[n].op = "merge", NEW s \in {Lower(d[n]), Higher(d[n])}
      PROVE  Settled(new, d, s, n) \/ Pending(d, s, n)
  <2>1. n + 1 \in 1..Len(c) /\ n + 1 \in 2..Len(c) + 1 /\ d[n] = c[n + 1] /\ (n + 1) - 1 = n
    BY <1>1
  <2>2. s \in SUBSET Place
    BY <1>2, <2>1, CallFacts, SpanFacts
  <2>3. ASSUME NEW m \in 1..(n + 1) - 1
        PROVE  Span(c[m]) \cap s = {} \/ Span(c[m]) \subseteq s
    <3>1. c[n + 1].op = "merge" /\ s \in {Lower(c[n + 1]), Higher(c[n + 1])}
      BY <1>2, <2>1
    <3> QED
      BY <2>1, <3>1, NestedApart
  <2>4. Settled(old, c, s, n + 1) \/ Pending(c, s, n + 1)
    BY <1>2, <2>1 DEF Halves
  <2>5. Settled(new, d, s, (n + 1) - 1) \/ Pending(d, s, (n + 1) - 1)
    BY <1>1, <2>1, <2>2, <2>3, <2>4, Returned
  <2> QED
    BY <2>1, <2>5
<1>3. Settled(new, d, Place, Len(d) + 1) \/ Pending(d, Place, Len(d) + 1)
  <2>1. Len(c) + 1 \in 2..Len(c) + 1 /\ (Len(c) + 1) - 1 = Len(d) + 1
    BY <1>1
  <2>2. \A m \in 1..(Len(c) + 1) - 1 : Span(c[m]) \subseteq Place
    BY <1>1, CallFacts, SpanFacts
  <2>3. Settled(old, c, Place, Len(c) + 1) \/ Pending(c, Place, Len(c) + 1)
    BY DEF Whole
  <2>4. Settled(new, d, Place, (Len(c) + 1) - 1) \/ Pending(d, Place, (Len(c) + 1) - 1)
    BY <1>1, <2>1, <2>2, <2>3, Returned
  <2> QED
    BY <2>1, <2>4
<1> QED
  BY <1>2, <1>3 DEF d, Halves, Whole

LEMMA NestedTail ==
  ASSUME NEW c, WellFormed(c), Nested(c), c # <<>>
  PROVE  Nested(Tail(c))
<1> DEFINE d == Tail(c)
<1>1. d \in Seq(Call) /\ Len(d) = Len(c) - 1 /\ \A m \in 1..Len(d) : d[m] = c[m + 1]
  BY HeadTailProperties DEF WellFormed
<1>2. Len(c) \in Nat
  BY LenProperties DEF WellFormed
<1> HIDE DEF d
<1>3. \A m \in 1..Len(d) : m + 1 \in 1..Len(c)
  BY <1>1, <1>2
<1>4. \A m, n \in 1..Len(d) : m < n => m + 1 < n + 1
  BY <1>1, <1>2
<1>5. Nested(d)
  BY <1>1, <1>3, <1>4 DEF Nested
<1> QED
  BY <1>5 DEF d

(* The first call is replaced by those of its halves and that of merge.     *)
LEMMA Deferred ==
  ASSUME NEW c, WellFormed(c), c # <<>>,
         NEW d, Len(d) = Len(c) + 2,
         Span(d[1]) \subseteq Span(c[1]), Span(d[2]) \subseteq Span(c[1]), Span(d[3]) = Span(c[1]),
         \A m \in 4..Len(d) : d[m] = c[m - 2],
         NEW array, NEW n \in 2..Len(c) + 1, NEW s,
         Settled(array, c, s, n) \/ Pending(c, s, n)
  PROVE  Settled(array, d, s, n + 2) \/ Pending(d, s, n + 2)
<1>1. Len(c) \in Nat /\ 1 \in 1..n - 1
  BY EmptySeq, LenProperties DEF WellFormed
<1>2. \A m \in 1..(n + 2) - 1 : \/ m \in {1, 2, 3}
                                \/ d[m] = c[m - 2] /\ m - 2 \in 1..n - 1
  BY <1>1
<1>3. CASE Settled(array, c, s, n)
  <2>1. \A m \in 1..(n + 2) - 1 : Span(d[m]) \cap s = {}
    BY <1>1, <1>2, <1>3 DEF Settled
  <2> QED
    BY <1>3, <2>1 DEF Settled
<1>4. ASSUME NEW m \in 1..n - 1, Span(c[m]) = s
      PROVE  \E p \in 1..(n + 2) - 1 : Span(d[p]) = s
  <2>1. CASE m = 1
    <3>1. 3 \in 1..(n + 2) - 1
      BY <1>1
    <3> QED
      BY <1>4, <2>1, <3>1
  <2>2. CASE m # 1
    <3>1. m + 2 \in 4..Len(d) /\ m + 2 \in 1..(n + 2) - 1 /\ (m + 2) - 2 = m
      BY <1>1, <2>2
    <3>2. d[m + 2] = c[m]
      BY <3>1
    <3> QED
      BY <1>4, <3>1, <3>2
  <2> QED
    BY <2>1, <2>2
<1> QED
  BY <1>3, <1>4 DEF Pending

LEMMA FirstDivides ==
  ASSUME NEW c, WellFormed(c), Nested(c), c # <<>>, c[1].fst < c[1].end,
         NEW d, WellFormed(d), Len(d) = Len(c) + 2,
         Span(d[1]) = Lower(c[1]), Span(d[2]) = Higher(c[1]), Span(d[3]) = Span(c[1]),
         Lower(d[3]) = Lower(c[1]), Higher(d[3]) = Higher(c[1]),
         d[1].op = "sort", d[2].op = "sort", d[3].op = "merge",
         \A m \in 4..Len(d) : d[m] = c[m - 2]
  PROVE  /\ Nested(d)
         /\ \A array : Halves(array, c) /\ Whole(array, c) => Halves(array, d) /\ Whole(array, d)
<1>1. Len(c) \in Nat /\ 1 \in 1..Len(c)
  BY EmptySeq, LenProperties DEF WellFormed
<1>2. /\ Lower(c[1]) \subseteq Span(c[1]) /\ Higher(c[1]) \subseteq Span(c[1])
      /\ Lower(c[1]) \cap Higher(c[1]) = {}
  BY <1>1, CallFacts, SpanFacts
<1>3. \A m \in 1..Len(d) : m \in {1, 2, 3} \/ (m \in 4..Len(d) /\ d[m] = c[m - 2] /\ m - 2 \in 2..Len(c))
  BY <1>1
<1>4. ASSUME NEW m \in 1..Len(d), NEW n \in 1..Len(d), m < n
      PROVE  \/ Span(d[m]) \cap Span(d[n]) = {}
             \/ /\ d[n].op = "merge"
                /\ Span(d[m]) \subseteq Lower(d[n]) \/ Span(d[m]) \subseteq Higher(d[n])
  <2>1. CASE n \in {1, 2, 3}
    <3>1. (m = 1 /\ n = 2) \/ (m \in {1, 2} /\ n = 3)
      BY <1>1, <1>4, <2>1
    <3> QED
      BY <1>2, <3>1
  <2>2. CASE d[n] = c[n - 2] /\ n - 2 \in 2..Len(c)
    <3>1. CASE m \in {1, 2, 3}
      <4>1. Span(d[m]) \subseteq Span(c[1])
        BY <1>2, <3>1
      <4>2. \/ Span(c[1]) \cap Span(c[n - 2]) = {}
            \/ /\ c[n - 2].op = "merge"
               /\ Span(c[1]) \subseteq Lower(c[n - 2]) \/ Span(c[1]) \subseteq Higher(c[n - 2])
        <5>1. 1 < n - 2 /\ n - 2 \in 1..Len(c)
          BY <1>1, <2>2
        <5> QED
          BY <1>1, <5>1 DEF Nested
      <4> QED
        BY <2>2, <4>1, <4>2
    <3>2. CASE d[m] = c[m - 2] /\ m - 2 \in 2..Len(c)
      <4>1. m - 2 < n - 2 /\ m - 2 \in 1..Len(c) /\ n - 2 \in 1..Len(c)
        BY <1>1, <1>4, <2>2, <3>2
      <4> QED
        BY <2>2, <3>2, <4>1 DEF Nested
    <3> QED
      BY <1>3, <3>1, <3>2
  <2> QED
    BY <1>3, <2>1, <2>2
<1>5. ASSUME NEW array, Halves(array, c), Whole(array, c)
      PROVE  Halves(array, d) /\ Whole(array, d)
  <2>1. Span(d[1]) \subseteq Span(c[1]) /\ Span(d[2]) \subseteq Span(c[1])
    BY <1>2
  <2>2. ASSUME NEW n \in 1..Len(d), d[n].op = "merge", NEW s \in {Lower(d[n]), Higher(d[n])}
        PROVE  Settled(array, d, s, n) \/ Pending(d, s, n)
    <3>1. CASE n = 3
      <4>1. 1 \in 1..3 - 1 /\ 2 \in 1..3 - 1
        OBVIOUS
      <4>2. Pending(d, s, 3)
        BY <2>2, <3>1, <4>1 DEF Pending
      <4> QED
        BY <3>1, <4>2
    <3>2. CASE d[n] = c[n - 2] /\ n - 2 \in 2..Len(c)
      <4>1. n - 2 \in 1..Len(c) /\ n - 2 \in 2..Len(c) + 1 /\ (n - 2) + 2 = n
        BY <1>1, <3>2
      <4>2. Settled(array, c, s, n - 2) \/ Pending(c, s, n - 2)
        BY <1>5, <2>2, <3>2, <4>1 DEF Halves
      <4>3. Settled(array, d, s, (n - 2) + 2) \/ Pending(d, s, (n - 2) + 2)
        BY <2>1, <4>1, <4>2, Deferred
      <4> QED
        BY <4>1, <4>3
    <3> QED
      BY <1>3, <2>2, <3>1, <3>2
  <2>3. Settled(array, d, Place, Len(d) + 1) \/ Pending(d, Place, Len(d) + 1)
    <3>1. Len(c) + 1 \in 2..Len(c) + 1 /\ (Len(c) + 1) + 2 = Len(d) + 1
      BY <1>1
    <3>2. Settled(array, c, Place, Len(c) + 1) \/ Pending(c, Place, Len(c) + 1)
      BY <1>5 DEF Whole
    <3>3. Settled(array, d, Place, (Len(c) + 1) + 2) \/ Pending(d, Place, (Len(c) + 1) + 2)
      BY <2>1, <3>1, <3>2, Deferred
    <3> QED
      BY <3>1, <3>3
  <2> QED
    BY <2>2, <2>3 DEF Halves, Whole
<1> QED
  BY <1>4, <1>5 DEF Nested

(* A piece compares to a goal of more than one note.                        *)
Comparable ==
  \A g \in Goals : Len(g) > 1 => \A t \in [1..Len(g) -> Note] : Similarity(g, t) \in Nat

LEMMA KnownNumbers ==
  ASSUME Comparable, RankInv, Len(ggoal) > 1, NEW k \in Place, Known(k)
  PROVE  sim[k] \in Nat
<1>1. sim[k] = Similarity(ggoal, Notes(k)) /\ Notes(k) \in [1..Len(ggoal) -> Note]
  BY NotesType DEF RankInv, IInv, SimKept
<1> QED
  BY <1>1 DEF Comparable, RankInv, IInv, TypeOK

(* The calls are well formed, the halves of the first are in order.         *)
LEMMA CallsFacts ==
  ASSUME RankInv
  PROVE  WellFormed(calls)
BY DEF RankInv, IInv, TypeOK, InRange, WellFormed

LEMMA HeadHalves ==
  ASSUME NEW c, WellFormed(c), c # <<>>, Head(c).op = "merge", NEW array, Halves(array, c)
  PROVE  Ordered(array, Lower(Head(c))) /\ Ordered(array, Higher(Head(c)))
<1>1. 1 \in 1..Len(c) /\ Head(c) = c[1] /\ 1..1 - 1 = {}
  BY EmptySeq, LenProperties, HeadTailProperties DEF WellFormed
<1> QED
  BY <1>1 DEF Halves, Settled, Pending

LEMMA InitRank == Init => RankInv
<1> SUFFICES ASSUME Init PROVE RankInv
  OBVIOUS
<1>1. IInv
  BY InitInv
<1>2. phase = "change" /\ j = 0 /\ calls = <<>>
  BY DEF Init
<1>3. SimKept
  BY <1>2, PoolFacts DEF SimKept, Known
<1>4. Nested(calls) /\ Idle /\ Kept /\ OrderInv
  BY <1>2 DEF Nested, Idle, Kept, OrderInv
<1> QED
  BY <1>1, <1>3, <1>4 DEF RankInv

LEMMA RecombineRank == RankInv /\ Recombine => RankInv'
<1> SUFFICES ASSUME RankInv, Recombine PROVE RankInv'
  OBVIOUS
<1>1. IInv'
  BY RecombineStep DEF RankInv
<1>2. /\ calls' = calls /\ calls = <<>> /\ j \in Nat
      /\ \/ phase' = "change" /\ j' = 0
         \/ phase' = "recombine" /\ j' = j + 2
  BY PoolFacts DEF Recombine, sortVars, RankInv, Idle, IInv, TypeOK
<1>3. SimKept'
  BY <1>2, PoolFacts DEF SimKept, Known
<1>4. Nested(calls') /\ Idle' /\ Kept' /\ OrderInv'
  BY <1>2 DEF Nested, Idle, Kept, OrderInv
<1> QED
  BY <1>1, <1>3, <1>4 DEF RankInv

(* The change of the piece in one place leaves the others.                  *)
LEMMA ChangeNoteRank == RankInv /\ ChangeNote => RankInv'
<1> SUFFICES ASSUME RankInv, ChangeNote PROVE RankInv'
  OBVIOUS
<1>1. IInv /\ IInv' /\ phase = "change" /\ calls = <<>> /\ j \in Place
  BY ChangeNoteStep DEF RankInv, ChangeNote, Idle, IInv, TypeOK
<1>2. PICK draw \in Draws[j] :
        LET notes == Changed(Notes(j), draw)
        IN /\ heap' = [heap EXCEPT ![genetic_pool[j].notes] = notes]
           /\ IF changed + 1 < NUM_CHANGE(Len(ggoal))
              THEN /\ changed' = changed + 1
                   /\ UNCHANGED <<phase, sim, j, calls>>
              ELSE /\ changed' = 0
                   /\ sim' = [sim EXCEPT ![j] = Similarity(ggoal, notes)]
                   /\ IF j < Top
                      THEN j' = j + 1 /\ UNCHANGED <<phase, calls>>
                      ELSE /\ j' = 0 /\ phase' = "sort"
                           /\ calls' = <<[op |-> "sort", fst |-> 0, end |-> Top]>>
  BY DEF ChangeNote, Compared
<1> DEFINE notes == Changed(Notes(j), draw)
<1>3. UNCHANGED <<ggoal, genetic_pool>>
  BY DEF ChangeNote, pieceVars
<1>4. heap' = [heap EXCEPT ![genetic_pool[j].notes] = notes]
  BY <1>2
<1> DEFINE now(k) == heap'[genetic_pool'[k].notes]
<1>5. /\ \A k \in Place : k # j => now(k) = Notes(k)
      /\ now(j) = notes
  <2>1. \A k \in Place : k # j => genetic_pool[k].notes # genetic_pool[j].notes
    BY <1>1 DEF IInv, OwnArrays
  <2>2. /\ DOMAIN heap = Place
        /\ \A k \in Place : genetic_pool[k].notes \in Place
    BY <1>1 DEF IInv, TypeOK
  <2> HIDE DEF notes
  <2>3. now(j) = notes
    BY <1>1, <1>3, <1>4, <2>2
  <2>4. \A k \in Place : k # j => now(k) = Notes(k)
    BY <1>3, <1>4, <2>1, <2>2 DEF Notes
  <2> QED
    BY <2>3, <2>4
<1>6. \A k \in Place : k < j => sim[k] = Similarity(ggoal, Notes(k))
  BY <1>1 DEF RankInv, SimKept, Known
<1> HIDE DEF notes
<1>7. CASE UNCHANGED <<phase, sim, j, calls>>
  <2>1. SimKept'
    BY <1>1, <1>3, <1>5, <1>6, <1>7, PoolFacts DEF SimKept, Known, Notes
  <2>2. Nested(calls') /\ Idle' /\ Kept' /\ OrderInv'
    BY <1>1, <1>7 DEF Nested, Idle, Kept, OrderInv
  <2> QED
    BY <1>1, <2>1, <2>2 DEF RankInv
<1>8. ASSUME sim' = [sim EXCEPT ![j] = Similarity(ggoal, notes)]
      PROVE  \A k \in Place : k <= j => sim'[k] = Similarity(ggoal, now(k))
  <2> SUFFICES ASSUME NEW k \in Place, k <= j PROVE sim'[k] = Similarity(ggoal, now(k))
    OBVIOUS
  <2>1. DOMAIN sim = Place
    BY <1>1 DEF IInv, TypeOK
  <2> HIDE DEF now
  <2>2. CASE k = j
    BY <1>1, <1>5, <1>8, <2>1, <2>2
  <2>3. CASE k # j
    <3>1. k < j
      BY <1>1, <2>3, PoolFacts
    <3> QED
      BY <1>1, <1>5, <1>6, <1>8, <2>1, <2>3, <3>1
  <2> QED
    BY <2>2, <2>3
<1>9. CASE /\ sim' = [sim EXCEPT ![j] = Similarity(ggoal, notes)]
           /\ j' = j + 1 /\ UNCHANGED <<phase, calls>>
  <2>1. \A k \in Place : k < j + 1 => k <= j
    BY <1>1, PoolFacts
  <2>2. SimKept'
    BY <1>1, <1>3, <1>8, <1>9, <2>1 DEF SimKept, Known, Notes
  <2>3. Nested(calls') /\ Idle' /\ Kept' /\ OrderInv'
    BY <1>1, <1>9 DEF Nested, Idle, Kept, OrderInv
  <2> QED
    BY <1>1, <2>2, <2>3 DEF RankInv
<1>10. CASE /\ sim' = [sim EXCEPT ![j] = Similarity(ggoal, notes)] /\ ~(j < Top)
            /\ j' = 0 /\ phase' = "sort"
            /\ calls' = <<[op |-> "sort", fst |-> 0, end |-> Top]>>
  <2>1. \A k \in Place : k <= j
    BY <1>1, <1>10, PoolFacts DEF Place, Top
  <2>2. SimKept'
    BY <1>3, <1>8, <1>10, <2>1 DEF SimKept, Known, Notes
  <2>3. Nested(calls') /\ Idle' /\ Kept'
    BY <1>10 DEF Nested, Idle, Kept
  <2>4. Halves(sim', calls')
    BY <1>10 DEF Halves
  <2>5. Whole(sim', calls')
    <3>1. Len(calls') = 1 /\ calls'[1].fst = 0 /\ calls'[1].end = Top
      BY <1>10
    <3>2. Span(calls'[1]) = Place /\ 1 \in 1..(Len(calls') + 1) - 1
      BY <3>1 DEF Span, Place, Top
    <3> QED
      BY <3>2 DEF Whole, Pending
  <2> QED
    BY <1>1, <1>10, <2>2, <2>3, <2>4, <2>5 DEF RankInv, OrderInv
<1> QED
  BY <1>2, <1>7, <1>9, <1>10 DEF notes

(* A range of one piece is in order; a longer one waits for its halves.     *)
LEMMA MergesortRank == Comparable /\ RankInv /\ MergesortPool => RankInv'
<1> SUFFICES ASSUME Comparable, RankInv, MergesortPool PROVE RankInv'
  OBVIOUS
<1> DEFINE call == Head(calls)
           q    == Mid(call)
           a    == [call EXCEPT !.end = q]
           b    == [call EXCEPT !.fst = q + 1]
           d    == [call EXCEPT !.op = "merge"]
<1>1. /\ IInv /\ IInv' /\ phase = "sort" /\ phase' = "sort" /\ calls # <<>> /\ call.op = "sort"
      /\ UNCHANGED <<ggoal, genetic_pool, heap, sim, j>>
  BY MergesortStep DEF RankInv, MergesortPool, pieceVars
<1>2. WellFormed(calls) /\ WellFormed(calls') /\ Nested(calls)
  BY <1>1 DEF RankInv, IInv, TypeOK, InRange, WellFormed
<1>3. /\ call = calls[1] /\ Len(calls) \in Nat \ {0} /\ Tail(calls) \in Seq(Call)
      /\ Len(Tail(calls)) = Len(calls) - 1
      /\ \A m \in 1..Len(Tail(calls)) : Tail(calls)[m] = calls[m + 1]
  BY <1>1, <1>2, HeadTailProperties, EmptySeq, LenProperties DEF WellFormed
<1>4. call \in Call /\ call.fst <= call.end
  BY <1>2, <1>3, CallFacts
<1>5. /\ Nested(calls')
      /\ Len(ggoal) > 1 => Halves(sim, calls') /\ Whole(sim, calls')
  <2>1. Len(ggoal) > 1 => Halves(sim, calls) /\ Whole(sim, calls)
    BY <1>1 DEF RankInv, OrderInv
  <2>2. CASE call.fst < call.end
    <3>1. calls' = <<a, b, d>> \o Tail(calls)
      BY <2>2 DEF MergesortPool
    <3>2. /\ a.fst = call.fst /\ a.end = q /\ a.op = "sort"
          /\ b.fst = q + 1 /\ b.end = call.end /\ b.op = "sort"
          /\ d.fst = call.fst /\ d.end = call.end /\ d.op = "merge"
      BY <1>1, <1>4 DEF Call
    <3> DEFINE first == <<a, b, d>>
    <3>3. Len(first) = 3 /\ first[1] = a /\ first[2] = b /\ first[3] = d /\ first \in Seq({a, b, d})
      OBVIOUS
    <3> HIDE DEF a, b, d, first
    <3>4. /\ Len(calls') = Len(calls) + 2
          /\ calls'[1] = a /\ calls'[2] = b /\ calls'[3] = d
          /\ \A m \in 4..Len(calls') : calls'[m] = calls[m - 2]
      <4>1. calls' = first \o Tail(calls)
        BY <3>1 DEF first
      <4>2. first \in Seq({a, b, d} \union Call) /\ Tail(calls) \in Seq({a, b, d} \union Call)
        BY <1>3, <3>3
      <4>3. /\ Len(calls') = 3 + Len(Tail(calls))
            /\ \A m \in 1..3 + Len(Tail(calls)) :
                 calls'[m] = IF m <= 3 THEN first[m] ELSE Tail(calls)[m - 3]
        <5> DEFINE rest == Tail(calls)
        <5> HIDE DEF rest
        <5>1. /\ Len(first \o rest) = Len(first) + Len(rest)
              /\ \A m \in 1..Len(first) + Len(rest) :
                   (first \o rest)[m] = IF m <= Len(first) THEN first[m] ELSE rest[m - Len(first)]
          BY <4>2, ConcatProperties DEF rest
        <5> QED
          BY <3>3, <4>1, <5>1 DEF rest
      <4>4. Len(calls') = Len(calls) + 2
        BY <1>3, <4>3
      <4>5. calls'[1] = a /\ calls'[2] = b /\ calls'[3] = d
        BY <1>3, <3>3, <4>3
      <4>6. ASSUME NEW m \in 4..Len(calls')
            PROVE  calls'[m] = calls[m - 2]
        <5>1. /\ m \in 1..3 + Len(Tail(calls)) /\ ~(m <= 3)
              /\ m - 3 \in 1..Len(Tail(calls)) /\ (m - 3) + 1 = m - 2
          BY <1>3, <4>4
        <5> QED
          BY <1>3, <4>3, <5>1
      <4> QED
        BY <4>4, <4>5, <4>6
    <3>5. /\ Span(calls'[1]) = Lower(calls[1]) /\ Span(calls'[2]) = Higher(calls[1])
          /\ Span(calls'[3]) = Span(calls[1])
          /\ Lower(calls'[3]) = Lower(calls[1]) /\ Higher(calls'[3]) = Higher(calls[1])
      BY <1>3, <3>2, <3>4 DEF Span, Lower, Higher, Mid
    <3>6. calls'[1].op = "sort" /\ calls'[2].op = "sort" /\ calls'[3].op = "merge"
      BY <3>2, <3>4
    <3>7. calls[1].fst < calls[1].end
      BY <1>3, <2>2
    <3>8. /\ Nested(calls')
          /\ \A array : Halves(array, calls) /\ Whole(array, calls)
                          => Halves(array, calls') /\ Whole(array, calls')
      BY <1>1, <1>2, <3>4, <3>5, <3>6, <3>7, FirstDivides
    <3> QED
      BY <2>1, <3>8
  <2>3. CASE ~(call.fst < call.end)
    <3>1. calls' = Tail(calls)
      <4>1. calls' = <<>> \o Tail(calls)
        BY <2>3 DEF MergesortPool
      <4> QED
        BY <1>3, <4>1
    <3>2. Len(ggoal) > 1 => Ordered(sim, Span(call))
      <4> SUFFICES ASSUME Len(ggoal) > 1 PROVE Ordered(sim, Span(call))
        OBVIOUS
      <4>1. call.fst \in Nat /\ call.end = call.fst /\ call.fst \in Place /\ Span(call) = {call.fst}
        <5> DEFINE f == call.fst
                   e == call.end
        <5>1. f \in Nat /\ e \in Nat /\ f \in Place /\ f <= e /\ ~(f < e) /\ Span(call) = f..e
          BY <1>4, <2>3, SpanFacts DEF Span, Call
        <5> HIDE DEF f, e
        <5>2. e = f /\ f..f = {f}
          BY <5>1
        <5> QED
          BY <5>1, <5>2 DEF f, e
      <4>2. sim[call.fst] \in Nat
        BY <1>1, <4>1, KnownNumbers DEF Known
      <4> QED
        BY <4>1, <4>2 DEF Ordered
    <3>3. Nested(calls')
      BY <1>1, <1>2, <3>1, NestedTail
    <3>4. Len(ggoal) > 1 => Halves(sim, calls') /\ Whole(sim, calls')
      BY <1>1, <1>2, <2>1, <3>1, <3>2, FirstReturns
    <3> QED
      BY <3>3, <3>4
  <2> QED
    BY <2>2, <2>3
<1>6. SimKept'
  BY <1>1 DEF RankInv, SimKept, Known, Notes
<1>7. Idle' /\ Kept'
  BY <1>1 DEF Idle, Kept
<1>8. Len(ggoal) > 1 => OrderInv'
  BY <1>1, <1>5 DEF OrderInv
<1> QED
  BY <1>1, <1>5, <1>6, <1>7, <1>8 DEF RankInv

LEMMA BeginMergeRank == RankInv /\ BeginMerge => RankInv'
<1> SUFFICES ASSUME RankInv, BeginMerge PROVE RankInv'
  OBVIOUS
<1>1. /\ IInv' /\ phase = "sort" /\ phase' = "merge" /\ sandbox' = <<>>
      /\ UNCHANGED <<ggoal, genetic_pool, heap, sim, j, calls>>
  BY BeginMergeStep DEF RankInv, BeginMerge, pieceVars
<1>2. Drawn'
  BY <1>1 DEF Drawn
<1>3. SimKept' /\ Idle' /\ Kept'
  BY <1>1 DEF RankInv, SimKept, Known, Notes, Idle, Kept
<1>4. Len(ggoal) > 1 => OrderInv'
  BY <1>1, <1>2 DEF RankInv, OrderInv
<1> QED
  BY <1>1, <1>3, <1>4 DEF RankInv

(* What is taken next is not more than what is left, and not less than what *)
(* was taken.                                                               *)
LEMMA TakeRank ==
  ASSUME RankInv, IInv', phase = "merge", NEW at \in Remaining,
         sandbox' = Append(sandbox, at),
         Remaining' \subseteq Remaining,
         Len(ggoal) > 1 => sim[at] \in Nat /\ \A k \in Remaining' : sim[at] <= sim[k],
         UNCHANGED <<phase, pieceVars, genetic_pool, heap, sim, j, calls>>
  PROVE  RankInv'
<1>1. SimKept' /\ Idle' /\ Kept'
  BY DEF RankInv, SimKept, Known, Notes, Idle, Kept, pieceVars
<1>2. ASSUME Len(ggoal) > 1
      PROVE  Drawn'
  <2>1. Drawn /\ sim[at] \in Nat /\ \A k \in Remaining' : sim[at] <= sim[k]
    BY <1>2 DEF RankInv, OrderInv
  <2>2. /\ Len(sandbox) \in Nat /\ Len(sandbox') = Len(sandbox) + 1
        /\ \A n \in 1..Len(sandbox) : sandbox'[n] = sandbox[n]
        /\ sandbox'[Len(sandbox) + 1] = at
    BY AppendProperties, LenProperties DEF RankInv, IInv, TypeOK
  <2>3. \A n \in 1..Len(sandbox') : n \in 1..Len(sandbox) \/ n = Len(sandbox) + 1
    BY <2>2
  <2>4. ASSUME NEW m \in 1..Len(sandbox'), NEW n \in 1..Len(sandbox'), m <= n
        PROVE  sim'[sandbox'[m]] <= sim'[sandbox'[n]]
    <3>1. CASE n \in 1..Len(sandbox)
      <4>1. m \in 1..Len(sandbox)
        BY <2>2, <2>4, <3>1
      <4> QED
        BY <2>1, <2>2, <2>4, <3>1, <4>1 DEF Drawn
    <3>2. CASE n = Len(sandbox) + 1 /\ m \in 1..Len(sandbox)
      BY <2>1, <2>2, <3>2 DEF Drawn
    <3>3. CASE n = Len(sandbox) + 1 /\ m = Len(sandbox) + 1
      BY <2>1, <2>2, <3>3
    <3> QED
      BY <2>3, <3>1, <3>2, <3>3
  <2>5. ASSUME NEW m \in 1..Len(sandbox'), NEW k \in Remaining'
        PROVE  sim'[sandbox'[m]] <= sim'[k]
    <3>1. CASE m \in 1..Len(sandbox)
      BY <2>1, <2>2, <2>5, <3>1 DEF Drawn
    <3>2. CASE m = Len(sandbox) + 1
      BY <2>1, <2>2, <2>5, <3>2
    <3> QED
      BY <2>3, <3>1, <3>2
  <2> QED
    BY <2>4, <2>5 DEF Drawn
<1>3. Len(ggoal) > 1 => OrderInv'
  BY <1>2 DEF RankInv, OrderInv
<1> QED
  BY <1>1, <1>3 DEF RankInv, pieceVars

LEMMA TakeLowRank == Comparable /\ RankInv /\ TakeLow => RankInv'
<1> SUFFICES ASSUME Comparable, RankInv, TakeLow PROVE RankInv'
  OBVIOUS
<1> DEFINE f == Head(calls).fst
           q == Mid(Head(calls))
           e == Head(calls).end
<1>1. /\ phase = "merge" /\ lw <= q /\ (hh <= e => NotMore(sim[lw], sim[hh]))
      /\ sandbox' = Append(sandbox, lw) /\ lw' = lw + 1 /\ hh' = hh
      /\ UNCHANGED <<phase, pieceVars, i, genetic_pool, heap, sim, j, changed, calls, hh>>
  BY DEF TakeLow, LowLeft, HighLeft
<1>2. IInv /\ IInv' /\ WellFormed(calls)
  BY TakeLowStep, CallsFacts DEF RankInv
<1>3. calls # <<>> /\ Head(calls).op = "merge" /\ lw \in f..q + 1 /\ hh \in q + 1..e + 1
  BY <1>1, <1>2 DEF IInv, Merging
<1>4. f \in Nat /\ e \in Place /\ e \in Nat /\ q \in f..e
  BY <1>2, <1>3, HeadFacts DEF IInv, Call
<1>5. Remaining = lw..q \union hh..e /\ Remaining' = lw + 1..q \union hh..e
  BY <1>1 DEF Remaining, Mid
<1>6. Lower(Head(calls)) = f..q /\ Higher(Head(calls)) = q + 1..e
  BY DEF Lower, Higher
<1>7. Len(ggoal) > 1 => Halves(sim, calls)
  BY <1>1 DEF RankInv, OrderInv
<1>8. Len(ggoal) > 1 => Ordered(sim, f..q) /\ Ordered(sim, q + 1..e)
  BY <1>2, <1>3, <1>6, <1>7, HeadHalves
<1> HIDE DEF f, q, e
<1>9. /\ lw \in f..q /\ lw \in Remaining /\ lw \in Nat /\ lw..q \subseteq f..q /\ hh..e \subseteq q + 1..e
      /\ f..q \subseteq Place /\ q + 1..e \subseteq Place
      /\ Remaining' \subseteq Remaining
  BY <1>1, <1>3, <1>4, <1>5, PoolFacts DEF Place
<1>10. Len(ggoal) > 1 => \A k \in Place : sim[k] \in Nat
  BY <1>1, KnownNumbers DEF Known
<1>11. ASSUME Len(ggoal) > 1, NEW k \in Remaining'
       PROVE  sim[lw] <= sim[k]
  <2>1. CASE k \in lw + 1..q
    <3>1. lw <= k /\ k \in f..q
      BY <1>3, <1>4, <1>9, <2>1
    <3> QED
      BY <1>8, <1>9, <1>11, <3>1 DEF Ordered
  <2>2. CASE k \in hh..e
    <3>1. hh <= e /\ hh \in q + 1..e /\ k \in q + 1..e /\ hh <= k
      BY <1>3, <1>4, <2>2
    <3>2. sim[lw] <= sim[hh] /\ sim[hh] <= sim[k]
      BY <1>1, <1>8, <1>11, <3>1 DEF Ordered, NotMore, e
    <3>3. sim[lw] \in Nat /\ sim[hh] \in Nat /\ sim[k] \in Nat
      BY <1>9, <1>10, <1>11, <3>1
    <3> QED
      BY <3>2, <3>3
  <2> QED
    BY <1>5, <1>11, <2>1, <2>2
<1>12. Len(ggoal) > 1 => sim[lw] \in Nat
  BY <1>9, <1>10
<1> QED
  BY <1>1, <1>2, <1>9, <1>11, <1>12, TakeRank

LEMMA TakeHighRank == Comparable /\ RankInv /\ TakeHigh => RankInv'
<1> SUFFICES ASSUME Comparable, RankInv, TakeHigh PROVE RankInv'
  OBVIOUS
<1> DEFINE f == Head(calls).fst
           q == Mid(Head(calls))
           e == Head(calls).end
<1>1. /\ phase = "merge" /\ hh <= e /\ (lw <= q => ~NotMore(sim[lw], sim[hh]))
      /\ sandbox' = Append(sandbox, hh) /\ hh' = hh + 1 /\ lw' = lw
      /\ UNCHANGED <<phase, pieceVars, i, genetic_pool, heap, sim, j, changed, calls, lw>>
  BY DEF TakeHigh, LowLeft, HighLeft
<1>2. IInv /\ IInv' /\ WellFormed(calls)
  BY TakeHighStep, CallsFacts DEF RankInv
<1>3. calls # <<>> /\ Head(calls).op = "merge" /\ lw \in f..q + 1 /\ hh \in q + 1..e + 1
  BY <1>1, <1>2 DEF IInv, Merging
<1>4. f \in Nat /\ e \in Place /\ e \in Nat /\ q \in f..e
  BY <1>2, <1>3, HeadFacts DEF IInv, Call
<1>5. Remaining = lw..q \union hh..e /\ Remaining' = lw..q \union hh + 1..e
  BY <1>1 DEF Remaining, Mid
<1>6. Lower(Head(calls)) = f..q /\ Higher(Head(calls)) = q + 1..e
  BY DEF Lower, Higher
<1>7. Len(ggoal) > 1 => Halves(sim, calls)
  BY <1>1 DEF RankInv, OrderInv
<1>8. Len(ggoal) > 1 => Ordered(sim, f..q) /\ Ordered(sim, q + 1..e)
  BY <1>2, <1>3, <1>6, <1>7, HeadHalves
<1> HIDE DEF f, q, e
<1>9. /\ hh \in q + 1..e /\ hh \in Remaining /\ hh \in Nat /\ lw..q \subseteq f..q
      /\ hh + 1..e \subseteq q + 1..e
      /\ f..q \subseteq Place /\ q + 1..e \subseteq Place
      /\ Remaining' \subseteq Remaining
  BY <1>1, <1>3, <1>4, <1>5, PoolFacts DEF Place, e
<1>10. Len(ggoal) > 1 => \A k \in Place : sim[k] \in Nat
  BY <1>1, KnownNumbers DEF Known
<1>11. ASSUME Len(ggoal) > 1, NEW k \in Remaining'
       PROVE  sim[hh] <= sim[k]
  <2>1. CASE k \in hh + 1..e
    <3>1. hh <= k /\ k \in q + 1..e
      BY <1>3, <1>4, <1>9, <2>1
    <3> QED
      BY <1>8, <1>9, <1>11, <3>1 DEF Ordered
  <2>2. CASE k \in lw..q
    <3>1. lw <= q /\ lw \in f..q /\ k \in f..q /\ lw <= k
      BY <1>3, <1>4, <2>2
    <3>2. sim[lw] \in Nat /\ sim[hh] \in Nat /\ sim[k] \in Nat
      BY <1>9, <1>10, <1>11, <3>1
    <3>3. ~NotMore(sim[lw], sim[hh]) /\ sim[lw] <= sim[k]
      BY <1>1, <1>8, <1>11, <3>1 DEF Ordered, q
    <3>4. sim[hh] <= sim[lw]
      BY <3>2, <3>3 DEF NotMore, NaN
    <3> QED
      BY <3>2, <3>3, <3>4
  <2> QED
    BY <1>5, <1>11, <2>1, <2>2
<1>12. Len(ggoal) > 1 => sim[hh] \in Nat
  BY <1>9, <1>10
<1> QED
  BY <1>1, <1>2, <1>9, <1>11, <1>12, TakeRank

(* What is written back are the places taken, in the order they were taken. *)
LEMMA WriteBackRank == RankInv /\ WriteBack => RankInv'
<1> SUFFICES ASSUME RankInv, WriteBack PROVE RankInv'
  OBVIOUS
<1> DEFINE f == Head(calls).fst
           q == Mid(Head(calls))
           e == Head(calls).end
           from(k) == IF k \in f..e THEN sandbox[k - f + 1] ELSE k
<1>1. /\ phase = "merge" /\ ~(lw <= q) /\ ~(hh <= e)
      /\ genetic_pool' = Merged(genetic_pool) /\ sim' = Merged(sim)
      /\ calls' = Tail(calls) /\ phase' = "sort"
      /\ UNCHANGED <<ggoal, heap, j>>
  BY DEF WriteBack, LowLeft, HighLeft, pieceVars
<1>2. /\ IInv /\ IInv' /\ WellFormed(calls) /\ Nested(calls)
  BY WriteBackStep, CallsFacts DEF RankInv
<1>3. /\ calls # <<>> /\ lw \in f..q + 1 /\ hh \in q + 1..e + 1
      /\ lw + hh = f + q + 1 + Len(sandbox)
      /\ \A n \in 1..Len(sandbox) : sandbox[n] \in Taken
  BY <1>1, <1>2 DEF IInv, Merging
<1>4. f \in Nat /\ e \in Place /\ e \in Nat /\ q \in f..e
  BY <1>2, <1>3, HeadFacts DEF IInv, Call
<1>5. /\ Taken = f..lw - 1 \union q + 1..hh - 1 /\ Span(Head(calls)) = f..e
      /\ Len(sandbox) \in Nat
  BY <1>2, LenProperties DEF Taken, Upper, Span, IInv, TypeOK
<1>6. \A array : Merged(array) = [k \in Place |-> array[from(k)]]
  BY DEF Merged
<1> HIDE DEF f, q, e
<1>7. lw = q + 1 /\ hh = e + 1 /\ Len(sandbox) = e - f + 1 /\ Taken = f..e
  <2>1. lw = q + 1 /\ hh = e + 1
    BY <1>1, <1>3, <1>4
  <2> QED
    BY <1>3, <1>4, <1>5, <2>1
<1>8. /\ f..e \subseteq Place
      /\ \A k \in f..e : k - f + 1 \in 1..Len(sandbox) /\ sandbox[k - f + 1] \in f..e
  BY <1>3, <1>4, <1>7, PoolFacts DEF Place
<1>9. \A k \in Place : from(k) \in Place
  <2>1. \A k \in f..e : from(k) \in Place
    BY <1>8
  <2> QED
    BY <2>1
<1>10. \A k \in Place : sim'[k] = sim[from(k)] /\ genetic_pool'[k] = genetic_pool[from(k)]
  BY <1>1, <1>6
<1>11. SimKept'
  <2>1. \A k \in Place : sim[k] = Similarity(ggoal, Notes(k))
    BY <1>1 DEF RankInv, SimKept, Known
  <2> HIDE DEF from
  <2>2. \A k \in Place : sim'[k] = Similarity(ggoal, heap[genetic_pool'[k].notes])
    BY <1>9, <1>10, <2>1 DEF Notes
  <2> QED
    BY <1>1, <2>2 DEF SimKept, Known, Notes
<1>12. ASSUME Len(ggoal) > 1
       PROVE  Halves(sim', calls') /\ Whole(sim', calls')
  <2>1. Halves(sim, calls) /\ Whole(sim, calls) /\ Drawn
    BY <1>1, <1>12 DEF RankInv, OrderInv
  <2>2. Ordered(sim', Span(Head(calls)))
    <3> SUFFICES ASSUME NEW k \in f..e, NEW l \in f..e, k <= l
                 PROVE  sim'[k] <= sim'[l]
      BY <1>5 DEF Ordered
    <3>1. /\ k - f + 1 \in 1..Len(sandbox) /\ l - f + 1 \in 1..Len(sandbox)
          /\ k - f + 1 <= l - f + 1
      BY <1>4, <1>8
    <3>2. sim[sandbox[k - f + 1]] <= sim[sandbox[l - f + 1]]
      BY <2>1, <3>1 DEF Drawn
    <3>3. sim'[k] = sim[sandbox[k - f + 1]] /\ sim'[l] = sim[sandbox[l - f + 1]]
      BY <1>8, <1>10
    <3> QED
      BY <3>2, <3>3
  <2>3. \A k \in Place \ Span(Head(calls)) : sim'[k] = sim[k]
    BY <1>5, <1>10
  <2> QED
    BY <1>1, <1>2, <1>3, <2>1, <2>2, <2>3, FirstReturns
<1>13. Nested(calls')
  BY <1>1, <1>2, <1>3, NestedTail
<1>14. Idle' /\ Kept'
  BY <1>1 DEF Idle, Kept
<1>15. Len(ggoal) > 1 => OrderInv'
  BY <1>1, <1>12 DEF OrderInv
<1> QED
  BY <1>1, <1>2, <1>11, <1>13, <1>14, <1>15 DEF RankInv

LEMMA EndOfRoundRank == RankInv /\ EndOfRound => RankInv'
<1> SUFFICES ASSUME RankInv, EndOfRound PROVE RankInv'
  OBVIOUS
<1>1. /\ IInv /\ IInv' /\ phase = "sort" /\ calls = <<>> /\ phase' \in {"recombine", "done"}
      /\ UNCHANGED <<ggoal, genetic_pool, heap, sim, j, calls>>
      /\ phase' = "done" => ginitial' = Notes(Top)
  BY EndOfRoundStep DEF EndOfRound, RankInv, sortVars
<1>2. j = 0 /\ j' = 0
  BY <1>1 DEF IInv, Staged
<1>3. SimKept' /\ Idle' /\ Kept'
  BY <1>1, <1>2 DEF RankInv, SimKept, Known, Idle, Kept, Notes
<1>4. ASSUME Len(ggoal) > 1
      PROVE  OrderInv'
  <2>1. Whole(sim, calls) /\ Len(calls) = 0
    BY <1>1, <1>4 DEF RankInv, OrderInv
  <2>2. Ordered(sim, Place)
    BY <2>1 DEF Whole, Settled, Pending
  <2> QED
    BY <1>1, <2>2 DEF OrderInv
<1> QED
  BY <1>1, <1>3, <1>4 DEF RankInv

LEMMA NextRank == Comparable /\ RankInv /\ [Next]_vars => RankInv'
<1> SUFFICES ASSUME Comparable, RankInv, [Next]_vars PROVE RankInv'
  OBVIOUS
<1>1. CASE Recombine
  BY <1>1, RecombineRank
<1>2. CASE ChangeNote
  BY <1>2, ChangeNoteRank
<1>3. CASE MergesortPool
  BY <1>3, MergesortRank
<1>4. CASE BeginMerge
  BY <1>4, BeginMergeRank
<1>5. CASE TakeLow
  BY <1>5, TakeLowRank
<1>6. CASE TakeHigh
  BY <1>6, TakeHighRank
<1>7. CASE WriteBack
  BY <1>7, WriteBackRank
<1>8. CASE EndOfRound
  BY <1>8, EndOfRoundRank
<1>9. CASE UNCHANGED vars
  <2>1. IInv'
    BY <1>9, NextStep DEF RankInv
  <2> QED
    BY <1>9, <2>1 DEF vars, pieceVars, sortVars, RankInv, OrderInv, Idle, SimKept, Known, Notes, Kept,
                     Drawn, Remaining, Mid
<1> QED
  BY <1>1, <1>2, <1>3, <1>4, <1>5, <1>6, <1>7, <1>8, <1>9 DEF Next, MergePool, Ended

(* Before every recombination, and in the end, the pool is in the order of  *)
(* the similarities, which are those of its pieces (mergesort_pool and      *)
(* merge_pool, whatever compute_similarity returns as long as it is a       *)
(* number).                                                                 *)
THEOREM RankedHolds ==
  ASSUME Comparable
  PROVE  Spec => []Ranked
<1>1. Init => RankInv
  BY InitRank
<1>2. RankInv /\ [Next]_vars => RankInv'
  BY NextRank
<1>3. RankInv => Ranked
  <2> SUFFICES ASSUME RankInv, Len(ggoal) > 1, phase \in {"done", "recombine"}, j = 0
               PROVE  /\ \A k \in Place : sim[k] = Similarity(ggoal, Notes(k))
                      /\ \A k \in Place : sim[k] <= sim[Top]
                      /\ \A k, l \in Place : k < l => sim[k] <= sim[l]
                      /\ phase = "done" => ginitial = Notes(Top)
    BY DEF Ranked
  <2>1. Ordered(sim, Place) /\ SimKept /\ Kept
    BY DEF RankInv, OrderInv
  <2>2. \A k \in Place : k <= Top
    BY PoolFacts DEF Place, Top
  <2>3. \A k, l \in Place : k < l => k <= l
    BY PoolFacts
  <2> QED
    BY <2>1, <2>2, <2>3, PoolFacts DEF Ordered, SimKept, Known, Kept
<1> QED
  BY <1>1, <1>2, <1>3, PTL DEF Spec

-----------------------------------------------------------------------------
(* compute_similarity returns numbers, and its greatest for the goal.       *)

LEMMA DivBound ==
  ASSUME NEW a \in Nat, NEW m \in Nat \ {0}, NEW k \in Nat, a <= k * m
  PROVE  a \div m \in 0..k
OBVIOUS

LEMMA DivLess ==
  ASSUME NEW a \in Nat, NEW m \in Nat \ {0}, NEW k \in Nat, a < k * m
  PROVE  a \div m < k
OBVIOUS

LEMMA DivExact ==
  ASSUME NEW m \in Nat \ {0}, NEW k \in Nat
  PROVE  (k * m) \div m = k
OBVIOUS

(* What occurs in a list is finite, and something does.                     *)
LEMMA KeysFinite ==
  ASSUME NEW n \in Nat \ {0}, NEW test, DOMAIN test = 1..n
  PROVE  LET keys == {test[k] : k \in DOMAIN test}
         IN IsFiniteSet(keys) /\ Cardinality(keys) \in Nat \ {0}
<1> DEFINE keys == {test[k] : k \in DOMAIN test}
           f == [k \in 1..n |-> test[k]]
<1>1. IsFiniteSet(1..n)
  BY FS_Interval
<1>2. f \in Surjection(1..n, keys)
  <2>1. f \in [1..n -> keys]
    OBVIOUS
  <2>2. \A y \in keys : \E k \in 1..n : f[k] = y
    OBVIOUS
  <2> QED
    BY <2>1, <2>2 DEF Surjection
<1>3. IsFiniteSet(keys)
  BY <1>1, <1>2, FS_Surjection
<1>4. test[1] \in keys
  <2>1. 1 \in DOMAIN test
    OBVIOUS
  <2> QED
    BY <2>1
<1> QED
  BY <1>3, <1>4, FS_CardinalityType, FS_EmptySet

(* A perplexity is at most one hundred hundredths: each of the keys gives   *)
(* at most that.  A list compared with itself has it.                       *)
LEMMA PerplexityBound ==
  ASSUME NEW n \in Nat \ {0}, NEW train, NEW test, DOMAIN test = 1..n
  PROVE  /\ Perplexity(train, test) \in 0..UNIT
         /\ train = test => Perplexity(train, test) = UNIT
<1> DEFINE keys == {test[k] : k \in DOMAIN test}
           both == {key \in keys : Count(train, key) # 0}
           close(key) == Closeness(Distance(Count(train, key), Count(test, key)))
           sum  == UNION {{key} \X close(key) : key \in both}
<1>1. Perplexity(train, test) = Cardinality(sum) \div Cardinality(keys)
  BY DEF Perplexity
<1>2. IsFiniteSet(keys) /\ Cardinality(keys) \in Nat \ {0}
  BY KeysFinite
<1>3. IsFiniteSet(1..UNIT) /\ Cardinality(1..UNIT) = 100
  <2>1. IsFiniteSet(1..100) /\ Cardinality(1..100) = IF 1 > 100 THEN 0 ELSE 100 - 1 + 1
    <3>1. 1 \in Int /\ 100 \in Int
      OBVIOUS
    <3> QED
      BY <3>1, FS_Interval, Zenon
  <2>2. Cardinality(1..100) = 100
    BY <2>1
  <2> QED
    BY <2>1, <2>2 DEF UNIT
<1>4. IsFiniteSet(keys \X (1..UNIT)) /\ Cardinality(keys \X (1..UNIT)) = Cardinality(keys) * 100
  BY <1>2, <1>3, FS_Product
<1>5. sum \subseteq keys \X (1..UNIT)
  BY DEF Closeness
<1>6. /\ IsFiniteSet(sum) /\ Cardinality(sum) \in Nat
      /\ Cardinality(sum) <= 100 * Cardinality(keys)
  <2> HIDE DEF sum, keys
  <2>1. IsFiniteSet(sum) /\ Cardinality(sum) <= Cardinality(keys \X (1..UNIT))
    BY <1>4, <1>5, FS_Subset
  <2> QED
    BY <1>2, <1>4, <2>1, FS_CardinalityType
<1>7. Perplexity(train, test) \in 0..UNIT
  <2> HIDE DEF sum, keys
  <2> QED
    BY <1>1, <1>2, <1>6, DivBound DEF UNIT
<1>8. ASSUME train = test
      PROVE  Perplexity(train, test) = UNIT
  <2>1. ASSUME NEW key \in keys
        PROVE  Count(test, key) \in Nat \ {0}
    <3> DEFINE at == {k \in DOMAIN test : test[k] = key}
    <3>1. IsFiniteSet(at)
      <4>1. IsFiniteSet(DOMAIN test) /\ at \in SUBSET DOMAIN test
        BY FS_Interval
      <4> HIDE DEF at
      <4> QED
        BY <4>1, FS_Subset
    <3>2. PICK k \in DOMAIN test : test[k] = key
      BY <2>1
    <3>3. k \in at
      BY <3>2
    <3> HIDE DEF at
    <3>4. Cardinality(at) \in Nat \ {0}
      BY <3>1, <3>3, FS_CardinalityType, FS_EmptySet
    <3> QED
      BY <3>4 DEF Count, at
  <2>2. ASSUME NEW key \in keys
        PROVE  key \in both /\ close(key) = 1..UNIT
    <3>1. Distance(Count(test, key), Count(test, key)) = 0
      BY <2>1 DEF Distance
    <3>2. Closeness(0) = 1..UNIT
      <4> SUFFICES ASSUME NEW x \in 1..100 PROVE x * x * (1 + 0 * 0) <= 100 * 100
        BY DEF Closeness, UNIT
      <4>1. x * x <= 100 * 100 /\ x * x \in Nat
        OBVIOUS
      <4> QED
        BY <4>1
    <3> QED
      BY <1>8, <2>1, <3>1, <3>2
  <2>3. keys \X (1..UNIT) \subseteq sum
    <3> SUFFICES ASSUME NEW key \in keys, NEW x \in 1..UNIT PROVE <<key, x>> \in sum
      OBVIOUS
    <3>1. key \in both /\ <<key, x>> \in {key} \X close(key)
      BY <2>2
    <3> HIDE DEF both, close
    <3> QED
      BY <3>1
  <2>4. sum = keys \X (1..UNIT)
    BY <1>5, <2>3
  <2> HIDE DEF sum, keys
  <2> QED
    BY <1>1, <1>2, <1>4, <2>4, DivExact DEF UNIT
<1> QED
  BY <1>7, <1>8

(* The places where two pieces agree: all of them if all do.                *)
LEMMA AgreeBound ==
  ASSUME NEW n \in Nat, NEW at \in SUBSET (1..n)
  PROVE  /\ Cardinality(at) \in 0..n
         /\ Cardinality(at) = n <=> at = 1..n
<1>1. IsFiniteSet(1..n) /\ Cardinality(1..n) = n
  BY FS_Interval
<1>2. IsFiniteSet(at) /\ Cardinality(at) <= n /\ (n = Cardinality(at) => 1..n = at)
  BY <1>1, FS_Subset
<1>3. Cardinality(at) \in Nat
  BY <1>2, FS_CardinalityType
<1> QED
  BY <1>1, <1>2, <1>3

LEMMA InPlaceBound ==
  ASSUME NEW n \in Nat \ {0}, NEW goal \in [1..n -> Note], NEW trial \in [1..n -> Note]
  PROVE  /\ InPlace(goal, trial) \in 0..UNIT
         /\ InPlace(goal, trial) = UNIT <=> trial = goal
<1> DEFINE pitches == {k \in DOMAIN goal : goal[k].pitch = trial[k].pitch}
           tempos  == {k \in DOMAIN goal : goal[k].tempo = trial[k].tempo}
           a == Cardinality(pitches)
           b == Cardinality(tempos)
<1>1. DOMAIN goal = 1..n /\ Len(goal) = n
  OBVIOUS
<1>2. pitches \in SUBSET (1..n) /\ tempos \in SUBSET (1..n)
  BY <1>1
<1>3. InPlace(goal, trial) = (UNIT * (a + b)) \div (2 * n)
  BY <1>1 DEF InPlace
<1>4. a \in 0..n /\ b \in 0..n /\ (a = n <=> pitches = 1..n) /\ (b = n <=> tempos = 1..n)
  <2> HIDE DEF pitches, tempos
  <2> QED
    BY <1>2, AgreeBound
<1>5. pitches = 1..n /\ tempos = 1..n <=> trial = goal
  <2>1. ASSUME pitches = 1..n, tempos = 1..n
        PROVE  trial = goal
    <3>1. \A k \in 1..n : goal[k].pitch = trial[k].pitch /\ goal[k].tempo = trial[k].tempo
      BY <2>1
    <3>2. \A k \in 1..n : goal[k] = trial[k]
      BY <3>1 DEF Note
    <3> QED
      BY <3>2
  <2>2. ASSUME trial = goal
        PROVE  pitches = 1..n /\ tempos = 1..n
    BY <1>1, <2>2
  <2> QED
    BY <2>1, <2>2
<1> HIDE DEF pitches, tempos, a, b
<1>6. UNIT * (a + b) \in Nat /\ 2 * n \in Nat \ {0} /\ UNIT * (a + b) <= 100 * (2 * n)
  BY <1>4 DEF UNIT
<1>7. InPlace(goal, trial) \in 0..UNIT
  BY <1>3, <1>6, DivBound DEF UNIT
<1>8. CASE a = n /\ b = n
  <2>1. UNIT * (a + b) = 100 * (2 * n)
    BY <1>4, <1>8 DEF UNIT
  <2>2. InPlace(goal, trial) = 100
    BY <1>3, <1>6, <2>1, DivExact
  <2> QED
    BY <1>4, <1>5, <1>7, <1>8, <2>2 DEF UNIT
<1>9. CASE ~(a = n /\ b = n)
  <2>1. UNIT * (a + b) < 100 * (2 * n)
    BY <1>4, <1>9 DEF UNIT
  <2>2. InPlace(goal, trial) < 100
    BY <1>3, <1>6, <2>1, DivLess
  <2> QED
    BY <1>4, <1>5, <1>7, <1>9, <2>2 DEF UNIT
<1> QED
  BY <1>8, <1>9

(* One, in hundredths of a hundredth.                                       *)
Peak == 100 * UNIT

(* The similarity of a piece to a goal of more than one note is at most     *)
(* what the goal has with itself, and no other piece has that.              *)
THEOREM SimilarityPeak ==
  ASSUME NEW n \in Nat, n > 1, NEW goal \in [1..n -> Note], NEW trial \in [1..n -> Note]
  PROVE  /\ ComputeSimilarity(goal, trial) \in 0..Peak
         /\ ComputeSimilarity(goal, trial) = Peak <=> trial = goal
<1> DEFINE c == InPlace(goal, trial)
           p == Perplexity(Pitches(goal), Pitches(trial))
           t == Perplexity(Tempos(goal), Tempos(trial))
           bp == Perplexity(Bigrams(Pitches(goal)), Bigrams(Pitches(trial)))
           bt == Perplexity(Bigrams(Tempos(goal)), Bigrams(Tempos(trial)))
<1>1. Len(goal) = n /\ Len(trial) = n /\ DOMAIN goal = 1..n /\ DOMAIN trial = 1..n
  OBVIOUS
<1>2. ComputeSimilarity(goal, trial) = 70 * c + 10 * p + 5 * t + 10 * bp + 5 * bt
  BY <1>1 DEF ComputeSimilarity
<1>3. c \in 0..100 /\ (c = 100 <=> trial = goal)
  BY InPlaceBound DEF UNIT
<1>4. /\ DOMAIN Pitches(trial) = 1..n /\ DOMAIN Tempos(trial) = 1..n
      /\ Len(Pitches(trial)) = n /\ Len(Tempos(trial)) = n
  BY <1>1 DEF Pitches, Tempos
<1>5. /\ n - 1 \in Nat \ {0}
      /\ DOMAIN Bigrams(Pitches(trial)) = 1..n - 1 /\ DOMAIN Bigrams(Tempos(trial)) = 1..n - 1
  BY <1>4 DEF Bigrams
<1>6. p \in 0..100 /\ (trial = goal => p = 100)
  BY <1>4, PerplexityBound DEF UNIT
<1>7. t \in 0..100 /\ (trial = goal => t = 100)
  BY <1>4, PerplexityBound DEF UNIT
<1>8. bp \in 0..100 /\ (trial = goal => bp = 100)
  BY <1>5, PerplexityBound DEF UNIT
<1>9. bt \in 0..100 /\ (trial = goal => bt = 100)
  BY <1>5, PerplexityBound DEF UNIT
<1> HIDE DEF c, p, t, bp, bt
<1> QED
  BY <1>2, <1>3, <1>6, <1>7, <1>8, <1>9 DEF Peak, UNIT

(* The similarity is that of the code.                                      *)
OfTheCode == \A goal, trial : Similarity(goal, trial) = ComputeSimilarity(goal, trial)

LEMMA CodeIsComparable ==
  ASSUME OfTheCode
  PROVE  Comparable
<1> SUFFICES ASSUME NEW g \in Goals, Len(g) > 1, NEW t \in [1..Len(g) -> Note]
             PROVE  Similarity(g, t) \in Nat
  BY DEF Comparable
<1>1. g \in Seq(Note)
  BY PoolAssumption
<1>2. Len(g) \in Nat /\ g \in [1..Len(g) -> Note]
  BY <1>1, LenProperties, ElementOfSeq
<1> DEFINE s == ComputeSimilarity(g, t)
<1>3. s \in 0..Peak
  BY <1>2, SimilarityPeak, Zenon
<1>4. Similarity(g, t) = s
  BY DEF OfTheCode
<1> HIDE DEF s
<1>5. s \in Nat
  BY <1>3 DEF Peak, UNIT
<1> QED
  BY <1>4, <1>5, Zenon

(* With the similarity of the code the best pieces are the most like the    *)
(* goal, and a piece is as good as the goal only if it is the goal          *)
(* (compute_similarity, genetic_loop).                                      *)
THEOREM GoalIsBestHolds ==
  ASSUME OfTheCode
  PROVE  Spec => []GoalIsBest
<1>1. Comparable
  BY CodeIsComparable
<1>2. Init => RankInv
  BY InitRank
<1>3. RankInv /\ [Next]_vars => RankInv'
  BY <1>1, NextRank
<1>4. RankInv => GoalIsBest
  <2> SUFFICES ASSUME RankInv, Len(ggoal) > 1, phase \in {"done", "recombine"}, j = 0,
                      NEW k \in Place
               PROVE  /\ sim[k] <= Similarity(ggoal, ggoal)
                      /\ sim[k] = Similarity(ggoal, ggoal) => Notes(k) = ggoal
    BY DEF GoalIsBest
  <2>1. sim[k] = Similarity(ggoal, Notes(k))
    BY DEF RankInv, SimKept, Known
  <2>2. Notes(k) \in [1..Len(ggoal) -> Note] /\ Len(ggoal) \in Nat /\ ggoal \in Seq(Note)
    BY NotesType, CountFacts DEF RankInv, IInv
  <2>3. ggoal \in [1..Len(ggoal) -> Note]
    BY <2>2, LenProperties, ElementOfSeq
  <2> DEFINE best == ComputeSimilarity(ggoal, ggoal)
             this == ComputeSimilarity(ggoal, Notes(k))
  <2>4. /\ this \in 0..Peak /\ (this = Peak <=> Notes(k) = ggoal)
        /\ best = Peak
    <3> DEFINE n == Len(ggoal)
               piece == Notes(k)
    <3>1. n \in Nat /\ n > 1 /\ ggoal \in [1..n -> Note] /\ piece \in [1..n -> Note]
      BY <2>2, <2>3
    <3> HIDE DEF n, piece
    <3>2. /\ ComputeSimilarity(ggoal, piece) \in 0..Peak
          /\ ComputeSimilarity(ggoal, piece) = Peak <=> piece = ggoal
      BY <3>1, SimilarityPeak, Zenon
    <3>3. ComputeSimilarity(ggoal, ggoal) = Peak
      BY <3>1, SimilarityPeak, Zenon
    <3> QED
      BY <3>2, <3>3, Zenon DEF piece
  <2>5. sim[k] = this /\ Similarity(ggoal, ggoal) = best
    BY <2>1 DEF OfTheCode
  <2> HIDE DEF this, best
  <2> QED
    BY <2>4, <2>5 DEF Peak, UNIT
<1> QED
  BY <1>2, <1>3, <1>4, PTL DEF Spec
==============================================================================
