------------------------------- MODULE GenePool -------------------------------
(***************************************************************************)
(* The evolution of a genetic musician's piece: genetic_loop of             *)
(* musician_evolution.cpp.                                                  *)
(*                                                                          *)
(* A pool of copies of the initial piece goes through rounds: the best ones *)
(* are copied over the worst and their beginnings exchanged, every piece    *)
(* has some of its notes changed and is compared to the goal, and the pool  *)
(* is sorted, by mergesort, along with the similarities.  In the end the    *)
(* last piece of the pool is the musician's.                                *)
(*                                                                          *)
(* A piece of the pool is a pointer to an array and a count; sorting moves  *)
(* the pointers and not the notes, recombination copies the notes and not   *)
(* the pointers.  Arrays are numbered from 0 in the order of their calloc.  *)
(***************************************************************************)
EXTENDS Integers, Sequences, Fitness

CONSTANTS
  GENETIC_POOL_SIZE,
  GENETIC_ROUNDS,
  Initials,           \* pieces the rehearsal may have left
  Goals,              \* pieces the samples may have given
  Draws,              \* for each place in the pool, the changes that may be drawn
  Similarity(_, _)    \* compute_similarity: of a goal and a piece

MIDI_REST_NOTE    == 128
MIDDLE_NOTE       == 64
NOTES_CHANGE_DIST == 11
TEMPO_CHANGE_DIST == 4
MAX_TEMPO         == 16

NUM_CHANGE(size) == size \div 20 + 1

Place == 0..GENETIC_POOL_SIZE - 1

(* The first pitch of the note and its duration.                            *)
Note == [pitch : 0..255, tempo : 0..255]

(* The note to change, counted modulo the count, and by how much.           *)
Draw == [r : Nat,
         pitch : -NOTES_CHANGE_DIST..NOTES_CHANGE_DIST,
         tempo : -TEMPO_CHANGE_DIST..TEMPO_CHANGE_DIST]

(* A piece without notes is the case of GeneticLoopCrashes (GeneticPiece).  *)
(* The code asks for an even quarter of the pool.                           *)
ASSUME PoolAssumption ==
  /\ GENETIC_POOL_SIZE \in Nat \ {0} /\ GENETIC_POOL_SIZE % 8 = 0
  /\ GENETIC_ROUNDS \in Nat \ {0}
  /\ Initials \subseteq Seq(Note) \ {<<>>}
  /\ Goals \subseteq Seq(Note) \ {<<>>}
  /\ \A k \in Place : Draws[k] \subseteq Draw

VARIABLES
  phase,        \* where genetic_loop is
  ginitial,     \* the musician's piece
  ggoal,        \* the ideal one
  i,            \* the round
  genetic_pool, \* pieces: pointers to arrays, and counts
  heap,         \* the notes in the arrays
  sim,          \* the similarities
  j,            \* the place in the pool it comes to
  changed,      \* change_random_note: the notes changed so far
  calls,        \* mergesort_pool: the calls still to be made
  lw, hh,       \* merge_pool: the places it comes to in the two halves
  sandbox       \* merge_pool: the places taken, in their new order

pieceVars == <<ginitial, ggoal>>
sortVars  == <<calls, lw, hh, sandbox>>
vars == <<phase, pieceVars, i, genetic_pool, heap, sim, j, changed, sortVars>>

Call == [op : {"sort", "merge"}, fst : Place, end : Place]

Top == GENETIC_POOL_SIZE - 1

Notes(k) == heap[genetic_pool[k].notes]

(* The copies of the initial piece, repeated or cut to the goal's count.    *)
Stretched(piece, count) == [n \in 1..count |-> piece[((n - 1) % Len(piece)) + 1]]

Init ==
  /\ phase = "change"
  /\ ginitial \in Initials /\ ggoal \in Goals
  /\ i = 0
  /\ genetic_pool = [k \in Place |-> [notes |-> k, count |-> Len(ggoal)]]
  /\ heap = [k \in Place |-> Stretched(ginitial, Len(ggoal))]
  /\ sim = [k \in Place |-> Similarity(ggoal, Stretched(ginitial, Len(ggoal)))]
  /\ j = 0 /\ changed = 0
  /\ calls = <<>> /\ lw = 0 /\ hh = 0 /\ sandbox = <<>>

-----------------------------------------------------------------------------
(* transrecombine: one pair of the best quarter is copied over one of the   *)
(* worst, and the copies exchange their first notes, at least one.          *)
(* (Mutant: the wrong end of the pool is overwritten.)                      *)
ChildFromTop(k) == Top - k

Child(k) == k

Crossed(fst, snd, crossover) == [n \in DOMAIN fst |-> IF n <= crossover THEN snd[n] ELSE fst[n]]

Recombine ==
  /\ phase = "recombine"
  /\ LET fst == Notes(Top - j)
         snd == Notes(Top - j - 1)
     IN \E crossover \in 1..Len(ggoal) :
          heap' = [heap EXCEPT ![genetic_pool[Child(j)].notes] = Crossed(fst, snd, crossover),
                               ![genetic_pool[Child(j + 1)].notes] = Crossed(snd, fst, crossover)]
  /\ IF j + 2 < GENETIC_POOL_SIZE \div 4
     THEN j' = j + 2 /\ UNCHANGED phase
     ELSE j' = 0 /\ phase' = "change"
  /\ UNCHANGED <<pieceVars, i, genetic_pool, sim, changed, sortVars>>

-----------------------------------------------------------------------------
(* change_random_note.  The remainder of a negative number is negative, and *)
(* becomes a byte of 245 to 255.                                            *)
NewPitch(pitch, d) ==
  LET p == (IF pitch = MIDI_REST_NOTE THEN MIDDLE_NOTE ELSE pitch) + d
  IN IF p < 0 THEN p + 256 ELSE p % 128

NewTempo(tempo, d) == (((tempo + d) % 256) % MAX_TEMPO) + 1

Changed(notes, draw) ==
  LET n == (draw.r % Len(notes)) + 1
  IN [notes EXCEPT ![n] = [pitch |-> NewPitch(@.pitch, draw.pitch),
                           tempo |-> NewTempo(@.tempo, draw.tempo)]]

(* The piece whose similarity is computed after its last change.  (Mutant:  *)
(* before it.)                                                              *)
ComparedBefore(notes) == Notes(j)

Compared(notes) == notes

ChangeNote ==
  /\ phase = "change"
  /\ \E draw \in Draws[j] :
       LET notes == Changed(Notes(j), draw)
       IN /\ heap' = [heap EXCEPT ![genetic_pool[j].notes] = notes]
          /\ IF changed + 1 < NUM_CHANGE(Len(ggoal))
             THEN /\ changed' = changed + 1
                  /\ UNCHANGED <<phase, sim, j, calls>>
             ELSE /\ changed' = 0
                  /\ sim' = [sim EXCEPT ![j] = Similarity(ggoal, Compared(notes))]
                  /\ IF j < Top
                     THEN j' = j + 1 /\ UNCHANGED <<phase, calls>>
                     ELSE /\ j' = 0 /\ phase' = "sort"
                          /\ calls' = <<[op |-> "sort", fst |-> 0, end |-> Top]>>
  /\ UNCHANGED <<pieceVars, i, genetic_pool, lw, hh, sandbox>>

-----------------------------------------------------------------------------
(* mergesort_pool: a range is divided, and its halves sorted and merged.    *)
Mid(call) == (call.fst + call.end) \div 2

MergesortPool ==
  /\ phase = "sort" /\ calls # <<>> /\ Head(calls).op = "sort"
  /\ LET call == Head(calls)
         q    == Mid(call)
     IN calls' = (IF call.fst < call.end
                  THEN <<[call EXCEPT !.end = q], [call EXCEPT !.fst = q + 1],
                         [call EXCEPT !.op = "merge"]>>
                  ELSE <<>>) \o Tail(calls)
  /\ UNCHANGED <<phase, pieceVars, i, genetic_pool, heap, sim, j, changed, lw, hh, sandbox>>

(* merge_pool begins.  (Mutant: the upper half with the last of the lower.) *)
UpperFromMid(call) == Mid(call)

Upper(call) == Mid(call) + 1

BeginMerge ==
  /\ phase = "sort" /\ calls # <<>> /\ Head(calls).op = "merge"
  /\ lw' = Head(calls).fst /\ hh' = Upper(Head(calls)) /\ sandbox' = <<>>
  /\ phase' = "merge"
  /\ UNCHANGED <<pieceVars, i, genetic_pool, heap, sim, j, changed, calls>>

(* The less similar of the two comes first, as long as there are two.  A    *)
(* comparison with NaN is false.                                            *)
LowLeft  == lw <= Mid(Head(calls))
HighLeft == hh <= Head(calls).end

NotMore(a, b) == a # NaN /\ b # NaN /\ a <= b

TakeLow ==
  /\ phase = "merge" /\ LowLeft /\ (HighLeft => NotMore(sim[lw], sim[hh]))
  /\ sandbox' = Append(sandbox, lw) /\ lw' = lw + 1
  /\ UNCHANGED <<phase, pieceVars, i, genetic_pool, heap, sim, j, changed, calls, hh>>

TakeHigh ==
  /\ phase = "merge" /\ HighLeft /\ (LowLeft => ~NotMore(sim[lw], sim[hh]))
  /\ sandbox' = Append(sandbox, hh) /\ hh' = hh + 1
  /\ UNCHANGED <<phase, pieceVars, i, genetic_pool, heap, sim, j, changed, calls, lw>>

(* The range is written back in the new order.                              *)
Merged(array) ==
  [k \in Place |-> IF k \in Head(calls).fst..Head(calls).end
                   THEN array[sandbox[k - Head(calls).fst + 1]] ELSE array[k]]

WriteBack ==
  /\ phase = "merge" /\ ~LowLeft /\ ~HighLeft
  /\ genetic_pool' = Merged(genetic_pool)
  /\ sim' = Merged(sim)
  /\ calls' = Tail(calls)
  /\ phase' = "sort"
  /\ UNCHANGED <<pieceVars, i, heap, j, changed, lw, hh, sandbox>>

-----------------------------------------------------------------------------
(* The pool is sorted: the next round, or the most similar is kept.         *)
EndOfRound ==
  /\ phase = "sort" /\ calls = <<>>
  /\ i' = i + 1
  /\ IF i + 1 < GENETIC_ROUNDS
     THEN phase' = "recombine" /\ UNCHANGED ginitial
     ELSE phase' = "done" /\ ginitial' = Notes(Top)
  /\ UNCHANGED <<ggoal, genetic_pool, heap, sim, j, changed, sortVars>>

MergePool == BeginMerge \/ TakeLow \/ TakeHigh \/ WriteBack

Ended == phase = "done" /\ UNCHANGED vars

Next == Recombine \/ ChangeNote \/ MergesortPool \/ MergePool \/ EndOfRound \/ Ended

Spec == Init /\ [][Next]_vars

-----------------------------------------------------------------------------
(* Properties.                                                              *)

TypeOK ==
  /\ phase \in {"recombine", "change", "sort", "merge", "done"}
  /\ ginitial \in Seq(Note) \ {<<>>} /\ ggoal \in Goals
  /\ i \in 0..GENETIC_ROUNDS
  /\ genetic_pool \in [Place -> [notes : Place, count : Nat]]
  /\ heap \in [Place -> [1..Len(ggoal) -> Note]]
  /\ DOMAIN sim = Place
  /\ j \in Place
  /\ changed \in 0..NUM_CHANGE(Len(ggoal)) - 1
  /\ calls \in Seq(Call)
  /\ lw \in Nat /\ hh \in Nat
  /\ sandbox \in Seq(Place)

(* Every piece of the pool has an array of its own, and as many notes as    *)
(* the goal: however often pointers are moved and notes copied, a change of *)
(* one piece changes no other.                                              *)
OwnArrays ==
  /\ \A k, l \in Place : genetic_pool[k].notes = genetic_pool[l].notes => k = l
  /\ \A k \in Place : genetic_pool[k].count = Len(ggoal)

(* Recombination comes two by two and ends at the quarter; sorting finds    *)
(* nothing half done; the rounds end.                                       *)
Staged ==
  /\ phase = "recombine" => j % 2 = 0 /\ j + 1 < GENETIC_POOL_SIZE \div 4
  /\ phase \in {"sort", "merge", "done"} => j = 0
  /\ phase # "done" => i < GENETIC_ROUNDS

(* The calls are of ranges of the pool; a merge has two halves.             *)
InRange ==
  \A n \in 1..Len(calls) :
    /\ calls[n].fst <= calls[n].end
    /\ calls[n].op = "merge" => calls[n].fst < calls[n].end

(* In a merge, what is in the sandbox are the places passed in both halves, *)
(* each once.                                                               *)
Taken == Head(calls).fst..lw - 1 \union Upper(Head(calls))..hh - 1

Merging ==
  phase = "merge" =>
    /\ calls # <<>> /\ Head(calls).op = "merge"
    /\ lw \in Head(calls).fst..Mid(Head(calls)) + 1
    /\ hh \in Mid(Head(calls)) + 1..Head(calls).end + 1
    /\ lw + hh = Head(calls).fst + Mid(Head(calls)) + 1 + Len(sandbox)
    /\ \A n \in 1..Len(sandbox) : sandbox[n] \in Taken
    /\ \A m, n \in 1..Len(sandbox) : sandbox[m] = sandbox[n] => m = n

(* The inductive invariant.                                                 *)
IInv == TypeOK /\ OwnArrays /\ Staged /\ InRange /\ Merging

(* Before every recombination, and in the end, the pool is in the order of  *)
(* the similarities, and these are those of the pieces: what is copied are  *)
(* the best ones, and what is kept is the best of all.  (A goal of one note *)
(* compares with nothing.)                                                  *)
Ranked ==
  Len(ggoal) > 1 /\ (phase \in {"done", "recombine"} /\ j = 0) =>
    /\ \A k \in Place : sim[k] = Similarity(ggoal, Notes(k))
    /\ \A k \in Place : sim[k] <= sim[Top]
    /\ \A k, l \in Place : k < l => sim[k] <= sim[l]
    /\ phase = "done" => ginitial = Notes(Top)

(* "il top 24% non venga toccato, ma soltanto copiato"                      *)
(* (Report/core/learning.tex:39): recombination leaves all pieces but the   *)
(* two of the worst quarter as they are, and at each note one of the two    *)
(* has that of the one parent and the other that of the other.              *)
Heredity ==
  [][\A k \in Place : phase = "recombine" /\ j = k =>
       /\ \A l \in Place \ {k, k + 1} : Notes(l)' = Notes(l)
       /\ \A n \in 1..Len(ggoal) :
            <<Notes(k)'[n], Notes(k + 1)'[n]>> \in
              {<<Notes(Top - k)[n], Notes(Top - k - 1)[n]>>,
               <<Notes(Top - k - 1)[n], Notes(Top - k)[n]>>}]_vars

(* Nothing is more like the goal than the goal, and nothing that differs    *)
(* from it as much: the evolution pulls in the direction it should          *)
(* (compute_similarity).                                                    *)
GoalIsBest ==
  Len(ggoal) > 1 /\ phase \in {"done", "recombine"} /\ j = 0 =>
    LET best == Similarity(ggoal, ggoal)
    IN \A k \in Place : sim[k] <= best /\ (sim[k] = best => Notes(k) = ggoal)
==============================================================================
