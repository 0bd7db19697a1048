---------------------------- MODULE GeneticPiece -----------------------------
(***************************************************************************)
(* The piece of a genetic musician: gathered in the rehearsal, evolved, and *)
(* cut into measures again for the concert.                                 *)
(*                                                                          *)
(* Durations are in semiquavers.  A measure of the rehearsal lasts Q of     *)
(* them; the evolution then changes single durations, so that notes may     *)
(* cross a bar line.  piece_to_list splits those and marks the second half  *)
(* with NOTE_CONTINUOUS_ID; compose_measure_genetic takes notes from the    *)
(* list until they fill a measure, and refuses to go over a bar line.       *)
(* Pitches, velocities and chords play no role in this.                     *)
(***************************************************************************)
EXTENDS Integers, Sequences

CONSTANTS
  Q,          \* max_sqcount: semiquavers in a measure
  Bars,       \* measures in the rehearsal, and so in the concert
  StartSize,  \* PIECE_START_SIZE: notes allocated at first
  GoalSizes   \* numbers of notes of the measures of the samples file

(* A measure of the samples file has one note at least, and lasts Q.        *)
ASSUME PieceAssumption ==
  /\ Q \in Nat \ {0} /\ StartSize \in Nat
  /\ Q <= StartSize
  /\ Bars \in Nat
  /\ GoalSizes \subseteq 1..Q

(* The longest note the evolution makes: 16, as long as a measure.          *)
MAX_TEMPO == Q

VARIABLES
  phase,      \* where the musician is
  bar,        \* measures stored so far
  ginitial,   \* notes stored of what it composed, and room for them
  ggoal,      \* the same of the samples
  piece,      \* the durations of the evolved piece
  next,       \* piece_to_list: the note it comes to
  sqcount,    \* piece_to_list: semiquavers in the measure it is filling
  finalist,   \* the list it builds
  node,       \* compose_measure_genetic: the list entry it comes to
  measure,    \* compose_measure_genetic: notes of the measure so far
  tempo,      \* compose_measure_genetic: how long they last
  parts       \* the measures sent to the player

storeVars == <<bar, ginitial, ggoal>>
listVars  == <<next, sqcount, finalist>>
playVars  == <<node, measure, tempo, parts>>
vars == <<phase, bar, ginitial, ggoal, piece, next, sqcount, finalist,
          node, measure, tempo, parts>>

(* An entry of the list.  "at" is not in the code: it records where in the  *)
(* measure the entry begins, for the invariants, and no step reads it.      *)
Entry == [tempo : 1..Q, cont : BOOLEAN, at : 0..Q-1]

Store == [count : Nat, size : Nat]

TypeOK ==
  /\ phase \in {"rehearsal", "evolve", "list", "split", "concert",
                "done", "failed", "overrun", "crashed"}
  /\ bar \in 0..Bars
  /\ ginitial \in Store /\ ggoal \in Store
  /\ piece \in Seq(1..MAX_TEMPO)
  /\ next \in Nat \ {0}
  /\ sqcount \in 0..Q-1
  /\ finalist \in Seq(Entry)
  /\ node \in Nat \ {0}
  /\ measure \in Seq(Entry)
  /\ tempo \in 0..Q-1
  /\ parts \in Seq(Seq(Entry))

Init ==
  /\ phase = "rehearsal"
  /\ bar = 0
  /\ ginitial = [count |-> 0, size |-> StartSize]
  /\ ggoal = [count |-> 0, size |-> StartSize]
  /\ piece = <<>>
  /\ next = 1 /\ sqcount = 0 /\ finalist = <<>>
  /\ node = 1 /\ measure = <<>> /\ tempo = 0 /\ parts = <<>>

-----------------------------------------------------------------------------
(* The rehearsal: store_gmeasure after each measure.                        *)

(* The room is doubled, once, when the notes do not fit.  (Mutant: when     *)
(* there is no room left at all.)                                           *)
RoomWhenFull(store, n) == IF store.count >= store.size THEN 2 * store.size ELSE store.size

Room(store, n) == IF store.count + n > store.size THEN 2 * store.size ELSE store.size

Stored(store, n) == [count |-> store.count + n, size |-> Room(store, n)]

(* A measure with as many notes as semiquavers has size 0 (compose_measure  *)
(* sets the size only when it shrinks the array), and stores nothing.       *)
StoreGmeasure(n, g) ==
  /\ phase = "rehearsal" /\ bar < Bars
  /\ ginitial' = Stored(ginitial, n)
  /\ ggoal' = Stored(ggoal, g)
  /\ bar' = bar + 1
  /\ UNCHANGED <<phase, piece, listVars, playVars>>

(* No octave has been decided yet, because the musician has only composed   *)
(* rests: store_gmeasure gives up after the first half, and nobody looks at *)
(* what it returns.  The goal's room has been made all the same.            *)
StoreWithoutGoal(n, g) ==
  /\ phase = "rehearsal" /\ bar < Bars /\ ggoal.count = 0
  /\ ginitial' = Stored(ginitial, n)
  /\ ggoal' = [ggoal EXCEPT !.size = Room(ggoal, g)]
  /\ bar' = bar + 1
  /\ UNCHANGED <<phase, piece, listVars, playVars>>

(* No sample has the dynamics of the measure: realloc to the size 0 is NULL *)
(* for get_goal_measures, and store_gmeasure returns before it stores.      *)
StoreNothing ==
  /\ phase = "rehearsal" /\ bar < Bars
  /\ bar' = bar + 1
  /\ UNCHANGED <<phase, ginitial, ggoal, piece, listVars, playVars>>

EndRehearsal ==
  /\ phase = "rehearsal" /\ bar = Bars
  /\ phase' = "evolve"
  /\ UNCHANGED <<storeVars, piece, listVars, playVars>>

-----------------------------------------------------------------------------
(* genetic_loop.  Each piece of the pool has as many notes as the goal, the *)
(* initial ones over and over; each round changes some durations by a few   *)
(* semiquavers, wrapped into 1..MAX_TEMPO, and puts halves of pieces        *)
(* together.  After all the rounds a note may have any duration.  (Mutant:  *)
(* wrapped, and not incremented.)                                           *)
NewTempoNotIncremented == 0..MAX_TEMPO - 1

NewTempo == 1..MAX_TEMPO

GeneticLoop ==
  /\ phase = "evolve" /\ ginitial.count > 0 /\ ggoal.count > 0
  /\ piece' \in [1..ggoal.count -> NewTempo]
  /\ phase' = "list"
  /\ UNCHANGED <<storeVars, listVars, playVars>>

(* An empty initial or goal piece is the divisor of an index.               *)
GeneticLoopCrashes ==
  /\ phase = "evolve" /\ (ginitial.count = 0 \/ ggoal.count = 0)
  /\ phase' = "crashed"
  /\ UNCHANGED <<storeVars, piece, listVars, playVars>>

-----------------------------------------------------------------------------
(* Where the next entry begins after one of length t at s.                  *)
After(s, t) == IF s + t = Q THEN 0 ELSE s + t

(* piece_to_list: one note, whole, at the end of the list.                  *)
AddNote ==
  /\ phase = "list" /\ next <= Len(piece)
  /\ finalist' = Append(finalist, [tempo |-> piece[next], cont |-> FALSE, at |-> sqcount])
  /\ next' = next + 1
  /\ IF sqcount + piece[next] > Q
     THEN /\ phase' = "split"
          /\ UNCHANGED sqcount
     ELSE /\ sqcount' = After(sqcount, piece[next])
          /\ UNCHANGED phase
  /\ UNCHANGED <<storeVars, piece, playVars>>

(* split_note, one turn of its loop: the last note ends with the measure,   *)
(* and a continuation takes what is left of it.  The count of the new       *)
(* measure begins with the continuation.  (Mutants: it begins with 0; the   *)
(* continuation is not marked.)                                             *)
CountOfRestZero(rest) == 0

CountOfRest(rest) == rest

ContinuationUnmarked == FALSE

Continuation == TRUE

SplitNote ==
  /\ phase = "split"
  /\ LET k    == Len(finalist)
         left == Q - (IF finalist[k].cont THEN 0 ELSE sqcount)
         rest == finalist[k].tempo - left
     IN /\ finalist' = Append([finalist EXCEPT ![k].tempo = left],
                              [tempo |-> rest, cont |-> Continuation, at |-> 0])
        /\ sqcount' = CountOfRest(rest)
        /\ phase' = IF rest > Q THEN "split" ELSE "list"
  /\ UNCHANGED <<storeVars, piece, next, playVars>>

EndOfPiece ==
  /\ phase = "list" /\ next > Len(piece)
  /\ phase' = "concert"
  /\ UNCHANGED <<storeVars, piece, listVars, playVars>>

-----------------------------------------------------------------------------
(* compose_measure_genetic: one note.  A continuation that is not the first *)
(* of its measure, or a note that goes over the end of it, makes it return  *)
(* NULL, and main leaves.                                                   *)
Fits(note) ==
  /\ note.cont => measure = <<>>
  /\ tempo + note.tempo <= Q

TakeNote ==
  /\ phase = "concert" /\ Len(parts) < Bars
  /\ node <= Len(finalist)
  /\ LET note  == finalist[node]
         notes == Append(measure, note)
         full  == tempo + note.tempo = Q
     IN IF Fits(note)
        THEN /\ measure' = IF full THEN <<>> ELSE notes
             /\ tempo' = After(tempo, note.tempo)
             /\ parts' = IF full THEN Append(parts, notes) ELSE parts
             /\ node' = node + 1
             /\ UNCHANGED phase
        ELSE phase' = "failed" /\ UNCHANGED playVars
  /\ UNCHANGED <<storeVars, piece, listVars>>

(* The loop does not test for the end of the list: it takes the list head   *)
(* for a note, and anything may follow.                                     *)
TakeListHead ==
  /\ phase = "concert" /\ Len(parts) < Bars
  /\ node > Len(finalist)
  /\ phase' = "overrun"
  /\ UNCHANGED <<storeVars, piece, listVars, playVars>>

EndOfConcert ==
  /\ phase = "concert" /\ Len(parts) = Bars
  /\ phase' = "done"
  /\ UNCHANGED <<storeVars, piece, listVars, playVars>>

Ended ==
  phase \in {"done", "failed", "overrun", "crashed"} /\ UNCHANGED vars

Rehearse ==
  \/ \E n \in 0..Q-1, g \in GoalSizes : StoreGmeasure(n, g) \/ StoreWithoutGoal(n, g)
  \/ StoreNothing

Next ==
  \/ Rehearse \/ EndRehearsal \/ GeneticLoop \/ GeneticLoopCrashes
  \/ AddNote \/ SplitNote \/ EndOfPiece
  \/ TakeNote \/ TakeListHead \/ EndOfConcert
  \/ Ended

Spec == Init /\ [][Next]_vars

-----------------------------------------------------------------------------
(* Properties.                                                              *)

(* The arrays of store_gmeasure are never written past their end: the one   *)
(* doubling is enough, whatever the measures.                               *)
NotesFit == ginitial.count <= ginitial.size /\ ggoal.count <= ggoal.size

(* compose_measure_genetic never returns NULL: however long the evolution   *)
(* made the notes, no entry of the list goes over a bar line, and no        *)
(* continuation is inside a measure.                                        *)
WellCut == phase # "failed"

(* When the notes of these durations begin, and the last one ends.          *)
Begins(tempos) ==
  LET begins[k \in 1..Len(tempos) + 1] == IF k = 1 THEN 0 ELSE begins[k - 1] + tempos[k - 1]
  IN begins

Tempos(list) == [k \in 1..Len(list) |-> list[k].tempo]

(* The entries that are not the rest of a note.                             *)
Begun(list) == {k \in 1..Len(list) : ~list[k].cont}

BeginningsPlayed(measures) ==
  UNION {{Q * (b - 1) + Begins(Tempos(measures[b]))[k] : k \in Begun(measures[b])} :
           b \in 1..Len(measures)}

(* What is played is what was evolved: in the measures sent so far a note   *)
(* begins exactly where one begins in the piece.                            *)
SameMusic ==
  BeginningsPlayed(parts) =
    {t \in {Begins(piece)[k] : k \in 1..Len(piece)} : t < Q * Len(parts)}
==============================================================================
