------------------------------- MODULE Composer -------------------------------
(***************************************************************************)
(* How a musician composes the measure the director asks for: compose_measure *)
(* (musician_core.cpp) with the decisions of musician_improviser.cpp and the  *)
(* two queries of db.cpp, inside the loop of musician_main.cpp.               *)
(*                                                                          *)
(* For each quarter it looks in the database for a quarter that matches the *)
(* director's arguments, giving them up from the least important, takes one *)
(* of those found at random, and walks through its semiquavers: each begins *)
(* a note or makes the last one longer, which may be one of the measure     *)
(* before.  Of the chords only the last is kept: no other is read again.    *)
(***************************************************************************)
EXTENDS Integers, Sequences, FiniteSets, FiniteSetsExt

CONSTANTS
  SQS_IN_Q,   \* semiquavers in a quarter
  Quarters,   \* the quarters of the database
  Musicians,  \* the musicians there may be (struct musician_fields_s)
  Measures,   \* the measures the director may send
  Drumset     \* the pitch of each drum

NSEMITONES      == 12
OCTAVE_MAX_JUMP == 2
MIDI_FIRST_NOTE == 12
MIDI_LAST_NOTE  == 108
MIDI_REST_NOTE  == 128
MIDI_NOCTAVES   == 8
MAX_CHORD_SIZE  == 8
MIN_CHORD_SIZE  == 3
INSTRUMENT_DRUM == 127
QUARTER_QUERY_ARGS == 9

NoOctave == -1

Arg == {"pos", "instr", "cnote", "cmode", "genre", "dyna", "mood", "scale", "solo"}

(* The index of a probability in pnote: 0 is the rest.  A drummer takes     *)
(* each for a drum.                                                         *)
NoteIdx == 0..NSEMITONES

(* "sure": pchange is 1.  "pnote": the notes that have a chance at all (a   *)
(* draw of exactly 0 is left out).                                          *)
Semiquaver == [position : 0..SQS_IN_Q-1, sure : BOOLEAN, pnote : (SUBSET NoteIdx) \ {{}}]

(* No semiquaver of a quarter is at the position of another, and they come  *)
(* in the order of their positions.                                         *)
InOrder(list) == \A j, k \in 1..Len(list) : j < k => list[j].position < list[k].position

(* A quarter has its semiquavers, "sqs", and for each argument the values   *)
(* that select it, "accepts": its instruments are those of its class.       *)
Tempo == [upper : Nat \ {0}, lower : Nat \ {0}]

MaxQuarters(t) == t.upper \div (t.lower \div SQS_IN_Q)

MaxSqcount(t) == MaxQuarters(t) * SQS_IN_Q

(* The arguments by priority, the most important last.                      *)
Prioargs == {p \in [1..QUARTER_QUERY_ARGS -> Arg] : \A a \in Arg : \E k \in DOMAIN p : p[k] = a}

(* The octaves are those of the instrument, 0 to 7 in the database, or      *)
(* those the user gave, which may be any that are not too far apart         *)
(* (musician_init), the lowest above the highest too.                       *)
ASSUME ComposerAssumption ==
  /\ SQS_IN_Q \in Nat \ {0}
  /\ \A r \in Quarters : r.sqs \in Seq(Semiquaver) /\ InOrder(r.sqs)
  /\ \A f \in Musicians : /\ f.instrument \in Nat
                          /\ f.play_chords \in BOOLEAN
                          /\ f.octave_min \in Int \ {NoOctave}
                          /\ f.octave_max \in Int \ {NoOctave}
                          /\ f.octave_max - f.octave_min <= MIDI_NOCTAVES
                          /\ f.custom_prioargs # <<>> => f.custom_prioargs \in Prioargs
  /\ \A m \in Measures : /\ m.tempo \in Tempo
                         /\ m.tempo.lower >= SQS_IN_Q
                         /\ MaxQuarters(m.tempo) \in Nat \ {0}
                         /\ m.prioargs \in Prioargs
                         /\ m.soloist \in BOOLEAN
                         /\ \A b \in 0..MaxQuarters(m.tempo) - 1 :
                              /\ m.chords[b].note \in 0..NSEMITONES-1
                              /\ m.chords[b].mode \in (SUBSET (0..NSEMITONES-1)) \ {{}}
                              /\ m.tonal_zones[b].note \in 0..NSEMITONES-1
  /\ Drumset \in [NoteIdx -> 0..127]

VARIABLES
  phase,         \* where the musician is
  mfields,       \* which musician it is
  prev_octave,   \* the octave of the last note
  nm,            \* the measure the director asks for
  q, ignored,    \* compose_measure: the quarter, the arguments given up (i)
  quarter, s, i, \* the quarter it took, the semiquaver it comes to, the position
  measure,       \* pm.measure
  unchanged_fst, \* pm.unchanged_fst
  size,          \* pm.size
  last,          \* the notes of the last chord of the measure
  prev           \* prev_pm: whether there is one, its size, its last chord

askVars  == <<nm, q, ignored>>
walkVars == <<quarter, s, i>>
pmVars   == <<measure, unchanged_fst, size, last>>
vars == <<phase, mfields, prev_octave, askVars, walkVars, pmVars, prev>>

(* A note of the measure.  "at" is not in the code: it records where in the *)
(* measure the note begins, for the invariants, and no step reads it.       *)
Note == [at : Nat, tempo : Nat \ {0}]

Chord == SUBSET (0..255)

NoQuarter == [sqs |-> <<>>]

sqs == quarter.sqs

TypeOK ==
  /\ phase \in {"recv", "query", "compose", "failed", "crashed", "left"}
  /\ mfields \in Musicians
  /\ prev_octave \in Int
  /\ phase \in {"query", "compose"} => nm \in Measures
  /\ q \in Nat /\ ignored \in 0..QUARTER_QUERY_ARGS + 1
  /\ quarter \in Quarters \union {NoQuarter}
  /\ s \in Nat \ {0} /\ i \in 0..SQS_IN_Q-1
  /\ measure \in Seq(Note)
  /\ unchanged_fst \in BOOLEAN
  /\ size \in Nat
  /\ last \in Chord
  /\ prev \in [exists : BOOLEAN, size : Nat, last : Chord]

Init ==
  /\ phase = "recv"
  /\ mfields \in Musicians
  /\ prev_octave = NoOctave
  /\ nm = <<>> /\ q = 0 /\ ignored = 0
  /\ quarter = NoQuarter /\ s = 1 /\ i = 0
  /\ measure = <<>> /\ unchanged_fst = FALSE /\ size = 0 /\ last = {}
  /\ prev = [exists |-> FALSE, size |-> 0, last |-> {}]

-----------------------------------------------------------------------------
(* main: the measure becomes the one before, and a new one is asked for.    *)
RecvMeasure(m) ==
  /\ phase = "recv"
  /\ prev' = [exists |-> measure # <<>>, size |-> size, last |-> last]
  /\ nm' = m /\ q' = 0 /\ ignored' = 0
  /\ measure' = <<>> /\ unchanged_fst' = FALSE /\ size' = 0 /\ last' = {}
  /\ phase' = "query"
  /\ UNCHANGED <<mfields, prev_octave, walkVars>>

EndOfImprovisation ==
  /\ phase = "recv"
  /\ phase' = "left"
  /\ UNCHANGED <<mfields, prev_octave, askVars, walkVars, pmVars, prev>>

-----------------------------------------------------------------------------
(* The quarters of the database.                                            *)

(* The tags of a measure are the genre, the dynamics and the mood; the      *)
(* genre is taken for the dynamics and the dynamics for the genre.          *)
QuarterArgs(m, b, instrument) ==
  [pos |-> b, instr |-> instrument,
   cnote |-> m.chords[b].note, cmode |-> m.chords[b].mode,
   genre |-> m.tags[2], dyna |-> m.tags[1], mood |-> m.tags[3],
   scale |-> m.tonal_zones[b].scale, solo |-> m.soloist]

(* The musician's own priorities, if the database has any, are preferred.   *)
Priorities ==
  IF mfields.custom_prioargs # <<>> THEN mfields.custom_prioargs ELSE nm.prioargs

(* Nobody but the drummer plays a quarter that only the drums have.         *)
ForInstrument(r) ==
  mfields.instrument = INSTRUMENT_DRUM \/ r.accepts.instr \ {INSTRUMENT_DRUM} # {}

(* The k least important arguments are ignored.  (Mutant: the most          *)
(* important.)                                                              *)
HeededHighestFirst(p, k) == {p[j] : j \in 1..Len(p) - k}

Heeded(p, k) == {p[j] : j \in k + 1..Len(p)}

GetQuarters(args, p, k) ==
  {r \in Quarters : ForInstrument(r) /\ \A a \in Heeded(p, k) : args[a] \in r.accepts[a]}

(* (Mutant: the same ones are ignored again.)                               *)
NextIgnoredStuck == ignored

NextIgnored == ignored + 1

(* One query.  The quarter is refused if it has more semiquavers than the   *)
(* measure has quarters (sq_size > max_sqcount / SQS_IN_Q).                 *)
TryQuarters ==
  /\ phase = "query"
  /\ LET found == GetQuarters(QuarterArgs(nm, q, mfields.instrument), Priorities, ignored)
     IN IF found # {}
        THEN \E r \in found :
               /\ quarter' = r /\ s' = 1 /\ i' = 0
               /\ phase' = IF r.sqs = <<>> \/ Len(r.sqs) > MaxSqcount(nm.tempo) \div SQS_IN_Q
                           THEN "failed" ELSE "compose"
               /\ UNCHANGED ignored
        ELSE /\ ignored' = NextIgnored
             /\ phase' = IF ignored < QUARTER_QUERY_ARGS THEN "query" ELSE "failed"
             /\ UNCHANGED walkVars
  /\ UNCHANGED <<mfields, prev_octave, nm, q, pmVars, prev>>

-----------------------------------------------------------------------------
(* The decisions (musician_improviser.cpp).                                 *)

(* The lower limit comes last and wins.                                     *)
AtMost(n, high) == IF n > high THEN high ELSE n

Clamp(n, low, high) == IF AtMost(n, high) < low THEN low ELSE AtMost(n, high)

(* Up to two octaves away from the one before; the first one is about the   *)
(* middle.  (Mutant: it is not kept in the range.)                          *)
StartOctave ==
  IF prev_octave = NoOctave
  THEN (mfields.octave_max - mfields.octave_min) \div 2 + mfields.octave_min
  ELSE prev_octave

DecideOctaveUnbound ==
  {StartOctave + jump : jump \in -OCTAVE_MAX_JUMP..OCTAVE_MAX_JUMP}

DecideOctave ==
  {Clamp(StartOctave + jump, mfields.octave_min, mfields.octave_max) :
     jump \in -OCTAVE_MAX_JUMP..OCTAVE_MAX_JUMP}

(* One note.  What is out of the range after an octave's correction is -1,  *)
(* the caller's test of which never holds for a byte.  (Mutant: no          *)
(* correction.)                                                             *)
Byte(n) == n % 256

InRange(n) == IF n < MIDI_FIRST_NOTE \/ n > MIDI_LAST_NOTE THEN -1 ELSE n

NoteToMidiUncorrected(idx, key_note, octave) ==
  Byte(MIDI_FIRST_NOTE + NSEMITONES * octave + key_note + idx - 1)

NoteToMidi(idx, key_note, octave) ==
  LET midi == MIDI_FIRST_NOTE + NSEMITONES * octave + key_note + idx - 1
  IN Byte(InRange(IF midi < MIDI_FIRST_NOTE THEN midi + NSEMITONES
                  ELSE IF midi > MIDI_LAST_NOTE THEN midi - NSEMITONES ELSE midi))

Rest == [notes |-> {MIDI_REST_NOTE}, octave |-> prev_octave]

(* A chord: the lowest notes of the mode, as many as the draw says, each    *)
(* stored in a byte.                                                        *)
LowestOf(mode, n) == {p \in mode : Cardinality({r \in mode : r < p}) < n}

ChordSizes(mode) ==
  Min({Cardinality(mode), MIN_CHORD_SIZE})..Min({Cardinality(mode), MAX_CHORD_SIZE})

ChordOn(base, mode, n) ==
  {Byte(base + step) : step \in {0} \union (LowestOf(mode, n) \ {Min(mode)})}

(* It is moved by as many octaves as the note farthest out of the range     *)
(* needs, to the side the last such note asks for: a note below the range   *)
(* is one whose byte began again at 0, with all that follow, or else        *)
(* none is above.                                                           *)
OutBy(note) ==
  IF note > MIDI_LAST_NOTE THEN note - MIDI_LAST_NOTE
  ELSE IF note < MIDI_FIRST_NOTE THEN MIDI_FIRST_NOTE - note ELSE 0

Moved(notes, octave) ==
  LET far == Max({OutBy(note) : note \in notes})
      octaves == IF far > 0 THEN far \div NSEMITONES + 1 ELSE 0
      by == IF \E note \in notes : note < MIDI_FIRST_NOTE THEN octaves ELSE -octaves
  IN [notes |-> {Byte(note + NSEMITONES * by) : note \in notes}, octave |-> octave + by]

DecideChord(chord) ==
  {Moved(ChordOn(Min(chord.mode) + chord.note + MIDI_FIRST_NOTE + NSEMITONES * octave,
                 chord.mode, n), octave) :
     octave \in DecideOctave, n \in ChordSizes(chord.mode)}

KeyNote == IF nm.soloist THEN nm.tonal_zones[q].note ELSE nm.chords[q].note

(* What a new note of the semiquaver may be, and the octave it leaves.      *)
DecideNote(sq) ==
  IF mfields.instrument = INSTRUMENT_DRUM
  THEN {[notes |-> {Drumset[d] : d \in hits}, octave |-> prev_octave] : hits \in SUBSET sq.pnote}
  ELSE (IF 0 \in sq.pnote THEN {Rest} ELSE {})
         \union (IF sq.pnote = {0} THEN {}
                 ELSE IF mfields.play_chords THEN DecideChord(nm.chords[q])
                 ELSE {[notes |-> {NoteToMidi(idx, KeyNote, octave)}, octave |-> octave] :
                         idx \in sq.pnote \ {0}, octave \in DecideOctave})

-----------------------------------------------------------------------------
(* compose_quarter: one semiquaver.                                         *)

More == s <= Len(sqs)

Here == More /\ sqs[s].position = i

(* The place in the measure.                                                *)
Elapsed == q * SQS_IN_Q + i

(* There is something before to be continued, and the semiquaver is not     *)
(* here, or does not change.                                                *)
MayContinue == (prev.exists \/ measure # <<>>) /\ (Here => ~sqs[s].sure)

(* A new note is begun, unless the last is continued.  With nothing to      *)
(* continue even a semiquaver that comes later begins one.                  *)
MayBegin == More /\ (Here \/ (~prev.exists /\ measure = <<>>))

(* assign_new_notes.  (Mutant: it lasts no time yet.)                       *)
BegunEmpty == Append(measure, [at |-> Elapsed, tempo |-> 0])

Begun == Append(measure, [at |-> Elapsed, tempo |-> 1])

(* The size is set if the array is made smaller.  (Mutant: it is smaller by *)
(* more than one.)                                                          *)
SizeIfMuchSmaller(count, max) == IF count < max - 1 THEN count ELSE 0

SizeOf(count, max) == IF count < max THEN count ELSE 0

(* The semiquaver is done with when its position is reached.  (Mutant: in   *)
(* any case.)                                                               *)
NextSqAlways == s + 1

NextSq == IF Here THEN s + 1 ELSE s

(* The next semiquaver, the next quarter, or the end of the measure.        *)
Advance ==
  /\ s' = NextSq
  /\ IF i + 1 < SQS_IN_Q
     THEN /\ i' = i + 1
          /\ UNCHANGED <<phase, q, ignored, size>>
     ELSE /\ i' = 0 /\ q' = q + 1 /\ ignored' = 0
          /\ IF q + 1 < MaxQuarters(nm.tempo)
             THEN phase' = "query" /\ UNCHANGED size
             ELSE phase' = "recv" /\ size' = SizeOf(Len(measure'), MaxSqcount(nm.tempo))

BeginNote ==
  /\ phase = "compose" /\ MayBegin
  /\ \E new \in DecideNote(sqs[s]) : last' = new.notes /\ prev_octave' = new.octave
  /\ measure' = Begun
  /\ Advance
  /\ UNCHANGED <<mfields, nm, quarter, unchanged_fst, prev>>

LengthenNote ==
  /\ phase = "compose" /\ MayContinue /\ measure # <<>>
  /\ measure' = [measure EXCEPT ![Len(measure)].tempo = @ + 1]
  /\ Advance
  /\ UNCHANGED <<mfields, nm, prev_octave, quarter, unchanged_fst, last, prev>>

(* The last chord of the measure before is held over the bar line.          *)
HoldOver ==
  /\ phase = "compose" /\ MayContinue /\ measure = <<>>
  /\ prev.size > 0
  /\ last' = prev.last /\ unchanged_fst' = TRUE
  /\ measure' = Begun
  /\ Advance
  /\ UNCHANGED <<mfields, nm, prev_octave, quarter, prev>>

(* The size of the measure before is 0: its note -1 is read.                *)
HoldOverCrashes ==
  /\ phase = "compose" /\ MayContinue /\ measure = <<>>
  /\ prev.size = 0
  /\ phase' = "crashed"
  /\ UNCHANGED <<mfields, prev_octave, askVars, walkVars, pmVars, prev>>

ComposeMeasure == TryQuarters \/ BeginNote \/ LengthenNote \/ HoldOver \/ HoldOverCrashes

Ended == phase \in {"failed", "crashed", "left"} /\ UNCHANGED vars

Next == (\E m \in Measures : RecvMeasure(m)) \/ EndOfImprovisation \/ ComposeMeasure \/ Ended

Spec == Init /\ [][Next]_vars

(* The musician is one thread, which does not wait while it composes.       *)
FairSpec == Spec /\ WF_vars(ComposeMeasure)

-----------------------------------------------------------------------------
(* Properties.                                                              *)

(* The notes of a measure follow one another without gap or overlap, and    *)
(* last exactly as long as what has been walked through of it; in the end   *)
(* that is the measure the director asked for (the player adds the tempos   *)
(* up, and would lose the others otherwise).                                *)
Ends(note) == note.at + note.tempo

Filled ==
  /\ \A k \in 1..Len(measure) - 1 : measure[k + 1].at = Ends(measure[k])
  /\ IF measure = <<>> THEN Elapsed = 0
     ELSE measure[1].at = 0 /\ Ends(measure[Len(measure)]) = Elapsed
  /\ phase = "recv" /\ measure # <<>> => Elapsed = MaxSqcount(nm.tempo)

(* The rhythm is the one of the database: in the quarter it has come to, a  *)
(* note begins at each semiquaver that is sure to change, and nowhere but   *)
(* at a semiquaver; save for the first note of a measure.                   *)
Walked == phase \in {"recv", "query"} \/ (phase = "compose" /\ i > 0)

QuarterStart == (IF i = 0 THEN q - 1 ELSE q) * SQS_IN_Q

BegunInQuarter ==
  {t \in 0..SQS_IN_Q - 1 : \E k \in 1..Len(measure) : measure[k].at = QuarterStart + t}

RhythmKept ==
  Walked /\ Elapsed > 0 =>
    LET passed == {k \in 1..Len(sqs) : QuarterStart + sqs[k].position < Elapsed}
    IN /\ {sqs[k].position : k \in {j \in passed : sqs[j].sure}} \subseteq BegunInQuarter
       /\ BegunInQuarter \subseteq {sqs[k].position : k \in passed}
                                    \union (IF QuarterStart = 0 THEN {0} ELSE {})

(* The arguments of the director are given up only as far as they must be:  *)
(* no quarter of the database meets more of them, from the most important   *)
(* down, than the one that is taken (Report/core/thinking_mus.tex,112-116). *)
MetInARow(r) ==
  LET args == QuarterArgs(nm, q, mfields.instrument)
      p    == Priorities
  IN Max({n \in 0..Len(p) : \A j \in 0..n - 1 : args[p[Len(p) - j]] \in r.accepts[p[Len(p) - j]]})

BestMatch ==
  phase = "compose" => \A r \in Quarters : ForInstrument(r) => MetInARow(r) <= MetInARow(quarter)

(* A note that is played is in the range of a keyboard or is a rest, if the *)
(* octaves are such as the database has: the -1 that note_to_midi returns   *)
(* for another one is never seen, and would be played as the pitch 255.     *)
DatabaseOctaves == mfields.octave_min \in 0..7 /\ mfields.octave_max \in 0..7

PitchInRange ==
  DatabaseOctaves /\ mfields.instrument # INSTRUMENT_DRUM =>
    last \subseteq MIDI_FIRST_NOTE..MIDI_LAST_NOTE \union {MIDI_REST_NOTE}

(* An octave once decided is never -1 again, which decide_octave would take *)
(* for none and for which store_gmeasure (musician_genetic.cpp:155) gives   *)
(* up: however many octaves a chord is moved, for any octaves that are not  *)
(* negative.                                                                *)
OctaveStays ==
  [][mfields.octave_min >= 0 /\ prev_octave # NoOctave => prev_octave' # NoOctave]_prev_octave

(* The size of a measure is lost, and with it all its notes, only if there  *)
(* is a note at each of its semiquavers; only after such a measure does     *)
(* HoldOver find no note.                                                   *)
SizeKnown ==
  phase = "recv" /\ measure # <<>> =>
    \/ size = Len(measure)
    \/ size = 0 /\ \A k \in 1..Len(measure) : measure[k].tempo = 1

(* A measure that was asked for is composed, or the musician ends.          *)
Composed == phase \in {"query", "compose"} ~> phase \in {"recv", "failed", "crashed"}

(* The payload of the tags is "genre;dynamics;mood" (structs.h:71): if the  *)
(* database has a quarter that meets everything the director asks for, such *)
(* a quarter is taken.                                                      *)
Asked(r) ==
  LET args == [QuarterArgs(nm, q, mfields.instrument) EXCEPT !.genre = nm.tags[1], !.dyna = nm.tags[2]]
  IN \A a \in Arg : args[a] \in r.accepts[a]

AskedIsTaken == phase = "compose" => ((\E r \in Quarters : Asked(r)) => Asked(quarter))
==============================================================================
