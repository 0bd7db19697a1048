---------------------------- MODULE ComposerProofs ----------------------------
(***************************************************************************)
(* The composition of a measure, for every database, musician and measure:  *)
(* the notes fill the measure, keep the rhythm of the database, are in the   *)
(* range of a keyboard, and the quarters match the director as well as can be. *)
(***************************************************************************)
EXTENDS Composer, SequenceTheorems, WellFoundedInduction, TLAPS

(* Where the musician is in the measure.                                    *)
Position ==
  /\ phase \in {"recv", "query"} => i = 0
  /\ phase \in {"query", "compose"} => q < MaxQuarters(nm.tempo)
  /\ phase = "query" => ignored <= QUARTER_QUERY_ARGS
  /\ phase = "compose" => quarter \in Quarters
  /\ measure # <<>> => nm \in Measures

(* There are no more notes than semiquavers walked through, and as many     *)
(* only if each lasts one; none begins later.                               *)
Counted ==
  /\ Len(measure) <= Elapsed
  /\ Len(measure) = Elapsed => \A k \in 1..Len(measure) : measure[k].tempo = 1
  /\ \A k \in 1..Len(measure) : measure[k].at < Elapsed

(* What may sound.                                                          *)
Playable(chord) ==
  DatabaseOctaves /\ mfields.instrument # INSTRUMENT_DRUM =>
    chord \subseteq MIDI_FIRST_NOTE..MIDI_LAST_NOTE \union {MIDI_REST_NOTE}

Voice == Playable(last) /\ Playable(prev.last)

(* The semiquavers before the one it comes to are those already passed.     *)
Passed ==
  phase = "compose" => \A k \in 1..Len(sqs) : k < s <=> sqs[k].position < i

(* Nothing was found with more arguments than those it tries.               *)
Searched ==
  phase = "query" =>
    \A k \in 0..ignored - 1 :
      GetQuarters(QuarterArgs(nm, q, mfields.instrument), Priorities, k) = {}

IInv == /\ TypeOK /\ Position /\ Filled /\ Counted /\ SizeKnown /\ Voice
        /\ Passed /\ RhythmKept /\ Searched /\ BestMatch

-----------------------------------------------------------------------------
(* A set of natural numbers has a least one, and a set of bytes a largest.  *)
Less == {pair \in Nat \X Nat : pair[1] < pair[2]}

LEMMA LessWellFounded == IsWellFoundedOn(Less, Nat)
BY NatLessThanWellFounded DEF Less, OpToRel

LEMMA HasLeast ==
  ASSUME NEW S \in SUBSET Nat, S # {}
  PROVE  \E x \in S : \A y \in S : x <= y
<1>1. PICK x \in S : \A y \in S : ~(<<y, x>> \in Less)
  BY LessWellFounded, WFMin
<1>2. \A y \in S : ~ (y < x)
  BY <1>1 DEF Less
<1> QED BY <1>2

LEMMA MinOfSteps ==
  ASSUME NEW S \in SUBSET Nat, S # {}
  PROVE  Min(S) \in S /\ \A y \in S : Min(S) <= y
BY HasLeast DEF Min

LEMMA MaxOfBytes ==
  ASSUME NEW S \in SUBSET (0..255), S # {}
  PROVE  Max(S) \in S /\ \A y \in S : Max(S) >= y
<1> DEFINE T == {255 - x : x \in S}
<1>1. T \in SUBSET Nat /\ T # {}
  <2>1. PICK x \in S : TRUE
    OBVIOUS
  <2>2. 255 - x \in T
    OBVIOUS
  <2>3. \A y \in S : 255 - y \in Nat
    OBVIOUS
  <2> QED BY <2>2, <2>3
<1>2. PICK t \in T : \A y \in T : t <= y
  <2> HIDE DEF T
  <2> QED BY <1>1, HasLeast
<1>3. PICK x \in S : t = 255 - x
  OBVIOUS
<1>4. \A y \in S : 255 - y \in T
  OBVIOUS
<1> HIDE DEF T
<1>5. \A y \in S : x >= y
  BY <1>2, <1>3, <1>4
<1> QED BY <1>5 DEF Max

-----------------------------------------------------------------------------
(* The decisions.                                                           *)
LEMMA OctaveDecided ==
  ASSUME TypeOK, NEW octave \in DecideOctave
  PROVE  /\ octave \in Int /\ octave >= mfields.octave_min
         /\ DatabaseOctaves => octave \in 0..7
<1>1. mfields.octave_min \in Int /\ mfields.octave_max \in Int
  BY ComposerAssumption DEF TypeOK
<1>2. StartOctave \in Int
  BY <1>1 DEF StartOctave, TypeOK
<1>3. PICK jump \in -OCTAVE_MAX_JUMP..OCTAVE_MAX_JUMP :
        octave = Clamp(StartOctave + jump, mfields.octave_min, mfields.octave_max)
  BY DEF DecideOctave
<1> QED BY <1>1, <1>2, <1>3 DEF Clamp, AtMost, OCTAVE_MAX_JUMP, DatabaseOctaves

LEMMA ByteIs ==
  ASSUME NEW n \in Int
  PROVE  /\ Byte(n) \in 0..255
         /\ n \in 0..255 => Byte(n) = n
         /\ n \in Nat => Byte(n) <= n
BY DEF Byte

LEMMA NoteDecided ==
  ASSUME NEW idx \in 1..12, NEW key_note \in 0..11, NEW octave \in Int
  PROVE  /\ NoteToMidi(idx, key_note, octave) \in 0..255
         /\ octave \in 0..7 => NoteToMidi(idx, key_note, octave) \in MIDI_FIRST_NOTE..MIDI_LAST_NOTE
<1> DEFINE midi == MIDI_FIRST_NOTE + NSEMITONES * octave + key_note + idx - 1
           kept == InRange(IF midi < MIDI_FIRST_NOTE THEN midi + NSEMITONES
                           ELSE IF midi > MIDI_LAST_NOTE THEN midi - NSEMITONES ELSE midi)
<1>1. kept \in Int
  BY DEF InRange, MIDI_FIRST_NOTE, MIDI_LAST_NOTE, NSEMITONES
<1>2. octave \in 0..7 => kept \in 12..108
  BY SMTT(30) DEF InRange, MIDI_FIRST_NOTE, MIDI_LAST_NOTE, NSEMITONES
<1>3. NoteToMidi(idx, key_note, octave) = Byte(kept)
  BY DEF NoteToMidi
<1> HIDE DEF kept
<1> QED BY <1>1, <1>2, <1>3, ByteIs DEF MIDI_FIRST_NOTE, MIDI_LAST_NOTE

(* How far a chord is moved: there is a note as far out of the range as any. *)
LEMMA Farthest ==
  ASSUME NEW notes \in SUBSET (0..255), notes # {}
  PROVE  LET far == Max({OutBy(note) : note \in notes})
         IN  /\ far \in 0..147
             /\ \E top \in notes : far = OutBy(top)
             /\ \A note \in notes : OutBy(note) <= far
<1> DEFINE outs == {OutBy(note) : note \in notes}
<1>1. \A note \in 0..255 : OutBy(note) \in 0..147
  BY DEF OutBy, MIDI_FIRST_NOTE, MIDI_LAST_NOTE
<1>2. outs \in SUBSET (0..147) /\ outs # {}
  BY <1>1
<1>3. Max(outs) \in outs /\ \A y \in outs : Max(outs) >= y
  <2> HIDE DEF outs
  <2>1. outs \in SUBSET (0..255)
    BY <1>2
  <2> QED BY <1>2, <2>1, MaxOfBytes
<1> QED BY <1>1, <1>2, <1>3

(* A chord within eleven semitones and not below the range is moved into it. *)
LEMMA MovedIntoRange ==
  ASSUME NEW b \in 12..118, NEW notes \in SUBSET (b..b + 11), notes # {}, NEW octave \in Int
  PROVE  Moved(notes, octave).notes \subseteq MIDI_FIRST_NOTE..MIDI_LAST_NOTE
<1> DEFINE far == Max({OutBy(note) : note \in notes})
           octaves == IF far > 0 THEN far \div NSEMITONES + 1 ELSE 0
<1>1. notes \in SUBSET (0..255) /\ \A note \in notes : note \in b..b + 11 /\ note >= 12
  OBVIOUS
<1>2. /\ far \in 0..147
      /\ \E top \in notes : far = OutBy(top)
      /\ \A note \in notes : OutBy(note) <= far
  BY <1>1, Farthest
<1> HIDE DEF far
<1>3. PICK top \in notes : far = OutBy(top)
  BY <1>2
<1>4. far > 0 => top = 108 + far
  BY <1>1, <1>3 DEF OutBy, MIDI_FIRST_NOTE, MIDI_LAST_NOTE
<1>5. octaves \in 0..13 /\ (far = 0 => octaves = 0)
      /\ (far > 0 => 12 * octaves >= far /\ 12 * octaves <= far + 12)
  BY <1>2, SMTT(30) DEF NSEMITONES
<1>6. ~ \E note \in notes : note < MIDI_FIRST_NOTE
  BY <1>1 DEF MIDI_FIRST_NOTE
<1>7. Moved(notes, octave).notes = {Byte(note + NSEMITONES * (-octaves)) : note \in notes}
  BY <1>6 DEF Moved, far
<1> HIDE DEF octaves
<1>8. ASSUME NEW note \in notes PROVE Byte(note + NSEMITONES * (-octaves)) \in 12..108
  <2>1. OutBy(note) <= far /\ note \in b..b + 11 /\ top \in b..b + 11 /\ note >= 12
    BY <1>1, <1>2
  <2>2. note <= 108 + far
    BY <1>2, <2>1 DEF OutBy, MIDI_FIRST_NOTE, MIDI_LAST_NOTE
  <2>3. note - 12 * octaves \in 12..108
    BY <1>2, <1>4, <1>5, <2>1, <2>2
  <2>4. note + NSEMITONES * (-octaves) = note - 12 * octaves
    BY <1>5, <2>1 DEF NSEMITONES
  <2> QED BY <2>3, <2>4, ByteIs
<1> QED BY <1>7, <1>8 DEF MIDI_FIRST_NOTE, MIDI_LAST_NOTE

(* The octave of a chord that begins in one that is not negative does not   *)
(* become negative.                                                         *)
LEMMA MovedOctave ==
  ASSUME NEW octave \in Nat, NEW b \in Nat, b <= 12 * octave + 34,
         NEW S \in SUBSET (0..11), S # {}
  PROVE  Moved({Byte(b + step) : step \in S}, octave).octave \in Nat
<1> DEFINE notes == {Byte(b + step) : step \in S}
           far == Max({OutBy(note) : note \in notes})
           octaves == IF far > 0 THEN far \div NSEMITONES + 1 ELSE 0
           below == \E note \in notes : note < MIDI_FIRST_NOTE
<1>1. notes \in SUBSET (0..255) /\ notes # {}
  <2>1. \A step \in S : Byte(b + step) \in 0..255
    BY ByteIs
  <2> QED BY <2>1
<1>2. PICK top \in notes : far \in 0..147 /\ far = OutBy(top)
  BY <1>1, Farthest
<1>3. PICK step \in S : top = Byte(b + step)
  OBVIOUS
<1>4. Moved(notes, octave).octave = octave + (IF below THEN octaves ELSE -octaves)
  BY DEF Moved
<1> SUFFICES Moved(notes, octave).octave \in Nat
  OBVIOUS
<1> HIDE DEF notes, far, below
<1>5. octaves \in 0..13 /\ (far > 0 => 12 * octaves <= far + 12)
  BY <1>2, SMTT(30) DEF NSEMITONES
<1>6. CASE below
  BY <1>4, <1>5, <1>6
<1>7. CASE ~below /\ far > 0
  <2>1. top = 108 + far
    BY <1>1, <1>2, <1>7 DEF OutBy, below, MIDI_FIRST_NOTE, MIDI_LAST_NOTE
  <2>2. top <= b + step /\ step \in 0..11
    BY <1>3, ByteIs
  <2>3. octaves <= octave
    BY <1>2, <1>5, <1>7, <2>1, <2>2
  <2> QED BY <1>4, <1>5, <1>7, <2>3
<1>8. CASE far = 0
  <2>1. octaves = 0
    BY <1>8
  <2> QED BY <1>4, <2>1
<1>9. far = 0 \/ far > 0
  BY <1>2
<1> QED BY <1>6, <1>7, <1>8, <1>9

(* A chord is in the range for the database's octaves; for any that are not *)
(* negative the octave it leaves is not either.                             *)
LEMMA ChordDecided ==
  ASSUME TypeOK, NEW chord, chord.note \in 0..11, chord.mode \in (SUBSET (0..11)) \ {{}},
         NEW new \in DecideChord(chord)
  PROVE  /\ new.notes \in Chord /\ new.octave \in Int
         /\ DatabaseOctaves => new.notes \subseteq MIDI_FIRST_NOTE..MIDI_LAST_NOTE
         /\ mfields.octave_min >= 0 => new.octave \in Nat
<1>1. PICK octave \in DecideOctave, n \in ChordSizes(chord.mode) :
        new = Moved(ChordOn(Min(chord.mode) + chord.note + MIDI_FIRST_NOTE + NSEMITONES * octave,
                            chord.mode, n), octave)
  BY DEF DecideChord
<1>2. /\ octave \in Int /\ octave >= mfields.octave_min
      /\ DatabaseOctaves => octave \in 0..7
      /\ mfields.octave_min \in Int
  BY OctaveDecided, ComposerAssumption DEF TypeOK
<1>3. Min(chord.mode) \in 0..11
  <2>1. chord.mode \in SUBSET (0..11) /\ chord.mode # {}
    OBVIOUS
  <2>2. Min(chord.mode) \in chord.mode
    BY <2>1, MinOfSteps
  <2> QED BY <2>1, <2>2
<1> DEFINE b == Min(chord.mode) + chord.note + MIDI_FIRST_NOTE + NSEMITONES * octave
           S == {0} \union (LowestOf(chord.mode, n) \ {Min(chord.mode)})
           notes == {Byte(b + step) : step \in S}
<1>4. b \in Int /\ b >= 12 * octave + 12 /\ b <= 12 * octave + 34
  BY <1>2, <1>3 DEF MIDI_FIRST_NOTE, NSEMITONES
<1>5. S \in SUBSET (0..11) /\ S # {}
  BY DEF LowestOf
<1>6. new = Moved(notes, octave)
  BY <1>1 DEF ChordOn
<1> HIDE DEF b, S
<1>7. ASSUME NEW step \in S
      PROVE  /\ step \in 0..11 /\ Byte(b + step) \in 0..255
             /\ b + step \in 0..255 => Byte(b + step) = b + step
  <2>1. step \in 0..11 /\ b + step \in Int
    BY <1>4, <1>5
  <2> QED BY <2>1, ByteIs
<1>8. notes \in SUBSET (0..255) /\ notes # {}
  BY <1>5, <1>7
<1>9. new.notes \in Chord /\ new.octave \in Int
  <2> DEFINE far == Max({OutBy(note) : note \in notes})
             octaves == IF far > 0 THEN far \div NSEMITONES + 1 ELSE 0
             by == IF \E note \in notes : note < MIDI_FIRST_NOTE THEN octaves ELSE -octaves
  <2>1. far \in 0..147
    BY <1>8, Farthest
  <2>2. new = [notes |-> {Byte(note + NSEMITONES * by) : note \in notes}, octave |-> octave + by]
    BY <1>6 DEF Moved
  <2> HIDE DEF far, notes
  <2>3. by \in Int
    BY <2>1, SMTT(30) DEF NSEMITONES
  <2> HIDE DEF by
  <2>4. \A note \in notes : Byte(note + NSEMITONES * by) \in 0..255
    BY <1>8, <2>3, ByteIs DEF NSEMITONES
  <2> QED BY <1>2, <2>2, <2>3, <2>4 DEF Chord
<1>10. ASSUME DatabaseOctaves PROVE new.notes \subseteq MIDI_FIRST_NOTE..MIDI_LAST_NOTE
  <2>1. b \in 12..118
    BY <1>2, <1>4, <1>10
  <2>2. notes \in SUBSET (b..b + 11)
    BY <1>7, <2>1
  <2> HIDE DEF notes
  <2> QED BY <1>2, <1>6, <1>8, <2>1, <2>2, MovedIntoRange
<1>11. ASSUME mfields.octave_min >= 0 PROVE new.octave \in Nat
  <2>1. octave \in Nat /\ b \in Nat
    BY <1>2, <1>4, <1>11
  <2> QED BY <1>4, <1>5, <1>6, <2>1, MovedOctave
<1> QED BY <1>9, <1>10, <1>11

(* What the position, the quarter and the measure are while it composes.    *)
LEMMA Composing ==
  ASSUME IInv, phase = "compose"
  PROVE  /\ SQS_IN_Q \in Nat \ {0}
         /\ nm \in Measures /\ MaxQuarters(nm.tempo) \in Nat \ {0}
         /\ q \in 0..MaxQuarters(nm.tempo) - 1
         /\ quarter \in Quarters /\ sqs \in Seq(Semiquaver) /\ InOrder(sqs)
         /\ mfields \in Musicians
         /\ Elapsed \in Nat
<1>1. SQS_IN_Q \in Nat \ {0}
  BY ComposerAssumption
<1>2. nm \in Measures /\ q \in Nat /\ q < MaxQuarters(nm.tempo) /\ i \in 0..SQS_IN_Q-1
  BY DEF IInv, TypeOK, Position
<1>3. MaxQuarters(nm.tempo) \in Nat \ {0}
  BY <1>2, ComposerAssumption
<1>4. quarter \in Quarters /\ mfields \in Musicians
  BY DEF IInv, TypeOK, Position
<1>5. sqs \in Seq(Semiquaver) /\ InOrder(sqs)
  BY <1>4, ComposerAssumption DEF sqs
<1>6. q * SQS_IN_Q \in Nat
  BY <1>1, <1>2
<1>7. Elapsed \in Nat
  BY <1>1, <1>2, <1>6 DEF Elapsed
<1> QED BY <1>1, <1>2, <1>3, <1>4, <1>5, <1>7

LEMMA Decided ==
  ASSUME IInv, phase = "compose", More, NEW new \in DecideNote(sqs[s])
  PROVE  /\ new.notes \in Chord /\ new.octave \in Int
         /\ Playable(new.notes)
         /\ mfields.octave_min >= 0 /\ prev_octave # NoOctave => new.octave # NoOctave
<1> USE DEF IInv
<1>1. /\ sqs[s] \in Semiquaver /\ prev_octave \in Int /\ mfields \in Musicians
      /\ mfields.octave_min \in Int /\ q \in 0..MaxQuarters(nm.tempo) - 1 /\ nm \in Measures
  BY Composing, ComposerAssumption DEF More, TypeOK
<1>2. sqs[s].pnote \subseteq 0..12
  BY <1>1 DEF Semiquaver, NoteIdx, NSEMITONES
<1>3. /\ nm.chords[q].note \in 0..11 /\ nm.chords[q].mode \in (SUBSET (0..11)) \ {{}}
      /\ nm.tonal_zones[q].note \in 0..11
  BY <1>1, ComposerAssumption DEF NSEMITONES
<1>4. CASE mfields.instrument = INSTRUMENT_DRUM
  <2>1. PICK hits \in SUBSET sqs[s].pnote :
          new = [notes |-> {Drumset[d] : d \in hits}, octave |-> prev_octave]
    BY <1>4 DEF DecideNote
  <2>2. \A d \in hits : Drumset[d] \in 0..255
    <3>1. Drumset \in [0..12 -> 0..127]
      BY ComposerAssumption DEF NoteIdx, NSEMITONES
    <3> QED BY <1>2, <3>1
  <2> QED BY <1>1, <1>4, <2>1, <2>2 DEF Chord, Playable
<1>5. CASE new = Rest
  BY <1>1, <1>5 DEF Rest, Chord, Playable, MIDI_REST_NOTE
<1>6. CASE mfields.play_chords /\ new \in DecideChord(nm.chords[q])
  <2>1. /\ new.notes \in Chord /\ new.octave \in Int
        /\ DatabaseOctaves => new.notes \subseteq MIDI_FIRST_NOTE..MIDI_LAST_NOTE
        /\ mfields.octave_min >= 0 => new.octave \in Nat
    BY <1>3, <1>6, ChordDecided
  <2> QED BY <2>1 DEF Playable, MIDI_FIRST_NOTE, MIDI_LAST_NOTE, NoOctave
<1>7. CASE new \in {[notes |-> {NoteToMidi(idx, KeyNote, octave)}, octave |-> octave] :
                       idx \in sqs[s].pnote \ {0}, octave \in DecideOctave}
  <2>1. PICK idx \in sqs[s].pnote \ {0}, octave \in DecideOctave :
          new = [notes |-> {NoteToMidi(idx, KeyNote, octave)}, octave |-> octave]
    BY <1>7
  <2>2. idx \in 1..12 /\ KeyNote \in 0..11
    BY <1>2, <1>3 DEF KeyNote
  <2>3. /\ octave \in Int /\ octave >= mfields.octave_min
        /\ DatabaseOctaves => octave \in 0..7
    BY OctaveDecided
  <2>4. /\ NoteToMidi(idx, KeyNote, octave) \in 0..255
        /\ octave \in 0..7 => NoteToMidi(idx, KeyNote, octave) \in MIDI_FIRST_NOTE..MIDI_LAST_NOTE
    BY <2>2, <2>3, NoteDecided
  <2>5. new.notes \in Chord /\ new.octave = octave /\ Playable(new.notes)
    BY <2>1, <2>3, <2>4 DEF Chord, Playable
  <2> QED BY <1>1, <2>3, <2>5 DEF NoOctave
<1> QED BY <1>4, <1>5, <1>6, <1>7 DEF DecideNote

-----------------------------------------------------------------------------
(* Going on to the next semiquaver, quarter or measure.                     *)
LEMMA NextPlace ==
  ASSUME IInv, phase = "compose", Advance, nm' = nm, quarter' = quarter,
         measure' \in Seq(Note), measure' # <<>>
  PROVE  /\ Elapsed' = Elapsed + 1
         /\ s' \in Nat \ {0} /\ i' \in 0..SQS_IN_Q-1 /\ q' \in Nat
         /\ ignored' \in 0..QUARTER_QUERY_ARGS + 1 /\ size' \in Nat
         /\ phase' \in {"compose", "query", "recv"}
         /\ Position'
         /\ phase' = "recv" => Elapsed' = MaxSqcount(nm.tempo)
         /\ phase' # "recv" => size' = size
         /\ phase' = "recv" => size' = SizeOf(Len(measure'), MaxSqcount(nm.tempo))
         /\ QuarterStart' = q * SQS_IN_Q /\ Walked'
         /\ phase' = "query" => ignored' = 0
         /\ phase' = "compose" => i' = i + 1 /\ UNCHANGED <<q, ignored>>
<1> USE DEF Advance, Elapsed, Position, Walked, QuarterStart
<1>1. /\ q \in Nat /\ i \in 0..SQS_IN_Q-1 /\ s \in Nat \ {0} /\ size \in Nat
      /\ ignored \in 0..QUARTER_QUERY_ARGS + 1
      /\ SQS_IN_Q \in Nat \ {0} /\ q < MaxQuarters(nm.tempo)
      /\ MaxQuarters(nm.tempo) \in Nat /\ nm \in Measures /\ quarter \in Quarters
  BY Composing DEF IInv, TypeOK
<1>2. s' \in Nat \ {0}
  BY <1>1 DEF NextSq
<1>3. (q + 1) * SQS_IN_Q = q * SQS_IN_Q + SQS_IN_Q /\ q * SQS_IN_Q \in Nat
  BY <1>1
<1>4. CASE i + 1 < SQS_IN_Q
  <2>1. i' = i + 1 /\ UNCHANGED <<phase, q, ignored, size>>
    BY <1>4
  <2>2. i' \in 0..SQS_IN_Q-1 /\ i' # 0
    BY <1>1, <1>4, <2>1
  <2>3. Elapsed' = Elapsed + 1 /\ QuarterStart' = q * SQS_IN_Q
    <3> DEFINE x == q * SQS_IN_Q
    <3>1. Elapsed = x + i /\ Elapsed' = x + i' /\ QuarterStart' = x
      BY <2>1, <2>2
    <3>2. x \in Nat
      BY <1>3
    <3> HIDE DEF x, Elapsed, QuarterStart
    <3>3. Elapsed' = Elapsed + 1
      BY <1>1, <2>1, <3>1, <3>2
    <3> QED BY <3>1, <3>3 DEF x
  <2>4. Position'
    BY <1>1, <2>1
  <2>5. Walked'
    BY <1>1, <2>1
  <2> HIDE DEF Advance, Elapsed, Position, Walked, QuarterStart
  <2> QED BY <1>1, <1>2, <2>1, <2>2, <2>3, <2>4, <2>5
<1>5. CASE ~(i + 1 < SQS_IN_Q)
  <2>1. i = SQS_IN_Q - 1 /\ i' = 0 /\ q' = q + 1 /\ ignored' = 0
    BY <1>1, <1>5
  <2>2. Elapsed' = Elapsed + 1 /\ QuarterStart' = q * SQS_IN_Q
    <3>1. q' * SQS_IN_Q = q * SQS_IN_Q + SQS_IN_Q
      BY <1>3, <2>1
    <3>2. q' - 1 = q
      BY <1>1, <2>1
    <3>3. QuarterStart' = q * SQS_IN_Q
      BY <2>1, <3>2
    <3>4. Elapsed' = q * SQS_IN_Q + SQS_IN_Q
      BY <1>1, <1>3, <2>1, <3>1
    <3>5. Elapsed + 1 = q * SQS_IN_Q + SQS_IN_Q
      <4> DEFINE x == q * SQS_IN_Q
      <4>1. Elapsed = x + i /\ x \in Nat
        BY <1>3
      <4> HIDE DEF x, Elapsed
      <4>2. i + 1 = SQS_IN_Q /\ i \in Nat
        BY <1>1, <2>1
      <4>3. Elapsed + 1 = x + SQS_IN_Q
        BY <4>1, <4>2
      <4> QED BY <4>3 DEF x
    <3> QED BY <3>3, <3>4, <3>5
  <2>3. CASE q + 1 < MaxQuarters(nm.tempo)
    BY <1>1, <1>2, <1>5, <2>1, <2>2, <2>3 DEF QUARTER_QUERY_ARGS
  <2>4. CASE ~(q + 1 < MaxQuarters(nm.tempo))
    <3>1. q + 1 = MaxQuarters(nm.tempo) /\ phase' = "recv"
      BY <1>1, <1>5, <2>4
    <3>2. Elapsed' = MaxSqcount(nm.tempo)
      BY <1>1, <2>1, <3>1 DEF MaxSqcount
    <3>3. size' = SizeOf(Len(measure'), MaxSqcount(nm.tempo)) /\ size' \in Nat
      BY <1>5, <2>4 DEF SizeOf
    <3> QED BY <1>1, <1>2, <2>1, <2>2, <3>1, <3>2, <3>3 DEF QUARTER_QUERY_ARGS
  <2> QED BY <2>3, <2>4
<1> QED BY <1>4, <1>5

(* The semiquavers up to this one are passed.                               *)
LEMMA NextPassed ==
  ASSUME IInv, phase = "compose", NEW k \in 1..Len(sqs)
  PROVE  k < NextSq <=> sqs[k].position <= i
<1>1. /\ s \in Nat \ {0} /\ i \in Nat /\ Len(sqs) \in Nat
      /\ \A j \in 1..Len(sqs) : sqs[j].position \in Nat
      /\ \A j \in 1..Len(sqs) : j < s <=> sqs[j].position < i
      /\ \A j, l \in 1..Len(sqs) : j < l => sqs[j].position < sqs[l].position
  <2>1. \A j \in 1..Len(sqs) : sqs[j] \in Semiquaver
    BY Composing
  <2>2. \A j \in 1..Len(sqs) : sqs[j].position \in Nat
    BY <2>1, ComposerAssumption DEF Semiquaver
  <2> QED BY <2>2, Composing DEF IInv, TypeOK, Passed, InOrder
<1>2. CASE Here
  <2>1. s \in 1..Len(sqs) /\ sqs[s].position = i
    BY <1>1, <1>2 DEF Here, More
  <2>2. CASE k <= s
    <3>1. k < s + 1 /\ sqs[k].position <= i
      BY <1>1, <2>1, <2>2
    <3> QED BY <1>2, <3>1 DEF NextSq
  <2>3. CASE k > s
    <3>1. ~(k < s + 1) /\ sqs[k].position > i
      BY <1>1, <2>1, <2>3
    <3> QED BY <1>1, <1>2, <3>1 DEF NextSq
  <2> QED BY <1>1, <2>2, <2>3
<1>3. CASE ~Here
  <2>1. sqs[k].position # i
    <3> SUFFICES ASSUME sqs[k].position = i PROVE FALSE
      OBVIOUS
    <3>1. k >= s
      BY <1>1
    <3>2. s \in 1..Len(sqs)
      BY <1>1, <3>1
    <3>3. k = s
      BY <1>1, <3>1, <3>2
    <3> QED BY <1>3, <3>2, <3>3 DEF Here, More
  <2> QED BY <1>1, <1>3, <2>1 DEF NextSq
<1> QED BY <1>2, <1>3

(* Where notes begin in a quarter against its semiquavers before position n. *)
InRhythm(begun, start, n) ==
  /\ \A k \in 1..Len(sqs) : sqs[k].position < n /\ sqs[k].sure => sqs[k].position \in begun
  /\ \A t \in begun : \/ start = 0 /\ t = 0
                      \/ \E k \in 1..Len(sqs) : sqs[k].position < n /\ sqs[k].position = t

BegunFrom(start) ==
  {t \in 0..SQS_IN_Q - 1 : \E k \in 1..Len(measure) : measure[k].at = start + t}

LEMMA RhythmBefore ==
  ASSUME IInv, phase = "compose"
  PROVE  InRhythm(BegunFrom(q * SQS_IN_Q), q * SQS_IN_Q, i)
<1> DEFINE start == q * SQS_IN_Q
<1>1. /\ i \in 0..SQS_IN_Q - 1 /\ start \in Nat /\ Elapsed = start + i
      /\ \A k \in 1..Len(sqs) : sqs[k].position \in 0..SQS_IN_Q - 1
  <2>1. \A k \in 1..Len(sqs) : sqs[k] \in Semiquaver
    BY Composing
  <2>2. \A k \in 1..Len(sqs) : sqs[k].position \in 0..SQS_IN_Q - 1
    BY <2>1 DEF Semiquaver
  <2>3. q \in Nat /\ SQS_IN_Q \in Nat \ {0} /\ i \in 0..SQS_IN_Q - 1
    BY Composing DEF IInv, TypeOK
  <2>4. start \in Nat
    BY <2>3
  <2> QED BY <2>2, <2>3, <2>4 DEF Elapsed
<1>2. CASE i = 0
  <2>1. \A k \in 1..Len(measure) : measure[k].at \in Nat /\ measure[k].at < start
    <3>1. \A k \in 1..Len(measure) : measure[k] \in Note
      BY DEF IInv, TypeOK
    <3>2. Elapsed = start
      BY <1>1, <1>2
    <3> QED BY <3>1, <3>2 DEF IInv, Counted, Note
  <2> HIDE DEF start
  <2>2. BegunFrom(start) = {}
    BY <1>1, <2>1 DEF BegunFrom
  <2>3. InRhythm({}, start, 0)
    BY <1>1 DEF InRhythm
  <2> QED BY <1>2, <2>2, <2>3 DEF start
<1>3. CASE i > 0
  <2>1. QuarterStart = start /\ Walked /\ Elapsed > 0
    BY <1>1, <1>3 DEF QuarterStart, Walked
  <2>2. BegunInQuarter = BegunFrom(start)
    BY <2>1 DEF BegunInQuarter, BegunFrom
  <2> DEFINE passed == {k \in 1..Len(sqs) : start + sqs[k].position < Elapsed}
  <2>3. /\ {sqs[k].position : k \in {j \in passed : sqs[j].sure}} \subseteq BegunFrom(start)
        /\ BegunFrom(start) \subseteq {sqs[k].position : k \in passed}
                                      \union (IF start = 0 THEN {0} ELSE {})
    BY <2>1, <2>2 DEF IInv, RhythmKept
  <2> HIDE DEF start
  <2>4. \A k \in 1..Len(sqs) : k \in passed <=> sqs[k].position < i
    BY <1>1
  <2> HIDE DEF passed
  <2>5. passed \subseteq 1..Len(sqs)
    BY DEF passed
  <2>6. InRhythm(BegunFrom(start), start, i)
    BY <2>3, <2>4, <2>5 DEF InRhythm
  <2> QED BY <2>6 DEF start
<1> QED BY <1>1, <1>2, <1>3

(* And the other way round after the step.                                  *)
LEMMA RhythmAfter ==
  ASSUME NEW start \in Nat, QuarterStart' = start, Elapsed' = start + i + 1,
         i \in 0..SQS_IN_Q - 1, quarter' = quarter,
         \A k \in 1..Len(sqs) : sqs[k].position \in Nat,
         InRhythm(BegunFrom(start)', start, i + 1)
  PROVE  RhythmKept'
<1>1. sqs' = sqs
  BY DEF sqs
<1> DEFINE passed == {k \in 1..Len(sqs) : start + sqs[k].position < start + i + 1}
<1>2. \A k \in 1..Len(sqs) : k \in passed <=> sqs[k].position < i + 1
  OBVIOUS
<1>3. BegunInQuarter' = BegunFrom(start)'
  BY DEF BegunInQuarter, BegunFrom
<1>4. passed = {k \in 1..Len(sqs') : QuarterStart' + sqs'[k].position < Elapsed'}
  BY <1>1
<1>5. passed \subseteq 1..Len(sqs)
  OBVIOUS
<1> HIDE DEF passed
<1>6. {sqs[k].position : k \in {j \in passed : sqs[j].sure}} \subseteq BegunFrom(start)'
  BY <1>2, <1>5 DEF InRhythm
<1>7. BegunFrom(start)' \subseteq {sqs[k].position : k \in passed}
                                  \union (IF start = 0 THEN {0} ELSE {})
  BY <1>2, <1>5 DEF InRhythm
<1> QED BY <1>1, <1>3, <1>4, <1>6, <1>7 DEF RhythmKept

-----------------------------------------------------------------------------
(* The notes of the measure.                                                *)
Chain(notes, elapsed) ==
  /\ \A k \in 1..Len(notes) - 1 : notes[k + 1].at = Ends(notes[k])
  /\ IF notes = <<>> THEN elapsed = 0
     ELSE notes[1].at = 0 /\ Ends(notes[Len(notes)]) = elapsed

LEMMA NoteBegun ==
  ASSUME IInv, phase = "compose", measure' = Begun, Elapsed' = Elapsed + 1
  PROVE  /\ measure' \in Seq(Note) /\ measure' # <<>>
         /\ Chain(measure', Elapsed') /\ Counted'
         /\ \A c \in Nat : Elapsed = c + i =>
              \A t \in 0..SQS_IN_Q - 1 :
                (\E k \in 1..Len(measure') : measure'[k].at = c + t) <=>
                  (t = i \/ \E k \in 1..Len(measure) : measure[k].at = c + t)
<1> DEFINE n == Len(measure)
           note == [at |-> Elapsed, tempo |-> 1]
<1>1. /\ Elapsed \in Nat /\ measure \in Seq(Note) /\ n \in Nat /\ i \in 0..SQS_IN_Q - 1
      /\ SQS_IN_Q \in Nat
      /\ \A k \in 1..n : measure[k] \in Note /\ measure[k].at \in Nat /\ measure[k].tempo \in Nat
  <2>1. measure \in Seq(Note)
    BY DEF IInv, TypeOK
  <2>2. \A k \in 1..n : measure[k] \in Note
    BY <2>1
  <2>3. \A k \in 1..n : measure[k].at \in Nat /\ measure[k].tempo \in Nat
    BY <2>2 DEF Note
  <2>4. Elapsed \in Nat /\ i \in 0..SQS_IN_Q - 1 /\ SQS_IN_Q \in Nat
    BY Composing DEF IInv, TypeOK
  <2> QED BY <2>1, <2>2, <2>3, <2>4
<1>2. note \in Note
  BY <1>1 DEF Note
<1>3. /\ measure' = Append(measure, note) /\ Len(measure') = n + 1
      /\ measure'[n + 1] = note /\ \A k \in 1..n : measure'[k] = measure[k]
  BY <1>1, <1>2 DEF Begun
<1>4. measure' \in Seq(Note) /\ measure' # <<>>
  BY <1>1, <1>2, <1>3
<1>5. Chain(measure, Elapsed)
  BY DEF IInv, Filled, Chain
<1> HIDE DEF n, note
<1>6. note.at = Elapsed /\ note.tempo = 1
  BY DEF note
<1>7. Ends(note) = Elapsed + 1
  BY <1>1, <1>6 DEF Ends
<1>8. Chain(measure', Elapsed')
  <2>1. CASE measure = <<>>
    <3>1. n = 0 /\ Elapsed = 0
      BY <1>5, <2>1 DEF Chain, n
    <3> QED BY <1>3, <1>4, <1>6, <1>7, <3>1 DEF Chain
  <2>2. CASE measure # <<>>
    <3>1. n >= 1 /\ measure[1].at = 0 /\ Ends(measure[n]) = Elapsed
          /\ \A k \in 1..n - 1 : measure[k + 1].at = Ends(measure[k])
      BY <1>1, <1>5, <2>2 DEF Chain, n
    <3>2. \A k \in 1..n : measure'[k + 1].at = Ends(measure'[k])
      <4> TAKE k \in 1..n
      <4>1. CASE k = n
        BY <1>1, <1>3, <1>6, <3>1, <4>1
      <4>2. CASE k < n
        <5>1. k \in 1..n - 1 /\ k + 1 \in 1..n
          BY <1>1, <4>2
        <5> QED BY <1>3, <3>1, <5>1
      <4> QED BY <1>1, <4>1, <4>2
    <3>3. measure'[1].at = 0 /\ Ends(measure'[n + 1]) = Elapsed'
      BY <1>1, <1>3, <1>7, <3>1
    <3> QED BY <1>1, <1>3, <1>4, <3>2, <3>3 DEF Chain
  <2> QED BY <2>1, <2>2
<1>9. Counted'
  <2>1. n <= Elapsed /\ (n = Elapsed => \A k \in 1..n : measure[k].tempo = 1)
        /\ \A k \in 1..n : measure[k].at < Elapsed
    BY DEF IInv, Counted, n
  <2>2. Len(measure') = Elapsed' => \A k \in 1..n + 1 : measure'[k].tempo = 1
    BY <1>1, <1>3, <1>6, <2>1
  <2>3. \A k \in 1..n + 1 : measure'[k].at < Elapsed'
    BY <1>1, <1>3, <1>6, <2>1
  <2> HIDE DEF Elapsed
  <2> QED BY <1>1, <1>3, <2>1, <2>2, <2>3 DEF Counted
<1>10. ASSUME NEW c \in Nat, Elapsed = c + i, NEW t \in 0..SQS_IN_Q - 1
       PROVE  (\E k \in 1..n + 1 : measure'[k].at = c + t) <=>
                 (t = i \/ \E k \in 1..n : measure[k].at = c + t)
  <2>1. (measure'[n + 1].at = c + t) <=> t = i
    BY <1>1, <1>3, <1>6, <1>10
  <2>2. \A k \in 1..n : measure'[k].at = measure[k].at
    BY <1>3
  <2>3. \A k \in 1..n + 1 : k = n + 1 \/ k \in 1..n
    BY <1>1
  <2>4. n + 1 \in 1..n + 1 /\ \A k \in 1..n : k \in 1..n + 1
    BY <1>1
  <2> QED BY <2>1, <2>2, <2>3, <2>4
<1> QED BY <1>3, <1>4, <1>8, <1>9, <1>10 DEF n

LEMMA NoteLengthened ==
  ASSUME IInv, phase = "compose", measure # <<>>, Elapsed' = Elapsed + 1,
         measure' = [measure EXCEPT ![Len(measure)].tempo = @ + 1]
  PROVE  /\ measure' \in Seq(Note) /\ measure' # <<>>
         /\ Chain(measure', Elapsed') /\ Counted'
         /\ Len(measure') = Len(measure)
         /\ \A k \in 1..Len(measure) : measure'[k].at = measure[k].at
<1> DEFINE n == Len(measure)
<1>1. /\ Elapsed \in Nat /\ measure \in Seq(Note) /\ n \in Nat /\ n >= 1
      /\ \A k \in 1..n : measure[k] \in Note /\ measure[k].at \in Nat /\ measure[k].tempo \in Nat \ {0}
  <2>1. measure \in Seq(Note)
    BY DEF IInv, TypeOK
  <2>2. \A k \in 1..n : measure[k] \in Note
    BY <2>1
  <2>3. n >= 1
    BY <2>1
  <2> QED BY <2>1, <2>2, <2>3, Composing DEF Note
<1>2. /\ measure' \in Seq(Note) /\ Len(measure') = n
      /\ \A k \in 1..n : k # n => measure'[k] = measure[k]
      /\ measure'[n] = [measure[n] EXCEPT !.tempo = @ + 1]
  <2>1. n \in 1..n
    BY <1>1
  <2>2. measure' = [measure EXCEPT ![n] = [measure[n] EXCEPT !.tempo = @ + 1]]
    OBVIOUS
  <2>3. [measure[n] EXCEPT !.tempo = @ + 1] \in Note
    BY <1>1, <2>1 DEF Note
  <2> HIDE DEF n
  <2>4. measure' \in Seq(Note) /\ Len(measure') = Len(measure)
    BY <1>1, <2>1, <2>2, <2>3, ExceptSeq DEF n
  <2>5. \A k \in 1..n : k # n => measure'[k] = measure[k]
    BY <1>1, <2>2 DEF n
  <2>6. measure'[n] = [measure[n] EXCEPT !.tempo = @ + 1]
    BY <1>1, <2>1, <2>2 DEF n
  <2> QED BY <2>4, <2>5, <2>6 DEF n
<1>3. Chain(measure, Elapsed) /\ measure' # <<>>
  BY <1>1, <1>2 DEF IInv, Filled, Chain
<1> HIDE DEF n
<1>4. /\ measure'[n].at = measure[n].at /\ measure'[n].tempo = measure[n].tempo + 1
      /\ Ends(measure'[n]) = Ends(measure[n]) + 1
  <2>1. n \in 1..n
    BY <1>1
  <2>2. measure'[n].at = measure[n].at /\ measure'[n].tempo = measure[n].tempo + 1
    BY <1>1, <1>2, <2>1 DEF Note
  <2> QED BY <1>1, <2>1, <2>2 DEF Ends
<1>5. \A k \in 1..n : measure'[k].at = measure[k].at
  BY <1>2, <1>4
<1>6. Chain(measure', Elapsed')
  <2>1. /\ measure[1].at = 0 /\ Ends(measure[n]) = Elapsed
        /\ \A k \in 1..n - 1 : measure[k + 1].at = Ends(measure[k])
    BY <1>1, <1>3 DEF Chain, n
  <2>2. \A k \in 1..n - 1 : measure'[k + 1].at = Ends(measure'[k])
    BY <1>1, <1>2, <1>5, <2>1
  <2>3. measure'[1].at = 0 /\ Ends(measure'[n]) = Elapsed'
    BY <1>1, <1>4, <1>5, <2>1
  <2> QED BY <1>2, <1>3, <2>2, <2>3 DEF Chain
<1>7. Counted'
  <2>1. n <= Elapsed /\ \A k \in 1..n : measure[k].at < Elapsed
    BY DEF IInv, Counted, n
  <2>2. \A k \in 1..n : measure'[k].at < Elapsed'
    BY <1>1, <1>5, <2>1
  <2> HIDE DEF Elapsed
  <2> QED BY <1>1, <1>2, <2>1, <2>2 DEF Counted
<1> QED BY <1>2, <1>3, <1>5, <1>6, <1>7 DEF n

-----------------------------------------------------------------------------
(* The search.                                                              *)
LEMMA PrioritiesAre ==
  ASSUME TypeOK, nm \in Measures
  PROVE  Priorities \in [1..9 -> Arg] /\ Len(Priorities) = 9
<1>1. Priorities \in Prioargs
  BY ComposerAssumption DEF TypeOK, Priorities
<1>2. Priorities \in [1..9 -> Arg]
  BY <1>1 DEF Prioargs, QUARTER_QUERY_ARGS
<1>3. Priorities \in Seq(Arg)
  BY <1>2, SeqDef
<1>4. DOMAIN Priorities = 1..9 /\ DOMAIN Priorities = 1..Len(Priorities) /\ Len(Priorities) \in Nat
  BY <1>2, <1>3, LenProperties
<1>5. Len(Priorities) = 9
  BY <1>4
<1> QED BY <1>2, <1>5

(* If nothing was found with more arguments, what is found now is best.     *)
LEMMA FirstIsBest ==
  ASSUME TypeOK, nm \in Measures, NEW k \in 0..9,
         \A j \in 0..k - 1 : GetQuarters(QuarterArgs(nm, q, mfields.instrument), Priorities, j) = {},
         NEW r \in GetQuarters(QuarterArgs(nm, q, mfields.instrument), Priorities, k),
         NEW other \in Quarters, ForInstrument(other)
  PROVE  MetInARow(other) <= MetInARow(r)
<1> DEFINE args == QuarterArgs(nm, q, mfields.instrument)
           p    == Priorities
           M(x) == {n \in 0..9 : \A j \in 0..n - 1 : args[p[9 - j]] \in x.accepts[p[9 - j]]}
<1>1. p \in [1..9 -> Arg] /\ Len(p) = 9
  BY PrioritiesAre
<1>2. \A x : MetInARow(x) = Max(M(x))
  BY <1>1 DEF MetInARow
<1>3. \A j \in 1..9 : j > k => args[p[j]] \in r.accepts[p[j]]
  BY <1>1 DEF GetQuarters, Heeded
<1>4. \A j \in 0..k - 1 : \E l \in j + 1..9 : args[p[l]] \notin other.accepts[p[l]]
  BY <1>1 DEF GetQuarters, Heeded
<1> HIDE DEF args, p
<1>5. \A x : Max(M(x)) \in M(x) /\ \A n \in M(x) : Max(M(x)) >= n
  <2> TAKE x
  <2>1. 0 \in M(x) /\ M(x) \in SUBSET (0..255)
    OBVIOUS
  <2> HIDE DEF M
  <2>2. M(x) # {}
    BY <2>1
  <2> QED BY <2>1, <2>2, MaxOfBytes
<1>6. 9 - k \in M(r)
  BY <1>3
<1>7. Max(M(r)) >= 9 - k
  BY <1>5, <1>6
<1>8. \A n \in M(other) : n <= 9 - k
  <2> TAKE n \in M(other)
  <2>0. n \in 0..9
    OBVIOUS
  <2> SUFFICES ASSUME n > 9 - k
               PROVE  FALSE
    BY <2>0
  <2>1. n \in 0..9 /\ k >= 1
    BY <2>0
  <2>2. PICK l \in k..9 : args[p[l]] \notin other.accepts[p[l]]
    <3>1. k - 1 \in 0..k - 1
      BY <2>1
    <3> QED BY <1>4, <3>1
  <2>3. 9 - l \in 0..n - 1 /\ 9 - (9 - l) = l
    BY <2>1
  <2>4. args[p[9 - (9 - l)]] \in other.accepts[p[9 - (9 - l)]]
    BY <2>3
  <2> QED BY <2>2, <2>3, <2>4
<1>10. M(other) \subseteq Int /\ M(r) \subseteq Int
  OBVIOUS
<1> HIDE DEF M
<1>9. Max(M(other)) <= 9 - k /\ Max(M(other)) \in Int /\ Max(M(r)) \in Int
  <2>1. \A x : Max(M(x)) \in M(x)
    BY <1>5
  <2>2. Max(M(other)) \in M(other) /\ Max(M(r)) \in M(r)
    BY <2>1
  <2> QED BY <1>8, <1>10, <2>2
<1> QED BY <1>2, <1>7, <1>9

-----------------------------------------------------------------------------
(* The invariant.                                                           *)
LEMMA InitInv == Init => IInv
<1> SUFFICES ASSUME Init PROVE IInv
  OBVIOUS
<1>0. SQS_IN_Q \in Nat \ {0}
  BY ComposerAssumption
<1> USE DEF Init
<1>1. TypeOK
  <2>1. prev \in [exists : BOOLEAN, size : Nat, last : Chord]
    BY DEF Chord
  <2>2. measure \in Seq(Note) /\ i \in 0..SQS_IN_Q - 1 /\ last \in Chord
    BY <1>0 DEF Chord
  <2>3. prev_octave \in Int
    BY DEF NoOctave
  <2>4. unchanged_fst \in BOOLEAN
    BY Zenon
  <2> QED BY <2>1, <2>2, <2>3, <2>4 DEF TypeOK, QUARTER_QUERY_ARGS
<1>2. Elapsed = 0 /\ Position /\ Filled /\ Counted /\ SizeKnown
  BY <1>0 DEF Elapsed, Position, Filled, Counted, SizeKnown
<1>3. Voice
  BY DEF Voice, Playable, DatabaseOctaves
<1>4. Passed /\ RhythmKept /\ Searched /\ BestMatch
  BY <1>2 DEF Passed, RhythmKept, Searched, BestMatch
<1> QED BY <1>1, <1>2, <1>3, <1>4 DEF IInv

LEMMA ReceiveInv == ASSUME IInv, NEW m \in Measures, RecvMeasure(m) PROVE IInv'
<1>0. SQS_IN_Q \in Nat \ {0} /\ i = 0 /\ MaxQuarters(m.tempo) \in Nat \ {0}
  BY ComposerAssumption DEF IInv, Position, RecvMeasure
<1> USE DEF RecvMeasure
<1>1. TypeOK'
  <2>1. (measure # <<>>) \in BOOLEAN /\ size \in Nat /\ last \in Chord
    BY DEF IInv, TypeOK
  <2>2. prev' \in [exists : BOOLEAN, size : Nat, last : Chord]
    BY <2>1
  <2>3. measure' \in Seq(Note) /\ last' \in Chord /\ size' \in Nat
    BY DEF Chord
  <2>4. unchanged_fst' \in BOOLEAN
    BY Zenon
  <2> QED BY <2>2, <2>3, <2>4 DEF IInv, TypeOK, walkVars, QUARTER_QUERY_ARGS
<1>2. Elapsed' = 0 /\ measure' = <<>> /\ phase' = "query" /\ i' = 0
  BY <1>0 DEF Elapsed, walkVars
<1>3. Position' /\ Filled' /\ Counted' /\ SizeKnown'
  <2>1. Position'
    BY <1>0, <1>2 DEF Position, QUARTER_QUERY_ARGS
  <2> HIDE DEF Elapsed
  <2> QED BY <1>2, <2>1 DEF Filled, Counted, SizeKnown
<1>4. Voice'
  BY DEF IInv, Voice, Playable, DatabaseOctaves
<1>5. Passed' /\ RhythmKept' /\ Searched' /\ BestMatch'
  BY <1>2 DEF Passed, RhythmKept, Searched, BestMatch
<1> QED BY <1>1, <1>3, <1>4, <1>5 DEF IInv

LEMMA SearchInv == ASSUME IInv, TryQuarters PROVE IInv'
<1> DEFINE args  == QuarterArgs(nm, q, mfields.instrument)
           found == GetQuarters(args, Priorities, ignored)
<1>0. /\ phase = "query" /\ i = 0 /\ nm \in Measures /\ ignored \in 0..9
      /\ q < MaxQuarters(nm.tempo) /\ SQS_IN_Q \in Nat \ {0} /\ TypeOK
  BY ComposerAssumption DEF IInv, TypeOK, Position, TryQuarters, QUARTER_QUERY_ARGS
<1>1. /\ UNCHANGED <<mfields, prev_octave, nm, q, pmVars, prev>> /\ i' = 0
      /\ phase' \in {"query", "compose", "failed"}
  BY <1>0 DEF TryQuarters, walkVars
<1>2. /\ phase' = "query" => found = {} /\ ignored' = ignored + 1 /\ ignored < 9
                             /\ UNCHANGED <<quarter, s>>
      /\ phase' = "compose" => quarter' \in found /\ s' = 1 /\ ignored' = ignored
      /\ ignored' \in 0..10
      /\ quarter' \in Quarters \union {NoQuarter} /\ s' \in Nat \ {0}
  <2>1. CASE found # {}
    <3>1. PICK r \in found : /\ quarter' = r /\ s' = 1 /\ ignored' = ignored
                             /\ phase' \in {"failed", "compose"}
      BY <2>1 DEF TryQuarters
    <3>2. found \subseteq Quarters
      BY DEF GetQuarters
    <3> QED BY <1>0, <3>1, <3>2
  <2>2. CASE found = {}
    <3>1. /\ ignored' = ignored + 1 /\ UNCHANGED walkVars
          /\ phase' = IF ignored < 9 THEN "query" ELSE "failed"
      BY <2>2 DEF TryQuarters, NextIgnored, QUARTER_QUERY_ARGS
    <3> QED BY <1>0, <2>2, <3>1 DEF walkVars, TypeOK
  <2> QED BY <2>1, <2>2
<1>3. TypeOK'
  BY <1>0, <1>1, <1>2 DEF TypeOK, pmVars, QUARTER_QUERY_ARGS
<1>4. Elapsed' = Elapsed
  BY <1>0, <1>1 DEF Elapsed
<1>5. Position' /\ Filled' /\ Counted' /\ SizeKnown'
  <2>1. Position'
    <3>1. GetQuarters(args, Priorities, ignored) \subseteq Quarters
      BY DEF GetQuarters
    <3> QED BY <1>0, <1>1, <1>2, <3>1 DEF IInv, Position, pmVars, QUARTER_QUERY_ARGS
  <2> HIDE DEF Elapsed
  <2> QED BY <1>1, <1>4, <2>1 DEF IInv, Filled, Counted, SizeKnown, pmVars
<1>6. Voice'
  BY <1>1 DEF IInv, Voice, Playable, DatabaseOctaves, pmVars
<1>7. Passed'
  <2> SUFFICES ASSUME phase' = "compose"
               PROVE  \A k \in 1..Len(sqs') : k < s' <=> sqs'[k].position < i'
    BY DEF Passed
  <2>1. quarter' \in Quarters /\ s' = 1 /\ i' = 0
    BY <1>1, <1>2 DEF GetQuarters
  <2>2. sqs' \in Seq(Semiquaver)
    BY <2>1, ComposerAssumption DEF sqs
  <2>3. \A k \in 1..Len(sqs') : sqs'[k] \in Semiquaver
    BY <2>2
  <2> QED BY <2>1, <2>2, <2>3 DEF Semiquaver
<1>8. RhythmKept'
  <2>1. CASE phase' = "query"
    <3>1. QuarterStart' = QuarterStart /\ sqs' = sqs /\ measure' = measure /\ Walked
      BY <1>0, <1>1, <1>2, <2>1 DEF QuarterStart, sqs, pmVars, Walked
    <3>2. BegunInQuarter' = BegunInQuarter
      BY <3>1 DEF BegunInQuarter
    <3>3. RhythmKept
      BY DEF IInv
    <3> HIDE DEF QuarterStart, Elapsed
    <3> QED BY <1>4, <3>1, <3>2, <3>3 DEF RhythmKept
  <2>2. CASE phase' # "query"
    BY <1>1, <2>2 DEF RhythmKept, Walked
  <2> QED BY <2>1, <2>2
<1>9. Searched'
  <2> SUFFICES ASSUME phase' = "query", NEW k \in 0..ignored
               PROVE  GetQuarters(args, Priorities, k) = {}
    BY <1>0, <1>1, <1>2 DEF Searched, Priorities, GetQuarters, ForInstrument
  <2>1. CASE k = ignored
    BY <1>2, <2>1
  <2>2. CASE k # ignored
    BY <1>0, <2>2 DEF IInv, Searched
  <2> QED BY <2>1, <2>2
<1>10. BestMatch'
  <2> SUFFICES ASSUME phase' = "compose", NEW other \in Quarters, ForInstrument(other)
               PROVE  MetInARow(other) <= MetInARow(quarter')
    BY <1>1 DEF BestMatch, ForInstrument, MetInARow, Priorities
  <2>1. quarter' \in found
    BY <1>2
  <2>2. \A j \in 0..ignored - 1 : GetQuarters(args, Priorities, j) = {}
    BY <1>0 DEF IInv, Searched
  <2> QED BY <1>0, <2>1, <2>2, FirstIsBest
<1> QED BY <1>3, <1>5, <1>6, <1>7, <1>8, <1>9, <1>10 DEF IInv

(* What every step over a semiquaver has in common.                         *)
LEMMA SemiquaverInv ==
  ASSUME IInv, phase = "compose", Advance,
         UNCHANGED <<mfields, nm, quarter, prev>>,
         unchanged_fst' \in BOOLEAN, last' \in Chord, prev_octave' \in Int, Voice',
         measure' \in Seq(Note), measure' # <<>>,
         Chain(measure', Elapsed'), Counted',
         \A c \in Nat : c = q * SQS_IN_Q => InRhythm(BegunFrom(c)', c, i + 1)
  PROVE  IInv'
<1>1. TypeOK'
  BY NextPlace DEF IInv, TypeOK
<1>2. Position' /\ Elapsed' = Elapsed + 1 /\ Elapsed \in Nat
  BY NextPlace, Composing
<1>3. Filled'
  <2>1. phase' = "recv" => Elapsed' = MaxSqcount(nm.tempo)
    BY NextPlace
  <2> HIDE DEF Elapsed
  <2> QED BY <2>1 DEF Filled, Chain
<1>4. SizeKnown'
  <2> SUFFICES ASSUME phase' = "recv"
               PROVE  \/ size' = Len(measure')
                      \/ size' = 0 /\ \A k \in 1..Len(measure') : measure'[k].tempo = 1
    BY DEF SizeKnown
  <2>1. /\ Elapsed' = MaxSqcount(nm.tempo)
        /\ size' = SizeOf(Len(measure'), MaxSqcount(nm.tempo))
    BY NextPlace
  <2>2. /\ Len(measure') <= Elapsed' /\ Len(measure') \in Nat
        /\ Len(measure') = Elapsed' => \A k \in 1..Len(measure') : measure'[k].tempo = 1
    BY DEF Counted
  <2>3. Elapsed' \in Nat
    BY <1>2
  <2> HIDE DEF Elapsed
  <2> QED BY <2>1, <2>2, <2>3 DEF SizeOf
<1>5. Passed'
  <2> SUFFICES ASSUME phase' = "compose", NEW k \in 1..Len(sqs)
               PROVE  k < s' <=> sqs[k].position < i'
    BY DEF Passed, sqs
  <2>1. i' = i + 1 /\ s' = NextSq
    BY NextPlace DEF Advance
  <2>2. k < NextSq <=> sqs[k].position <= i
    BY NextPassed
  <2>3. sqs[k] \in Semiquaver
    BY Composing
  <2>4. sqs[k].position \in Nat /\ i \in Nat
    BY <2>3, Composing DEF Semiquaver, IInv, TypeOK
  <2> QED BY <2>1, <2>2, <2>4
<1>6. RhythmKept'
  <2>0. /\ q \in Nat /\ SQS_IN_Q \in Nat /\ i \in 0..SQS_IN_Q - 1
        /\ \A k \in 1..Len(sqs) : sqs[k] \in Semiquaver
    BY Composing DEF IInv, TypeOK
  <2>1. PICK c \in Nat : c = q * SQS_IN_Q
    BY <2>0
  <2>2. QuarterStart' = c /\ Elapsed' = c + i + 1
    BY <1>2, <2>0, <2>1, NextPlace DEF Elapsed
  <2>3. InRhythm(BegunFrom(c)', c, i + 1)
    BY <2>1
  <2>4. \A k \in 1..Len(sqs) : sqs[k].position \in Nat
    BY <2>0 DEF Semiquaver
  <2> HIDE DEF QuarterStart, Elapsed, InRhythm, BegunFrom, RhythmKept
  <2> QED BY <2>0, <2>2, <2>3, <2>4, RhythmAfter
<1>7. Searched'
  BY NextPlace DEF Searched
<1>8. BestMatch'
  <2> SUFFICES ASSUME phase' = "compose" PROVE BestMatch'
    BY DEF BestMatch
  <2>1. UNCHANGED <<q, mfields, nm, quarter>>
    BY NextPlace
  <2>2. BestMatch
    BY DEF IInv
  <2> QED BY <2>1, <2>2 DEF BestMatch, ForInstrument, MetInARow, Priorities
<1> QED BY <1>1, <1>2, <1>3, <1>4, <1>5, <1>6, <1>7, <1>8 DEF IInv

LEMMA BeginInv == ASSUME IInv, BeginNote PROVE IInv'
<1>1. /\ phase = "compose" /\ MayBegin /\ measure' = Begun /\ Advance
      /\ UNCHANGED <<mfields, nm, quarter, unchanged_fst, prev>>
  BY DEF BeginNote
<1>2. PICK new \in DecideNote(sqs[s]) : last' = new.notes /\ prev_octave' = new.octave
  BY DEF BeginNote
<1>3. More
  BY <1>1 DEF MayBegin
<1>4. /\ last' \in Chord /\ prev_octave' \in Int /\ Playable(new.notes)
  BY <1>1, <1>2, <1>3, Decided
<1>5. Voice'
  BY <1>1, <1>2, <1>4 DEF IInv, Voice, Playable, DatabaseOctaves
<1>6. measure' \in Seq(Note) /\ measure' # <<>> /\ Elapsed' = Elapsed + 1
  <2>1. measure' \in Seq(Note) /\ measure' # <<>>
    <3>1. Elapsed \in Nat /\ measure \in Seq(Note)
      BY <1>1, Composing DEF IInv, TypeOK
    <3>2. [at |-> Elapsed, tempo |-> 1] \in Note
      BY <3>1 DEF Note
    <3> HIDE DEF Elapsed
    <3> QED BY <1>1, <3>1, <3>2 DEF Begun
  <2> QED BY <1>1, <2>1, NextPlace
<1>7. Chain(measure', Elapsed') /\ Counted'
  BY <1>1, <1>6, NoteBegun
<1>8. ASSUME NEW c \in Nat, c = q * SQS_IN_Q
      PROVE  InRhythm(BegunFrom(c)', c, i + 1)
  <2>1. InRhythm(BegunFrom(c), c, i)
    BY <1>1, <1>8, RhythmBefore
  <2>2. Elapsed = c + i /\ i \in 0..SQS_IN_Q - 1
    BY <1>8 DEF Elapsed, IInv, TypeOK
  <2>3. \A t \in 0..SQS_IN_Q - 1 :
          (\E k \in 1..Len(measure') : measure'[k].at = c + t) <=>
            (t = i \/ \E k \in 1..Len(measure) : measure[k].at = c + t)
    BY <1>1, <1>6, <2>2, NoteBegun
  <2>4. BegunFrom(c)' = BegunFrom(c) \union {i}
    BY <2>2, <2>3 DEF BegunFrom
  <2>5. \A k \in 1..Len(sqs) : sqs[k].position \in Nat
    <3>1. \A k \in 1..Len(sqs) : sqs[k] \in Semiquaver
      BY <1>1, Composing
    <3> QED BY <3>1 DEF Semiquaver
  <2>6. \/ c = 0 /\ i = 0
        \/ \E k \in 1..Len(sqs) : sqs[k].position = i
    <3>1. CASE Here
      <4>1. s \in 1..Len(sqs) /\ sqs[s].position = i
        BY <3>1 DEF Here, More, IInv, TypeOK
      <4> QED BY <4>1
    <3>2. CASE measure = <<>>
      <4>1. Elapsed = 0
        BY <3>2 DEF IInv, Filled
      <4> QED BY <2>2, <4>1
    <3> QED BY <1>1, <3>1, <3>2 DEF MayBegin
  <2>7. \A k \in 1..Len(sqs) : sqs[k].position < i + 1 <=> sqs[k].position < i \/ sqs[k].position = i
    BY <2>2, <2>5
  <2> QED BY <2>1, <2>2, <2>4, <2>6, <2>7 DEF InRhythm
<1> QED
  <2>1. unchanged_fst' \in BOOLEAN
    BY <1>1 DEF IInv, TypeOK
  <2> HIDE DEF Elapsed
  <2> QED BY <1>1, <1>4, <1>5, <1>6, <1>7, <1>8, <2>1, SemiquaverInv

(* A semiquaver that changes for sure is not continued.                     *)
LEMMA ContinuedRhythm ==
  ASSUME IInv, phase = "compose", MayContinue, NEW c \in Nat, c = q * SQS_IN_Q
  PROVE  /\ InRhythm(BegunFrom(c), c, i)
         /\ \A k \in 1..Len(sqs) : sqs[k].position = i => ~sqs[k].sure
<1>1. InRhythm(BegunFrom(c), c, i)
  BY RhythmBefore
<1>2. ASSUME NEW k \in 1..Len(sqs), sqs[k].position = i
      PROVE  ~sqs[k].sure
  <2>1. k < NextSq
    BY <1>2, NextPassed DEF IInv, TypeOK
  <2>2. ~(k < s)
    BY <1>2 DEF IInv, Passed, TypeOK
  <2>3. Here /\ k = s
    BY <2>1, <2>2 DEF NextSq, IInv, TypeOK
  <2> QED BY <2>3 DEF MayContinue
<1> QED BY <1>1, <1>2

LEMMA LengthenInv == ASSUME IInv, LengthenNote PROVE IInv'
<1>1. /\ phase = "compose" /\ MayContinue /\ measure # <<>> /\ Advance
      /\ measure' = [measure EXCEPT ![Len(measure)].tempo = @ + 1]
      /\ UNCHANGED <<mfields, nm, prev_octave, quarter, unchanged_fst, last, prev>>
  BY DEF LengthenNote
<1>2. measure' \in Seq(Note) /\ measure' # <<>> /\ Elapsed' = Elapsed + 1
  <2>1. measure \in Seq(Note)
    BY DEF IInv, TypeOK
  <2>2. Len(measure) \in 1..Len(measure)
    BY <1>1, <2>1
  <2>3. measure[Len(measure)] \in Note
    BY <2>1, <2>2
  <2>4. [measure[Len(measure)] EXCEPT !.tempo = @ + 1] \in Note
    BY <2>3 DEF Note
  <2>5. measure' = [measure EXCEPT ![Len(measure)] = [measure[Len(measure)] EXCEPT !.tempo = @ + 1]]
    BY <1>1
  <2>6. measure' \in Seq(Note) /\ Len(measure') = Len(measure)
    BY <2>1, <2>2, <2>4, <2>5, ExceptSeq
  <2>7. measure' # <<>>
    BY <2>2, <2>6
  <2> QED BY <1>1, <2>6, <2>7, NextPlace
<1>3. /\ Chain(measure', Elapsed') /\ Counted' /\ Len(measure') = Len(measure)
      /\ \A k \in 1..Len(measure) : measure'[k].at = measure[k].at
  BY <1>1, <1>2, NoteLengthened
<1>4. Voice'
  BY <1>1 DEF IInv, Voice, Playable, DatabaseOctaves
<1>5. ASSUME NEW c \in Nat, c = q * SQS_IN_Q
      PROVE  InRhythm(BegunFrom(c)', c, i + 1)
  <2>1. /\ InRhythm(BegunFrom(c), c, i)
        /\ \A k \in 1..Len(sqs) : sqs[k].position = i => ~sqs[k].sure
    BY <1>1, <1>5, ContinuedRhythm
  <2>2. BegunFrom(c)' = BegunFrom(c)
    BY <1>3 DEF BegunFrom
  <2>3. \A k \in 1..Len(sqs) : sqs[k].position \in Nat
    <3>1. \A k \in 1..Len(sqs) : sqs[k] \in Semiquaver
      BY <1>1, Composing
    <3> QED BY <3>1 DEF Semiquaver
  <2>4. i \in Nat
    BY DEF IInv, TypeOK
  <2>5. \A k \in 1..Len(sqs) : sqs[k].position < i + 1 <=> sqs[k].position < i \/ sqs[k].position = i
    BY <2>3, <2>4
  <2> QED BY <2>1, <2>2, <2>5 DEF InRhythm
<1> QED
  <2>1. unchanged_fst' \in BOOLEAN /\ last' \in Chord /\ prev_octave' \in Int
    BY <1>1 DEF IInv, TypeOK
  <2> HIDE DEF Elapsed
  <2> QED BY <1>1, <1>2, <1>3, <1>4, <1>5, <2>1, SemiquaverInv

LEMMA HoldInv == ASSUME IInv, HoldOver PROVE IInv'
<1>1. /\ phase = "compose" /\ MayContinue /\ measure = <<>> /\ Advance /\ measure' = Begun
      /\ last' = prev.last /\ unchanged_fst' = TRUE
      /\ UNCHANGED <<mfields, nm, prev_octave, quarter, prev>>
  BY DEF HoldOver
<1>2. measure' \in Seq(Note) /\ measure' # <<>> /\ Elapsed' = Elapsed + 1
  <2>1. Elapsed \in Nat /\ measure \in Seq(Note)
    BY <1>1, Composing DEF IInv, TypeOK
  <2>2. [at |-> Elapsed, tempo |-> 1] \in Note
    BY <2>1 DEF Note
  <2>3. measure' \in Seq(Note) /\ measure' # <<>>
    <3> HIDE DEF Elapsed
    <3> QED BY <1>1, <2>1, <2>2 DEF Begun
  <2> QED BY <1>1, <2>3, NextPlace
<1>3. Chain(measure', Elapsed') /\ Counted'
  BY <1>1, <1>2, NoteBegun
<1>4. Voice'
  BY <1>1 DEF IInv, Voice, Playable, DatabaseOctaves
<1>5. ASSUME NEW c \in Nat, c = q * SQS_IN_Q
      PROVE  InRhythm(BegunFrom(c)', c, i + 1)
  <2>1. /\ InRhythm(BegunFrom(c), c, i)
        /\ \A k \in 1..Len(sqs) : sqs[k].position = i => ~sqs[k].sure
    BY <1>1, <1>5, ContinuedRhythm
  <2>2. Elapsed = c + i /\ i \in 0..SQS_IN_Q - 1 /\ c + i = 0
    BY <1>1, <1>5 DEF Elapsed, IInv, TypeOK, Filled
  <2>3. \A t \in 0..SQS_IN_Q - 1 :
          (\E k \in 1..Len(measure') : measure'[k].at = c + t) <=>
            (t = i \/ \E k \in 1..Len(measure) : measure[k].at = c + t)
    BY <1>1, <1>2, <2>2, NoteBegun
  <2>4. BegunFrom(c)' = BegunFrom(c) \union {i}
    BY <2>2, <2>3 DEF BegunFrom
  <2>5. \A k \in 1..Len(sqs) : sqs[k].position \in Nat
    <3>1. \A k \in 1..Len(sqs) : sqs[k] \in Semiquaver
      BY <1>1, Composing
    <3> QED BY <3>1 DEF Semiquaver
  <2>6. c = 0 /\ i = 0
    BY <2>2
  <2>7. \A k \in 1..Len(sqs) : sqs[k].position < i + 1 <=> sqs[k].position < i \/ sqs[k].position = i
    BY <2>2, <2>5
  <2> QED BY <2>1, <2>4, <2>6, <2>7 DEF InRhythm
<1> QED
  <2>1. last' \in Chord /\ prev_octave' \in Int
    BY <1>1 DEF IInv, TypeOK
  <2>2. unchanged_fst' \in BOOLEAN
    BY <1>1, Zenon
  <2> HIDE DEF Elapsed
  <2> QED BY <1>1, <1>2, <1>3, <1>4, <1>5, <2>1, <2>2, SemiquaverInv

LEMMA LeaveInv ==
  ASSUME IInv, EndOfImprovisation \/ HoldOverCrashes
  PROVE  IInv'
<1>1. /\ phase' \in {"left", "crashed"}
      /\ UNCHANGED <<mfields, prev_octave, askVars, walkVars, pmVars, prev>>
  BY DEF EndOfImprovisation, HoldOverCrashes
<1>2. TypeOK' /\ Position' /\ Counted' /\ Voice'
  BY <1>1 DEF IInv, TypeOK, Position, Counted, Elapsed, Voice, Playable, DatabaseOctaves,
              askVars, walkVars, pmVars
<1>3. Filled' /\ SizeKnown'
  BY <1>1 DEF IInv, Filled, Elapsed, SizeKnown, askVars, walkVars, pmVars
<1>4. Passed' /\ RhythmKept' /\ Searched' /\ BestMatch'
  BY <1>1 DEF Passed, RhythmKept, Walked, Searched, BestMatch
<1> QED BY <1>2, <1>3, <1>4 DEF IInv

LEMMA StutterInv == ASSUME IInv, UNCHANGED vars PROVE IInv'
<1>1. /\ UNCHANGED <<phase, mfields, prev_octave, nm, q, ignored, quarter, s, i>>
      /\ UNCHANGED <<measure, unchanged_fst, size, last, prev>>
  BY DEF vars, askVars, walkVars, pmVars
<1>2. TypeOK' /\ Position' /\ Filled' /\ Counted' /\ SizeKnown' /\ Voice'
  BY <1>1 DEF IInv, TypeOK, Position, Filled, Counted, Elapsed, SizeKnown, Voice,
              Playable, DatabaseOctaves, sqs
<1>3. Passed' /\ Searched' /\ BestMatch'
  BY <1>1 DEF IInv, Passed, Searched, BestMatch, sqs, MetInARow, ForInstrument, Priorities,
              GetQuarters
<1>4. RhythmKept'
  BY <1>1 DEF IInv, RhythmKept, Walked, Elapsed, QuarterStart, BegunInQuarter, sqs
<1> QED BY <1>2, <1>3, <1>4 DEF IInv

LEMMA NextInv == IInv /\ [Next]_vars => IInv'
<1> SUFFICES ASSUME IInv, [Next]_vars PROVE IInv'
  OBVIOUS
<1>1. CASE \E m \in Measures : RecvMeasure(m)
  BY <1>1, ReceiveInv
<1>2. CASE TryQuarters
  BY <1>2, SearchInv
<1>3. CASE BeginNote
  BY <1>3, BeginInv
<1>4. CASE LengthenNote
  BY <1>4, LengthenInv
<1>5. CASE HoldOver
  BY <1>5, HoldInv
<1>6. CASE EndOfImprovisation \/ HoldOverCrashes
  BY <1>6, LeaveInv
<1>7. CASE Ended \/ UNCHANGED vars
  BY <1>7, StutterInv DEF Ended
<1> QED BY <1>1, <1>2, <1>3, <1>4, <1>5, <1>6, <1>7 DEF Next, ComposeMeasure

LEMMA AlwaysInv == Spec => []IInv
BY InitInv, NextInv, PTL DEF Spec

(* The variables of a musician that composes have their types.              *)
THEOREM ComposerTypes == Spec => []TypeOK
<1>1. IInv => TypeOK
  BY DEF IInv
<1> QED BY <1>1, AlwaysInv, PTL

(* The notes of a measure fill it without gap or overlap.                   *)
THEOREM MeasureIsFilled == Spec => []Filled
<1>1. IInv => Filled
  BY DEF IInv
<1> QED BY <1>1, AlwaysInv, PTL

(* Notes begin at the semiquavers of the quarter, at all those sure to      *)
(* change.                                                                  *)
THEOREM RhythmIsKept == Spec => []RhythmKept
<1>1. IInv => RhythmKept
  BY DEF IInv
<1> QED BY <1>1, AlwaysInv, PTL

(* No quarter meets more of the arguments in a row than the one taken.      *)
THEOREM QuarterIsBestMatch == Spec => []BestMatch
<1>1. IInv => BestMatch
  BY DEF IInv
<1> QED BY <1>1, AlwaysInv, PTL

(* What sounds is a key of the keyboard or a rest.                          *)
THEOREM PitchIsInRange == Spec => []PitchInRange
<1>1. IInv => PitchInRange
  BY DEF IInv, Voice, Playable, DatabaseOctaves, PitchInRange
<1> QED BY <1>1, AlwaysInv, PTL

(* The octave is never undecided again, for any octaves that are not        *)
(* negative: a chord that is moved does not leave the one before zero.      *)
THEOREM OctaveRemains == Spec => OctaveStays
<1>1. IInv /\ [Next]_vars => [mfields.octave_min >= 0 /\ prev_octave # NoOctave
                                => prev_octave' # NoOctave]_prev_octave
  <2> SUFFICES ASSUME IInv, [Next]_vars, mfields.octave_min >= 0, prev_octave # NoOctave,
                      prev_octave' # prev_octave
               PROVE  prev_octave' # NoOctave
    OBVIOUS
  <2>1. BeginNote
    BY DEF Next, ComposeMeasure, RecvMeasure, EndOfImprovisation, TryQuarters, LengthenNote,
           HoldOver, HoldOverCrashes, Ended, vars
  <2>2. PICK new \in DecideNote(sqs[s]) : prev_octave' = new.octave
    BY <2>1 DEF BeginNote
  <2> QED BY <2>1, <2>2, Decided DEF BeginNote, MayBegin
<1> QED BY <1>1, AlwaysInv, PTL DEF Spec, OctaveStays

(* The size is lost only of a measure with a note at each semiquaver.       *)
THEOREM SizeIsKnown == Spec => []SizeKnown
<1>1. IInv => SizeKnown
  BY DEF IInv
<1> QED BY <1>1, AlwaysInv, PTL
==============================================================================
