------------------------------ MODULE Harmony ------------------------------
(***************************************************************************)
(* The harmony of the director (director_core.cpp): chords, tonal centres   *)
(* and scales, as functions of a pattern and of a place in it.              *)
(*                                                                          *)
(* A mask of twelve bits is the set of the pitches (0..11) of its bits.  A  *)
(* measure of a pattern has steps, counted from the tonality, and a mode    *)
(* for each.  Where the code calls rand() there is a set of outcomes.       *)
(***************************************************************************)
EXTENDS Integers, Sequences, FiniteSetsExt, Functions

CONSTANTS
  Beats,         \* tempo.upper, and the length of chords and tonal_zones
  RandomChords   \* the chords randomChordIsRandom is allowed to find

Pitch == 0..11

Modes == {"", "7", "7+", "m", "m7", "m7+"}

CHORD_MINOR   == {0, 3, 7}
CHORD_MAJOR   == {0, 4, 7}
CHORD_SEVENTH == {10}
CHORD_DELTA   == {11}
BLUES_SCALE   == {0, 3, 5, 6, 7, 10}

Chord == [note : Pitch, mode : SUBSET Pitch]

MeasurePattern == {m \in [steps : Seq(Pitch), modes : Seq(Modes)] :
                     m.steps # <<>> /\ Len(m.modes) >= Len(m.steps)}

ASSUME HarmonyAssumption == Beats \in Nat \ {0} /\ RandomChords \subseteq Chord

Beat == 0..Beats - 1

ModeToChord(mode) ==
  (IF mode \in {"m", "m7", "m7+"} THEN CHORD_MINOR ELSE CHORD_MAJOR)
    \union (IF mode \in {"7+", "m7+"} THEN CHORD_DELTA
            ELSE IF mode \in {"7", "m7"} THEN CHORD_SEVENTH ELSE {})

RotateMask(mask, rotation) == {(p + rotation) % 12 : p \in mask}

(* A mask of one bit counts as none: the loop ends before the highest bit.  *)
CountOnes(mask) == IF Cardinality(mask) = 1 THEN 0 ELSE Cardinality(mask)

(* The chord a cadence goes through, -1 if the measure is none.  strcmp is  *)
(* tested the wrong way round: the modes of a cadence are refused.          *)
CheckCadenza(m) ==
  IF /\ Len(m.steps) = 2
     /\ m.modes[1] # "m7" /\ m.modes[2] # "7"
     /\ m.steps[2] = (m.steps[1] + 5) % 12
  THEN m.steps[2] ELSE -1

(* One chord stands for the whole measure.                                  *)
OneChord(m) == Len(m.steps) = 1 \/ CheckCadenza(m) >= 0

Root(m) == IF CheckCadenza(m) >= 0 THEN CheckCadenza(m) ELSE m.steps[1]

-----------------------------------------------------------------------------
(* Chords.                                                                  *)

Everywhere(note, mode) == [b \in Beat |-> [note |-> note % 12, mode |-> mode]]

(* The chords of the pattern: each lasts as many beats, rounded up.         *)
PatternChords(m, tonality) ==
  LET n     == Len(m.steps)
      range == (Beats \div n) + (IF Beats % n > 0 THEN 1 ELSE 0)
  IN [b \in Beat |-> [note |-> (m.steps[(b \div range) + 1] + tonality) % 12,
                      mode |-> ModeToChord(m.modes[(b \div range) + 1])]]

Tritone(step, tonality) ==
  Everywhere(tonality + step + 6, CHORD_MAJOR \union CHORD_SEVENTH)

Cadenza(step, tonality) ==
  [b \in Beat |->
     IF b < Beats \div 2
     THEN [note |-> (tonality + step + 2) % 12, mode |-> CHORD_MINOR \union CHORD_SEVENTH]
     ELSE [note |-> (tonality + step + 7) % 12, mode |-> CHORD_MAJOR \union CHORD_SEVENTH]]

(* The other one of the two, the sixth, is never taken: rand() % 1 is 0.    *)
TonalZoneChord(step, tonality) == Everywhere(tonality + step + 4, CHORD_MINOR)

RandomChord(conf) ==
  {c \in [Beat -> RandomChords] :
     conf.random_multi_chord > 0 \/ \A b \in Beat : c[b] = c[0]}

(* The substitutes for the chord of a step that some draw leads to: the     *)
(* thresholds are compared one after the other with a number below 100.     *)
Substitutes(step, tonality, conf) ==
  LET t == conf.chord_tritone
      c == Max({t, conf.chord_cadenza})
      z == Max({c, conf.chord_tonal_zone})
  IN (IF t > 0 THEN {Tritone(step, tonality)} ELSE {})
       \union (IF c > t THEN {Cadenza(step, tonality)} ELSE {})
       \union (IF z > c THEN {TonalZoneChord(step, tonality)} ELSE {})
       \union (IF z < 100 THEN RandomChord(conf) ELSE {})

-----------------------------------------------------------------------------
(* Tonal centres.                                                           *)

(* The measure of the pattern that is k-th in the window of a size around   *)
(* measure id.  (Mutant: not wrapped below 0.)                              *)
WindowIndexFlat(id, size, k, count) == id - (size \div 2) + k

WindowIndex(id, size, k, count) ==
  LET tmp == id - (size \div 2) + k
  IN IF tmp >= 0 THEN tmp % 12 ELSE count + tmp

Votes(m, step) ==
  IF CheckCadenza(m) >= 0
  THEN (IF CheckCadenza(m) = step THEN 1 ELSE 0)
  ELSE Cardinality({j \in DOMAIN m.steps : m.steps[j] = step})

(* The steps with most votes in a window, and in some window.               *)
Winners(measures, id, size) ==
  LET count == Len(measures)
      found == [step \in Pitch |->
                  MapThenSumSet(LAMBDA k : Votes(measures[WindowIndex(id, size, k, count) + 1], step),
                                0..size - 1)]
      most  == Max(Range(found))
  IN {step \in Pitch : found[step] = most}

Centres(measures, id) == UNION {Winners(measures, id, size) : size \in 1..Len(measures)}

-----------------------------------------------------------------------------
(* Scales.                                                                  *)

(* The special rules for the blues scale.  The steps above the octave are   *)
(* not brought back into it.                                                *)
BluesFits(step, note, tonality) ==
  /\ step \in {tonality, tonality + 5, tonality + 7}
  /\ \/ step = tonality + 5 /\ note = tonality + 5
     \/ step = tonality + 7 /\ note \in {tonality + 7, tonality + 4}
     \/ note \in {tonality, tonality + 2, tonality + 9}

Covers(scale, note, chord) ==
  RotateMask(chord.mode, chord.note) \subseteq RotateMask(scale, note)

(* (Mutant: the scale is not moved to its note.)                            *)
SuitableUnmoved(scales, chord, note, tonality) ==
  {s \in scales : \/ s = BLUES_SCALE /\ BluesFits(chord.note, note, tonality)
                  \/ Covers(s, 0, chord)}

Suitable(scales, chord, note, tonality) ==
  {s \in scales : \/ s = BLUES_SCALE /\ BluesFits(chord.note, note, tonality)
                  \/ Covers(s, note, chord)}

(* If no scale is suitable, the one that has most pitches in common; of     *)
(* equals the first one the database gives.  What is returned then is not   *)
(* the scale but its rotation.                                              *)
Shared(scale, chord, note) ==
  CountOnes(RotateMask(chord.mode, chord.note) \intersect RotateMask(scale, note))

MatchingScales(scales, chord, note, tonality) ==
  LET suitable == Suitable(scales, chord, note, tonality)
      best     == {s \in scales : \A r \in scales : Shared(s, chord, note) >= Shared(r, chord, note)}
  IN IF suitable # {} THEN suitable
     ELSE {IF Shared(s, chord, note) > 0 THEN RotateMask(s, note) ELSE {} : s \in best}

(* The tonal zones of a measure: one centre; one scale for the whole        *)
(* measure if one chord stands for it, else one for each beat.              *)
TonalZones(m, chords, centre, tonality, scales) ==
  LET note == (centre + tonality) % 12
      reference == [note |-> (Root(m) + tonality) % 12,
                    mode |-> chords[IF Len(m.steps) = 1 THEN 0 ELSE Beats - 1].mode]
      Of(b) == MatchingScales(scales, chords[b], note, tonality)
  IN IF OneChord(m)
     THEN {[b \in Beat |-> [note |-> note, scale |-> s]] :
             s \in MatchingScales(scales, reference, note, tonality)}
     ELSE {[b \in Beat |-> [note |-> note, scale |-> f[b]]] :
             f \in {g \in [Beat -> UNION {Of(b) : b \in Beat}] : \A b \in Beat : g[b] \in Of(b)}}
==============================================================================
