------------------------------ MODULE MCComposer ------------------------------
(***************************************************************************)
(* A small database for the composition: quarters of two semiquavers,       *)
(* measures of one and two quarters, eight musicians.                        *)
(***************************************************************************)
EXTENDS Composer

MajorSeventh == {0, 4, 7, 11}
Piano == 0
Bass  == 32

Sq(position, sure, pnote) == [position |-> position, sure |-> sure, pnote |-> pnote]

(* A quarter of the blues, as all those of db.sql are.                      *)
Row(pos, instr, cnote, dyna, solo, list) ==
  [accepts |-> [pos |-> {pos}, instr |-> instr, cnote |-> {cnote}, cmode |-> {MajorSeventh},
                genre |-> {"blues"}, dyna |-> {dyna}, mood |-> {"slow"}, scale |-> {"minor"},
                solo |-> {solo}],
   sqs |-> list]

MCQuarters ==
  {Row(0, {Piano}, 11, "groove", FALSE, <<Sq(0, FALSE, {0, 1, 12}), Sq(1, FALSE, {12})>>),
   Row(0, {Piano}, 11, "fill", FALSE, <<Sq(1, TRUE, {1})>>),
   Row(1, {Piano}, 11, "groove", TRUE, <<Sq(0, TRUE, {1, 12}), Sq(1, TRUE, {0, 1})>>),
   Row(1, {Bass}, 0, "groove", FALSE, <<Sq(0, FALSE, {5})>>),
   Row(0, {INSTRUMENT_DRUM}, 0, "groove", FALSE, <<Sq(0, FALSE, {0, 1}), Sq(1, FALSE, {1})>>)}

(* Two of the arrays of db.sql: the chord first, and the instrument first.  *)
ChordFirst == <<"mood", "dyna", "pos", "solo", "scale", "genre", "instr", "cmode", "cnote">>
InstrFirst == <<"cnote", "cmode", "scale", "genre", "solo", "mood", "dyna", "pos", "instr">>

Musician(instrument, play_chords, low, high, custom) ==
  [instrument |-> instrument, play_chords |-> play_chords,
   octave_min |-> low, octave_max |-> high, custom_prioargs |-> custom]

(* The last four have octaves a user gave them, none the database has.      *)
MCMusicians ==
  {Musician(Piano, FALSE, 6, 7, <<>>), Musician(Piano, TRUE, 6, 7, InstrFirst),
   Musician(INSTRUMENT_DRUM, FALSE, 0, 7, <<>>), Musician(Bass, FALSE, 1, 2, InstrFirst),
   Musician(Piano, FALSE, 8, 8, <<>>), Musician(Piano, TRUE, 10, 10, <<>>),
   Musician(Piano, TRUE, 19, 18, <<>>), Musician(Piano, TRUE, -3, 0, <<>>)}

Measure(upper, note, dyna, soloist) ==
  [tempo |-> [upper |-> upper, lower |-> SQS_IN_Q], prioargs |-> ChordFirst, soloist |-> soloist,
   chords |-> [b \in 0..upper - 1 |-> [note |-> note, mode |-> MajorSeventh]],
   tonal_zones |-> [b \in 0..upper - 1 |-> [note |-> 0, scale |-> "minor"]],
   tags |-> <<"blues", dyna, "slow">>]

MCMeasures == {Measure(2, 11, "groove", FALSE), Measure(2, 11, "groove", TRUE),
               Measure(2, 0, "fill", FALSE), Measure(1, 11, "fill", FALSE)}

MCDrumset == [d \in NoteIdx |-> 37 + d]
==============================================================================
