----------------------------- MODULE SoundProofs -----------------------------
(***************************************************************************)
(* The sound, for every band, chord, silence and order of arrival: nothing  *)
(* sounds after smorza_incosa; a musician plays on a channel of its         *)
(* instrument; all of it goes to the file; a round lasts a measure; a note  *)
(* sounds for as long as it lasts; what variabilize_val writes is read back *)
(* as what it was, so that every event is in the file at its time.          *)
(***************************************************************************)
EXTENDS Sound, SequenceTheorems, FiniteSetTheorems, WellFoundedInduction, TLAPS

(* Between the notes, data holds key-ups only, one array for each slot.     *)
DataUp ==
  /\ data = [s \in Channel |-> [k \in 1..MAX_CHORD_SIZE |-> data[s][k]]]
  /\ \A s \in Channel : \A k \in 1..MAX_CHORD_SIZE : data[s][k].kind = "up"

(* Whatever sounds, some slot will switch it off.                           *)
Pending ==
  \A x \in sounding : \E s \in Channel : \E k \in 1..MAX_CHORD_SIZE :
    x = <<data[s][k].ch, data[s][k].note>>

(* The parts of the round are parts a musician may write.                   *)
PartsKnown == \A s \in Slots : note_list[s].part \in Parts \union {<<>>}

QuietInv ==
  /\ band \in Bands
  /\ PartsKnown /\ DataUp
  /\ phase # "closed" => Pending
  /\ AllQuiet

-----------------------------------------------------------------------------
LEMMA SlotsAreChannels == band \in Bands => Slots \subseteq Channel
<1> SUFFICES ASSUME band \in Bands
             PROVE  Slots \subseteq Channel
  OBVIOUS
<1>1. Len(band) \in 1..MIDI_CHANNELS /\ MIDI_CHANNELS \in Nat
  BY SoundAssumption
<1> QED
  BY <1>1 DEF Slots, Channel

(* Each note of a chord has its place in the arrays of play_measure.        *)
LEMMA ChordFits ==
  ASSUME NEW part \in Parts, NEW n \in 1..Len(part)
  PROVE  Len(part[n].chord) \in 0..MAX_CHORD_SIZE
         /\ Range(part[n].chord) = {part[n].chord[k] : k \in 1..Len(part[n].chord)}
<1>1. part \in Seq([len : 1..Atoms, chord : Chords])
  BY SoundAssumption
<1>2. part[n] \in [len : 1..Atoms, chord : Chords]
  BY <1>1, ElementOfSeq
<1>3. part[n].chord \in Chords
  BY <1>2
<1>4. CASE part[n].chord \in UNION {[1..k -> Pitches] : k \in 0..MAX_CHORD_SIZE}
  <2>1. PICK k \in 0..MAX_CHORD_SIZE : part[n].chord \in [1..k -> Pitches]
    BY <1>4
  <2>2. k \in Nat /\ DOMAIN part[n].chord = 1..k /\ Len(part[n].chord) = k
    BY <2>1, SoundAssumption
  <2> QED
    BY <2>2 DEF Range
<1>5. CASE part[n].chord = <<REST>>
  BY <1>5, SoundAssumption DEF Range
<1> QED
  BY <1>3, <1>4, <1>5 DEF Chords

LEMMA InitQuiet == Init => QuietInv
BY DEF Init, QuietInv, PartsKnown, DataUp, Pending, AllQuiet

(* A new note: what the slot had is switched off; what sounds besides is    *)
(* still in another slot; the new notes are in this one.                    *)
LEMMA PlayNoteQuiet == QuietInv /\ PlayNote => QuietInv'
<1> SUFFICES ASSUME QuietInv, PlayNote
             PROVE  QuietInv'
  OBVIOUS
<1> DEFINE part == note_list[slot].part
           n == pointer[slot].next
           c == pointer[slot].ch
           chord == part[n].chord
           after == Heard(sounding, Range(data[slot]))
<1>1. slot \in Slots /\ slot \in Channel /\ n \in 1..Len(part)
  BY SlotsAreChannels DEF QuietInv, PlayNote
<1>2. part \in Parts
  <2>1. part \in Parts \union {<<>>}
    BY <1>1 DEF QuietInv, PartsKnown
  <2> QED
    BY <1>1, <2>1
<1>3. Len(chord) \in 0..MAX_CHORD_SIZE /\ Range(chord) = {chord[k] : k \in 1..Len(chord)}
  BY <1>1, <1>2, ChordFits
<1>4. /\ sounding' = Heard(after, Starts(chord, c))
      /\ data' = [data EXCEPT ![slot] = Ending(slot, chord, c)]
      /\ phase = "play"
      /\ UNCHANGED <<phase, band, note_list>>
  BY DEF PlayNote, HeardInOrder, roundVars
<1> HIDE DEF part, n, c, chord, after
<1>5. /\ \A s \in Channel : data'[s] = IF s = slot THEN Ending(slot, chord, c) ELSE data[s]
      /\ data' = [s \in Channel |-> data'[s]]
  <2>1. data = [s \in Channel |-> data[s]]
    BY DEF QuietInv, DataUp
  <2> QED
    BY <1>1, <1>4, <2>1
<1>6. DataUp'
  <2>1. \A k \in 1..MAX_CHORD_SIZE : Ending(slot, chord, c)[k].kind = "up"
    BY <1>1 DEF Ending, QuietInv, DataUp
  <2>2. Ending(slot, chord, c) =
          [k \in 1..MAX_CHORD_SIZE |-> Ending(slot, chord, c)[k]]
    BY DEF Ending
  <2>3. \A s \in Channel : data[s] = [k \in 1..MAX_CHORD_SIZE |-> data[s][k]]
    BY DEF QuietInv, DataUp
  <2>4. \A s \in Channel : data'[s] = [k \in 1..MAX_CHORD_SIZE |-> data'[s][k]]
    BY <1>5, <2>2, <2>3
  <2>5. \A s \in Channel : \A k \in 1..MAX_CHORD_SIZE : data'[s][k].kind = "up"
    BY <1>5, <2>1 DEF QuietInv, DataUp
  <2> QED
    BY <1>5, <2>4, <2>5 DEF DataUp, Channel
<1>7. Pending'
  <2> SUFFICES ASSUME NEW x \in sounding'
               PROVE  \E s \in Channel : \E k \in 1..MAX_CHORD_SIZE :
                        x = <<data'[s][k].ch, data'[s][k].note>>
    BY DEF Pending, Channel
  <2>1. CASE x \in after
    <3>1. x \in sounding /\ ~ \E e \in Range(data[slot]) : x = <<e.ch, e.note>>
      <4>1. \A k \in 1..MAX_CHORD_SIZE : data[slot][k].kind = "up"
        BY <1>1 DEF QuietInv, DataUp
      <4>2. Range(data[slot]) = {data[slot][k] : k \in 1..MAX_CHORD_SIZE}
        BY <1>1 DEF QuietInv, DataUp, Range
      <4>3. \A e \in Range(data[slot]) : e.kind = "up"
        BY <4>1, <4>2
      <4> QED
        BY <2>1, <4>3 DEF after, Heard
    <3>2. PICK s \in Channel, k \in 1..MAX_CHORD_SIZE : x = <<data[s][k].ch, data[s][k].note>>
      BY <1>4, <3>1 DEF QuietInv, Pending
    <3>3. s # slot
      <4>1. SUFFICES ASSUME s = slot PROVE FALSE
        OBVIOUS
      <4>2. data[slot][k] \in Range(data[slot])
        BY <1>1 DEF QuietInv, DataUp, Range
      <4> QED
        BY <3>1, <3>2, <4>1, <4>2
    <3> QED
      BY <1>5, <3>2, <3>3
  <2>2. CASE x \notin after
    <3>1. PICK e \in Starts(chord, c) : x = <<e.ch, e.note>>
      BY <1>4, <2>2 DEF Heard
    <3>2. PICK k \in 1..Len(chord) : x = <<c, chord[k]>>
      BY <1>3, <3>1 DEF Starts
    <3>3. k \in 1..MAX_CHORD_SIZE /\ k <= Len(chord)
      BY <1>3, SoundAssumption
    <3>4. data'[slot][k] = [kind |-> "up", ch |-> c, note |-> chord[k]]
      BY <1>1, <1>5, <3>3 DEF Ending
    <3> QED
      BY <1>1, <3>2, <3>3, <3>4
  <2> QED
    BY <2>1, <2>2
<1> QED
  BY <1>4, <1>6, <1>7 DEF QuietInv, PartsKnown, Slots, AllQuiet

(* The end: every slot is switched off, and every sound is in one.          *)
LEMMA SmorzaQuiet == QuietInv /\ SmorzaIncosa => QuietInv'
<1> SUFFICES ASSUME QuietInv, SmorzaIncosa
             PROVE  QuietInv'
  OBVIOUS
<1> DEFINE events == UNION {Range(data[c]) : c \in Channel}
<1>1. /\ phase = "wait" /\ phase' = "closed"
      /\ sounding' = Heard(sounding, events)
      /\ UNCHANGED <<band, data, note_list>>
  BY DEF SmorzaIncosa, roundVars
<1>2. \A s \in Channel : Range(data[s]) = {data[s][k] : k \in 1..MAX_CHORD_SIZE}
  BY DEF QuietInv, DataUp, Range
<1>3. \A e \in events : e.kind = "up"
  <2>1. SUFFICES ASSUME NEW s \in Channel, NEW e \in Range(data[s])
                 PROVE  e.kind = "up"
    OBVIOUS
  <2>2. PICK k \in 1..MAX_CHORD_SIZE : e = data[s][k]
    BY <1>2, <2>1
  <2> QED
    BY <2>2 DEF QuietInv, DataUp
<1>4. \A x \in sounding : \E e \in events : x = <<e.ch, e.note>>
  BY <1>1, <1>2 DEF QuietInv, Pending
<1> HIDE DEF events
<1>5. sounding' = {}
  BY <1>1, <1>3, <1>4 DEF Heard
<1>6. PartsKnown' /\ DataUp'
  BY <1>1 DEF QuietInv, PartsKnown, Slots, DataUp, Channel
<1> QED
  BY <1>1, <1>5, <1>6 DEF QuietInv, AllQuiet

(* The other steps neither sound anything nor change data.                  *)
LEMMA OtherQuiet ==
  QuietInv /\ (BindMusician \/ EndSetup \/ RecvRound \/ EndOfPart \/ CountDown \/ SkipSlot
               \/ NextAtom \/ UNCHANGED vars) => QuietInv'
<1> SUFFICES ASSUME QuietInv,
                    BindMusician \/ EndSetup \/ RecvRound \/ EndOfPart \/ CountDown
                      \/ SkipSlot \/ NextAtom \/ UNCHANGED vars
             PROVE  QuietInv'
  OBVIOUS
<1>1. UNCHANGED <<band, data, sounding>>
  BY DEF BindMusician, EndSetup, RecvRound, EndOfPart, CountDown, SkipSlot, NextAtom, vars
<1>2. phase' = "closed" => phase = "closed"
  BY DEF BindMusician, EndSetup, RecvRound, EndOfPart, CountDown, SkipSlot, NextAtom, vars
<1>3. PartsKnown'
  <2>1. CASE RecvRound
    <3>1. PICK who \in Bijection(Slots, DOMAIN band), part \in [Slots -> Parts] :
            note_list' = [s \in Slots |-> [who |-> who[s], part |-> part[s]]]
      BY <2>1 DEF RecvRound
    <3> QED
      BY <1>1, <3>1 DEF PartsKnown, Slots
  <2>2. CASE UNCHANGED note_list
    BY <1>1, <2>2 DEF QuietInv, PartsKnown, Slots
  <2> QED
    BY <2>1, <2>2 DEF BindMusician, EndSetup, EndOfPart, CountDown, SkipSlot, NextAtom, vars,
                      roundVars
<1> QED
  BY <1>1, <1>2, <1>3 DEF QuietInv, DataUp, Pending, AllQuiet, Channel

(* Everything that sounds will be switched off, at every moment.            *)
THEOREM AlwaysPending == Spec => []QuietInv
<1>1. QuietInv /\ [Next]_vars => QuietInv'
  BY PlayNoteQuiet, SmorzaQuiet, OtherQuiet DEF Next, Ended
<1> QED
  BY <1>1, InitQuiet, PTL DEF Spec

(* After smorza_incosa nothing sounds.                                      *)
THEOREM QuietAtTheEnd == Spec => []AllQuiet
<1>1. QuietInv => AllQuiet
  BY DEF QuietInv
<1> QED
  BY <1>1, AlwaysPending, PTL

-----------------------------------------------------------------------------
(* The channels.                                                            *)

LEMMA HasLeast ==
  ASSUME NEW S \in SUBSET Nat, S # {}
  PROVE  \E x \in S : \A y \in S : x <= y
<1> DEFINE R == OpToRel(<, Nat)
<1>1. IsWellFoundedOn(R, Nat)
  BY NatLessThanWellFounded
<1>2. \A a, b \in Nat : <<a, b>> \in R <=> a < b
  BY DEF OpToRel
<1> HIDE DEF R
<1>3. PICK x \in S : \A y \in S : ~(<<y, x>> \in R)
  BY <1>1, WFMin
<1>4. ASSUME NEW y \in S
      PROVE  x <= y
  <2>1. x \in Nat /\ y \in Nat
    OBVIOUS
  <2>2. ~(y < x)
    BY <1>2, <1>3, <2>1
  <2> QED
    BY <2>1, <2>2
<1> QED
  BY <1>4

(* The drums' channel, counted from zero.                                   *)
Drums == MIDI_DRUM_CHANNEL - 1

(* The musicians that are not drummers, of the first b.                     *)
Players(b) == {m \in NonDrums(band) : m <= b}

(* What midi_init has done after some musicians: the others come one after  *)
(* the other, past the drums' channel; the rest of the channels is free,    *)
(* the first one too.  A channel that is not free has a track.              *)
BindInv ==
  /\ band \in Bands
  /\ bound \in 0..Len(band)
  /\ Channels \in [Channel -> Nat] /\ program = Channels
  /\ chcounter = Cardinality(Players(bound))
                   + (IF Cardinality(Players(bound)) >= Drums THEN 1 ELSE 0)
  /\ Channels[0] = 0 /\ Channels[Drums] \in {0, INSTRUMENT_DRUM}
  /\ \A c \in Channel : /\ Channels[c] = INSTRUMENT_DRUM => c = Drums
                        /\ c > chcounter /\ c # Drums => Channels[c] = 0
  /\ \A m \in 1..bound : \E c \in Channel : Channels[c] = band[m]
  /\ DOMAIN tracks = Channel
  /\ \A c \in Channel : /\ "open" \in DOMAIN tracks[c]
                        /\ Channels[c] # 0 => tracks[c].open

(* Each slot has a channel of the class of its musician.                    *)
PlayInv ==
  /\ phase # "setup" => bound = Len(band)
  /\ phase = "play" =>
       /\ pointer \in [Slots -> [next : Nat, left : Int, ch : Channel]]
       /\ \A s \in Slots :
            /\ note_list[s].who \in DOMAIN band
            /\ pointer[s].ch = FindMidiChannel(band[note_list[s].who])

LEMMA SoundConstants ==
  /\ MIDI_CHANNELS \in Nat \ {0} /\ Drums \in 2..MIDI_CHANNELS - 1
  /\ INSTRUMENT_DRUM \in Nat \ {0}
  /\ Channel \subseteq Nat /\ 0 \in Channel /\ Drums \in Channel
BY SoundAssumption DEF Drums, Channel

LEMMA BandType ==
  ASSUME band \in Bands
  PROVE  /\ Len(band) \in Nat /\ DOMAIN band = 1..Len(band)
         /\ \A m \in 1..Len(band) : band[m] \in Nat
<1>1. band \in Seq(Nat)
  BY SoundAssumption
<1> QED
  BY <1>1

LEMMA PlayersCounted ==
  ASSUME band \in Bands, NEW b \in 0..Len(band)
  PROVE  /\ IsFiniteSet(Players(b)) /\ Cardinality(Players(b)) \in Nat
         /\ Cardinality(Players(b)) <= MIDI_CHANNELS - 2
<1>1. IsFiniteSet(1..Len(band)) /\ NonDrums(band) \in SUBSET (1..Len(band))
  BY BandType, FS_Interval DEF NonDrums
<1>2. IsFiniteSet(NonDrums(band))
  BY <1>1, FS_Subset
<1>3. Players(b) \in SUBSET NonDrums(band)
  BY DEF Players
<1>4. IsFiniteSet(Players(b)) /\ Cardinality(Players(b)) <= Cardinality(NonDrums(band))
  BY <1>2, <1>3, FS_Subset
<1>5. Cardinality(Players(b)) \in Nat /\ Cardinality(NonDrums(band)) \in Nat
  BY <1>2, <1>4, FS_CardinalityType
<1>6. Cardinality(NonDrums(band)) <= MIDI_CHANNELS - 2
  BY SoundAssumption
<1> QED
  BY <1>4, <1>5, <1>6, SoundConstants

LEMMA OnePlayerMore ==
  ASSUME band \in Bands, NEW b \in 0..Len(band) - 1
  PROVE  Cardinality(Players(b + 1)) =
           Cardinality(Players(b)) + (IF band[b + 1] = INSTRUMENT_DRUM THEN 0 ELSE 1)
<1>1. Len(band) \in Nat /\ DOMAIN band = 1..Len(band) /\ b \in 0..Len(band)
  BY BandType
<1>2. CASE band[b + 1] = INSTRUMENT_DRUM
  <2>1. Players(b + 1) = Players(b)
    BY <1>1, <1>2 DEF Players, NonDrums
  <2> QED
    BY <1>1, <1>2, <2>1, PlayersCounted
<1>3. CASE band[b + 1] # INSTRUMENT_DRUM
  <2>1. Players(b + 1) = Players(b) \union {b + 1} /\ b + 1 \notin Players(b)
    BY <1>1, <1>3 DEF Players, NonDrums
  <2>2. IsFiniteSet(Players(b))
    BY <1>1, PlayersCounted
  <2> QED
    BY <1>3, <2>1, <2>2, FS_AddElement
<1> QED
  BY <1>2, <1>3

LEMMA InitBound == Init => BindInv /\ PlayInv
<1> SUFFICES ASSUME Init
             PROVE  BindInv /\ PlayInv
  OBVIOUS
<1>1. /\ phase = "setup" /\ band \in Bands /\ bound = 0 /\ chcounter = 0
      /\ Channels = [c \in Channel |-> 0] /\ program = [c \in Channel |-> 0]
      /\ tracks = [c \in Channel |-> [open |-> FALSE, last |-> 0, time |-> 0]]
  BY DEF Init
<1>2. Players(0) = {}
  BY <1>1, BandType DEF Players, NonDrums
<1>3. Cardinality(Players(0)) = 0
  BY <1>2, FS_EmptySet
<1>4. bound \in 0..Len(band)
  BY <1>1, BandType
<1> QED
  BY <1>1, <1>3, <1>4, SoundConstants DEF BindInv, PlayInv

(* A musician gets a channel of its own class that nobody else needs.       *)
LEMMA BindKeeps == BindInv /\ PlayInv /\ BindMusician => BindInv' /\ PlayInv'
<1> SUFFICES ASSUME BindInv, PlayInv, BindMusician
             PROVE  BindInv' /\ PlayInv'
  OBVIOUS
<1> DEFINE class == band[bound + 1]
           t == ChannelFor(class)
           count == Cardinality(Players(bound))
<1>1. /\ phase = "setup" /\ phase' = phase /\ band' = band
      /\ bound \in 0..Len(band) - 1 /\ band \in Bands
  BY BandType DEF BindInv, BindMusician
<1>2. class \in Nat /\ bound + 1 \in 1..Len(band) /\ Len(band) \in Nat
  BY <1>1, BandType
<1>3. /\ count \in Nat
      /\ Cardinality(Players(bound + 1)) = count + (IF class = INSTRUMENT_DRUM THEN 0 ELSE 1)
      /\ Cardinality(Players(bound + 1)) <= MIDI_CHANNELS - 2
  <2>1. bound \in 0..Len(band) /\ bound + 1 \in 0..Len(band)
    BY <1>1, <1>2
  <2> QED
    BY <1>1, <2>1, PlayersCounted, OnePlayerMore
<1>4. chcounter = count + (IF count >= Drums THEN 1 ELSE 0)
  BY DEF BindInv
<1> HIDE DEF class, t, count
<1>5. chcounter \in Nat /\ chcounter # Drums
  BY <1>3, <1>4, SoundConstants
<1>6. /\ t \in Channel
      /\ class = INSTRUMENT_DRUM => t = Drums
      /\ class # INSTRUMENT_DRUM =>
           /\ t > chcounter /\ t # Drums
           /\ t = (count + 1) + (IF count + 1 >= Drums THEN 1 ELSE 0)
  <2>1. CASE class = INSTRUMENT_DRUM
    BY <2>1, SoundConstants DEF t, ChannelFor, Drums
  <2>2. CASE class # INSTRUMENT_DRUM
    <3>1. t = IF chcounter = Drums - 1 THEN chcounter + 2 ELSE chcounter + 1
      BY <2>2, SoundAssumption DEF t, ChannelFor, NextChannel, Drums
    <3>2. t = (count + 1) + (IF count + 1 >= Drums THEN 1 ELSE 0)
      BY <1>3, <1>4, <3>1, SoundConstants
    <3>3. t \in Nat /\ t <= MIDI_CHANNELS - 1
      BY <1>3, <2>2, <3>2, SoundConstants
    <3> QED
      BY <1>3, <1>5, <2>2, <3>1, <3>2, <3>3, SoundConstants DEF Channel
  <2> QED
    BY <2>1, <2>2
<1>7. /\ Channels' = [Channels EXCEPT ![t] = class]
      /\ program' = [program EXCEPT ![t] = class]
      /\ tracks' = [tracks EXCEPT ![t] = [open |-> TRUE, last |-> 0, time |-> 0]]
      /\ chcounter' = IF class = INSTRUMENT_DRUM THEN chcounter ELSE t
      /\ bound' = bound + 1
  BY <1>5 DEF BindMusician, class, t, Drums
<1>8. /\ Channels \in [Channel -> Nat] /\ program = Channels /\ DOMAIN tracks = Channel
      /\ Channels[0] = 0 /\ Channels[Drums] \in {0, INSTRUMENT_DRUM}
      /\ \A c \in Channel : /\ Channels[c] = INSTRUMENT_DRUM => c = Drums
                            /\ c > chcounter /\ c # Drums => Channels[c] = 0
                            /\ "open" \in DOMAIN tracks[c]
                            /\ Channels[c] # 0 => tracks[c].open
      /\ \A m \in 1..bound : \E c \in Channel : Channels[c] = band[m]
  BY DEF BindInv
<1>9. \A c \in Channel : Channels'[c] = IF c = t THEN class ELSE Channels[c]
  BY <1>7, <1>8
<1>10. Channels[t] = 0 \/ Channels[t] = class
  BY <1>6, <1>8, SoundConstants
<1>11. t # 0
  BY <1>5, <1>6, SoundConstants
<1>12. \A m \in 1..bound' : \E c \in Channel' : Channels'[c] = band'[m]
  <2> SUFFICES ASSUME NEW m \in 1..bound'
               PROVE  \E c \in Channel : Channels'[c] = band[m]
    BY <1>1 DEF Channel
  <2>1. CASE m = bound + 1
    <3>1. Channels'[t] = class
      BY <1>6, <1>9
    <3> QED
      BY <1>6, <2>1, <3>1 DEF class
  <2>2. CASE m # bound + 1
    <3>1. m \in 1..bound
      BY <1>1, <1>7, <2>2
    <3>2. PICK c \in Channel : Channels[c] = band[m]
      BY <1>8, <3>1
    <3>3. CASE c # t \/ class = band[m]
      BY <1>9, <3>2, <3>3
    <3>4. CASE c = t /\ class # band[m]
      <4>1. band[m] = 0
        BY <1>10, <3>2, <3>4
      <4>2. 0 \in Channel /\ Channels'[0] = 0
        BY <1>8, <1>9, <1>11, SoundConstants
      <4> QED
        BY <4>1, <4>2
    <3> QED
      BY <3>3, <3>4
  <2> QED
    BY <2>1, <2>2
<1>13. DOMAIN tracks' = Channel
  BY <1>7, <1>8
<1>14. ASSUME NEW c \in Channel
       PROVE  /\ "open" \in DOMAIN tracks'[c]
              /\ Channels'[c] # 0 => tracks'[c].open
  <2>1. CASE c = t
    <3>1. tracks'[c] = [open |-> TRUE, last |-> 0, time |-> 0]
      BY <1>7, <1>8, <2>1
    <3> QED
      BY <3>1
  <2>2. CASE c # t
    <3>1. tracks'[c] = tracks[c] /\ Channels'[c] = Channels[c]
      BY <1>7, <1>8, <1>9, <2>2
    <3> QED
      BY <1>8, <3>1
  <2> QED
    BY <2>1, <2>2
<1>15. ASSUME NEW c \in Channel
       PROVE  /\ Channels'[c] = INSTRUMENT_DRUM => c = Drums
              /\ c > chcounter' /\ c # Drums => Channels'[c] = 0
  <2>1. CASE class = INSTRUMENT_DRUM
    BY <1>6, <1>7, <1>8, <1>9, <2>1
  <2>2. CASE class # INSTRUMENT_DRUM
    <3>1. c \in Nat /\ t \in Nat
      BY <1>6, SoundConstants
    <3> QED
      BY <1>5, <1>6, <1>7, <1>8, <1>9, <2>2, <3>1
  <2> QED
    BY <2>1, <2>2
<1>16. Channels' \in [Channel -> Nat] /\ program' = Channels'
  BY <1>2, <1>7, <1>8
<1>17. Channels'[0] = 0 /\ Channels'[Drums] \in {0, INSTRUMENT_DRUM}
  BY <1>6, <1>8, <1>9, <1>11, SoundConstants
<1>18. Players(bound)' = Players(bound + 1) /\ bound' \in 0..Len(band')
  BY <1>1, <1>2, <1>7 DEF Players
<1>19. chcounter' = Cardinality(Players(bound))'
                      + (IF Cardinality(Players(bound))' >= Drums THEN 1 ELSE 0)
  BY <1>3, <1>4, <1>6, <1>7, <1>18
<1>20. BindInv'
  BY <1>1, <1>12, <1>13, <1>14, <1>15, <1>16, <1>17, <1>18, <1>19 DEF BindInv, Channel, Drums
<1>21. PlayInv'
  BY <1>1 DEF PlayInv
<1> QED
  BY <1>20, <1>21

(* findMidiChannel finds a channel of the class.                            *)
LEMMA ChannelFound ==
  ASSUME BindInv, bound = Len(band), NEW m \in DOMAIN band
  PROVE  LET c == FindMidiChannel(band[m])
         IN /\ c \in Channel /\ Channels[c] = band[m]
            /\ c = Drums <=> band[m] = INSTRUMENT_DRUM
            /\ band[m] = 0 => c = 0
<1> DEFINE S == {c \in Channel : Channels[c] = band[m]}
           found == FindMidiChannel(band[m])
<1>1. m \in 1..bound
  BY BandType DEF BindInv
<1>2. S # {} /\ S \in SUBSET Nat
  BY <1>1, SoundConstants DEF BindInv
<1>3. \E x \in S : \A y \in S : x <= y
  BY <1>2, HasLeast
<1>4. found \in S /\ \A y \in S : found <= y
  <2>1. found = CHOOSE x \in S : \A y \in S : x <= y
    BY DEF FindMidiChannel, Min
  <2> HIDE DEF S, found
  <2> QED
    BY <1>3, <2>1
<1>5. band[m] = 0 => found = 0
  <2> SUFFICES ASSUME band[m] = 0
               PROVE  found = 0
    OBVIOUS
  <2>1. 0 \in S
    BY SoundConstants DEF BindInv
  <2>2. found \in Nat
    BY <1>2, <1>4
  <2>3. found <= 0
    BY <1>4, <2>1
  <2> QED
    BY <2>2, <2>3
<1>6. found \in Channel /\ Channels[found] = band[m]
  BY <1>4
<1> HIDE DEF found, S
<1>7. found = Drums => band[m] = INSTRUMENT_DRUM
  BY <1>5, <1>6, SoundConstants DEF BindInv
<1>8. band[m] = INSTRUMENT_DRUM => found = Drums
  BY <1>6 DEF BindInv
<1> QED
  BY <1>5, <1>6, <1>7, <1>8 DEF found

(* Events are written to tracks that are open, and open none.               *)
LEMMA WrittenOpen ==
  ASSUME DOMAIN tracks = Channel, \A c \in Channel : "open" \in DOMAIN tracks[c],
         NEW events
  PROVE  /\ DOMAIN Written(events) = Channel
         /\ \A c \in Channel : /\ "open" \in DOMAIN Written(events)[c]
                               /\ Written(events)[c].open = tracks[c].open
<1>1. ASSUME NEW c \in Channel
      PROVE  "open" \in DOMAIN Stamped(tracks[c]) /\ Stamped(tracks[c]).open = tracks[c].open
  BY DEF Stamped
<1> QED
  BY <1>1 DEF Written

LEMMA RoundKeeps == BindInv /\ PlayInv /\ RecvRound => BindInv' /\ PlayInv'
<1> SUFFICES ASSUME BindInv, PlayInv, RecvRound
             PROVE  BindInv' /\ PlayInv'
  OBVIOUS
<1>1. /\ phase = "wait"
      /\ UNCHANGED <<band, bound, chcounter, Channels, program, tracks>>
  BY DEF RecvRound, setupVars
<1>2. BindInv'
  BY <1>1 DEF BindInv, Players, Channel
<1>3. PICK who \in Bijection(Slots, DOMAIN band), part \in [Slots -> Parts] :
        /\ note_list' = [s \in Slots |-> [who |-> who[s], part |-> part[s]]]
        /\ pointer' = [s \in Slots |->
             [next |-> 1, left |-> 0, ch |-> FindMidiChannel(band[who[s]])]]
  BY DEF RecvRound
<1>4. bound = Len(band)
  BY <1>1 DEF PlayInv
<1>5. ASSUME NEW s \in Slots
      PROVE  who[s] \in DOMAIN band /\ FindMidiChannel(band[who[s]]) \in Channel
  <2>1. who \in [Slots -> DOMAIN band]
    BY <1>3 DEF Bijection, Injection
  <2> QED
    BY <1>4, <2>1, ChannelFound
<1>6. pointer' \in [Slots -> [next : Nat, left : Int, ch : Channel]]
  BY <1>3, <1>5
<1>7. ASSUME NEW s \in Slots
      PROVE  /\ note_list'[s].who \in DOMAIN band
             /\ pointer'[s].ch = FindMidiChannel(band[note_list'[s].who])
  BY <1>3, <1>5
<1>8. Slots' = Slots /\ Channel' = Channel
      /\ \A c : FindMidiChannel(c)' = FindMidiChannel(c)
  BY <1>1 DEF Slots, Channel, FindMidiChannel
<1>9. PlayInv'
  BY <1>1, <1>4, <1>6, <1>7, <1>8 DEF PlayInv, FindMidiChannel, Channel
<1> QED
  BY <1>2, <1>9

(* The steps of play_measure move in the parts, on the same channels.       *)
LEMMA PlayKeeps ==
  QuietInv /\ BindInv /\ PlayInv /\ (PlayNote \/ EndOfPart \/ CountDown)
    => BindInv' /\ PlayInv'
<1> SUFFICES ASSUME QuietInv, BindInv, PlayInv, PlayNote \/ EndOfPart \/ CountDown
             PROVE  BindInv' /\ PlayInv'
  OBVIOUS
<1>1. /\ phase = "play" /\ phase' = phase /\ slot \in Slots
      /\ UNCHANGED <<band, bound, chcounter, Channels, program, note_list>>
  BY DEF PlayNote, EndOfPart, CountDown, setupVars, roundVars
<1>2. /\ DOMAIN tracks' = Channel
      /\ \A c \in Channel : "open" \in DOMAIN tracks'[c] /\ tracks'[c].open = tracks[c].open
  <2>1. CASE tracks' = tracks
    BY <2>1 DEF BindInv
  <2>2. CASE PlayNote
    <3>1. PICK events : tracks' = Written(events)
      BY <2>2 DEF PlayNote
    <3> QED
      BY <3>1, WrittenOpen DEF BindInv
  <2> QED
    BY <2>1, <2>2 DEF EndOfPart, CountDown
<1>3. BindInv'
  BY <1>1, <1>2 DEF BindInv, Players, Channel
<1>4. /\ pointer \in [Slots -> [next : Nat, left : Int, ch : Channel]]
      /\ \A s \in Slots : /\ note_list[s].who \in DOMAIN band
                          /\ pointer[s].ch = FindMidiChannel(band[note_list[s].who])
  BY <1>1 DEF PlayInv
<1>5. \E n \in Nat, l \in Int :
        pointer' = [pointer EXCEPT ![slot] = [next |-> n, left |-> l, ch |-> pointer[slot].ch]]
  <2>0. pointer[slot] \in [next : Nat, left : Int, ch : Channel]
    BY <1>1, <1>4
  <2>1. CASE PlayNote
    <3> DEFINE part == note_list[slot].part
               n == pointer[slot].next
    <3>1. n \in 1..Len(part)
          /\ pointer' = [pointer EXCEPT ![slot].next = n + 1, ![slot].left = Countdown(part[n])]
      BY <2>1 DEF PlayNote
    <3>2. part[n] \in [len : 1..Atoms, chord : Chords]
      <4>1. part \in Parts
        BY <1>1, <3>1 DEF QuietInv, PartsKnown
      <4> QED
        BY <3>1, <4>1, SoundAssumption, ElementOfSeq
    <3>3. Countdown(part[n]) \in Int /\ n + 1 \in Nat
      BY <2>0, <3>2, SoundAssumption DEF Countdown
    <3> HIDE DEF n, part
    <3>4. [[pointer[slot] EXCEPT !.next = n + 1] EXCEPT !.left = Countdown(part[n])] =
            [next |-> n + 1, left |-> Countdown(part[n]), ch |-> pointer[slot].ch]
      <4> DEFINE before == [next |-> n + 1, left |-> pointer[slot].left, ch |-> pointer[slot].ch]
      <4>1. [pointer[slot] EXCEPT !.next = n + 1] = before
        BY <2>0
      <4>2. ASSUME NEW l
            PROVE  [before EXCEPT !.left = l] = [next |-> n + 1, left |-> l,
                                                 ch |-> pointer[slot].ch]
        OBVIOUS
      <4> QED
        BY <4>1, <4>2
    <3>5. pointer' = [pointer EXCEPT ![slot] =
                        [[pointer[slot] EXCEPT !.next = n + 1] EXCEPT !.left = Countdown(part[n])]]
      BY <1>1, <1>4, <3>1
    <3> QED
      BY <3>3, <3>4, <3>5
  <2>2. CASE EndOfPart
    <3>1. [pointer[slot] EXCEPT !.next = 0] =
            [next |-> 0, left |-> pointer[slot].left, ch |-> pointer[slot].ch]
      BY <2>0
    <3>2. pointer' = [pointer EXCEPT ![slot] = [pointer[slot] EXCEPT !.next = 0]]
      BY <2>2 DEF EndOfPart
    <3>3. 0 \in Nat /\ pointer[slot].left \in Int
      BY <2>0
    <3> QED
      BY <3>1, <3>2, <3>3
  <2>3. CASE CountDown
    <3>1. [pointer[slot] EXCEPT !.left = @ - 1] =
            [next |-> pointer[slot].next, left |-> pointer[slot].left - 1,
             ch |-> pointer[slot].ch]
      BY <2>0
    <3>2. pointer' = [pointer EXCEPT ![slot] = [pointer[slot] EXCEPT !.left = @ - 1]]
      BY <2>3 DEF CountDown
    <3>3. pointer[slot].next \in Nat /\ pointer[slot].left - 1 \in Int
      BY <2>0
    <3> QED
      BY <3>1, <3>2, <3>3
  <2> QED
    BY <2>1, <2>2, <2>3
<1>6. pointer' \in [Slots -> [next : Nat, left : Int, ch : Channel]]
  BY <1>1, <1>4, <1>5
<1>7. \A s \in Slots : pointer'[s].ch = pointer[s].ch
  BY <1>1, <1>4, <1>5
<1>8. PlayInv'
  <2>1. Slots' = Slots /\ Channel' = Channel
    BY <1>1 DEF Slots, Channel
  <2>2. \A s \in Slots : pointer'[s].ch = FindMidiChannel(band[note_list[s].who])'
    BY <1>1, <1>4, <1>7 DEF FindMidiChannel, Channel
  <2> QED
    BY <1>1, <1>4, <1>6, <2>1, <2>2 DEF PlayInv
<1> QED
  BY <1>3, <1>8

LEMMA OtherKeeps ==
  BindInv /\ PlayInv /\ (EndSetup \/ SkipSlot \/ NextAtom \/ SmorzaIncosa \/ UNCHANGED vars)
    => BindInv' /\ PlayInv'
<1> SUFFICES ASSUME BindInv, PlayInv,
                    EndSetup \/ SkipSlot \/ NextAtom \/ SmorzaIncosa \/ UNCHANGED vars
             PROVE  BindInv' /\ PlayInv'
  OBVIOUS
<1>1. UNCHANGED <<band, bound, chcounter, Channels, program, note_list, pointer>>
  BY DEF EndSetup, SkipSlot, NextAtom, SmorzaIncosa, setupVars, roundVars, vars
<1>2. /\ DOMAIN tracks' = Channel
      /\ \A c \in Channel : "open" \in DOMAIN tracks'[c] /\ tracks'[c].open = tracks[c].open
  <2>1. CASE tracks' = tracks
    BY <2>1 DEF BindInv
  <2>2. CASE SmorzaIncosa
    <3>1. PICK events : tracks' = Written(events)
      BY <2>2 DEF SmorzaIncosa
    <3> QED
      BY <3>1, WrittenOpen DEF BindInv
  <2> QED
    BY <2>1, <2>2 DEF EndSetup, SkipSlot, NextAtom, vars
<1>3. BindInv'
  BY <1>1, <1>2 DEF BindInv, Players, Channel
<1>4. /\ phase' = "play" => phase = "play"
      /\ phase' # "setup" => phase # "setup" \/ bound = Len(band)
  BY DEF EndSetup, SkipSlot, NextAtom, SmorzaIncosa, vars
<1>5. PlayInv'
  BY <1>1, <1>4 DEF PlayInv, Slots, Channel, FindMidiChannel
<1> QED
  BY <1>3, <1>5

LEMMA NextBound ==
  QuietInv /\ BindInv /\ PlayInv /\ [Next]_vars => BindInv' /\ PlayInv'
BY BindKeeps, RoundKeeps, PlayKeeps, OtherKeeps DEF Next, Ended

LEMMA BoundAlways == Spec => [](QuietInv /\ BindInv /\ PlayInv)
BY AlwaysPending, InitBound, NextBound, PTL DEF Spec

(* For any band with room on the channels: a musician plays with the        *)
(* instrument of its class, whatever slot it is in, and only drummers play  *)
(* on the drum channel.                                                     *)
THEOREM TimbreHolds == Spec => []OwnTimbre
<1>1. BindInv /\ PlayInv => OwnTimbre
  <2> SUFFICES ASSUME BindInv, PlayInv, phase = "play", NEW s \in Slots
               PROVE  LET class == band[note_list[s].who]
                          c     == pointer[s].ch
                      IN program[c] = class /\ (c = Drums <=> class = INSTRUMENT_DRUM)
    BY DEF OwnTimbre, Drums
  <2>1. /\ bound = Len(band) /\ note_list[s].who \in DOMAIN band
        /\ pointer[s].ch = FindMidiChannel(band[note_list[s].who])
        /\ program = Channels
    BY DEF BindInv, PlayInv
  <2> QED
    BY <2>1, ChannelFound
<1> QED
  BY <1>1, BoundAlways, PTL

FileInv == FileComplete /\ \A x \in sounding : x[1] \in Channel

(* Only an event that begins a note makes something sound.                  *)
LEMMA NewlyHeard ==
  ASSUME NEW on, NEW events, NEW x \in Heard(on, events), x \notin on
  PROVE  \E e \in events : e.kind = "down" /\ x = <<e.ch, e.note>>
BY DEF Heard

(* What is switched on is on a channel with a track, or is a grand piano's. *)
LEMMA FileKeeps ==
  QuietInv /\ BindInv /\ PlayInv /\ FileInv /\ [Next]_vars => FileInv'
<1> SUFFICES ASSUME QuietInv, BindInv, PlayInv, FileInv, [Next]_vars,
                    NEW x \in sounding'
             PROVE  /\ x[1] \in Channel
                    /\ tracks'[x[1]].open \/ (x[1] = 0 /\ 0 \in Range(band'))
  BY DEF FileInv, FileComplete, Channel
<1>1. band' = band
  BY DEF Next, BindMusician, EndSetup, RecvRound, PlayNote, EndOfPart, CountDown, SkipSlot,
         NextAtom, SmorzaIncosa, Ended, vars
<1>2. \A c \in Channel : tracks[c].open => tracks'[c].open
  <2>1. CASE tracks' = tracks
    BY <2>1
  <2>2. CASE \E events : tracks' = Written(events)
    BY <2>2, WrittenOpen DEF BindInv
  <2>3. CASE \E t : tracks' = [tracks EXCEPT ![t] = [open |-> TRUE, last |-> 0, time |-> 0]]
    BY <2>3 DEF BindInv
  <2>4. \/ tracks' = tracks
        \/ \E events : tracks' = Written(events)
        \/ \E t : tracks' = [tracks EXCEPT ![t] = [open |-> TRUE, last |-> 0, time |-> 0]]
    BY DEF Next, BindMusician, EndSetup, RecvRound, PlayNote, EndOfPart, CountDown, SkipSlot,
           NextAtom, SmorzaIncosa, Ended, vars
  <2> QED
    BY <2>1, <2>2, <2>3, <2>4
<1>3. CASE x \in sounding
  BY <1>1, <1>2, <1>3 DEF FileInv, FileComplete
<1>4. CASE x \notin sounding
  <2>1. CASE PlayNote
    <3> DEFINE part == note_list[slot].part
               n == pointer[slot].next
               c == pointer[slot].ch
               m == note_list[slot].who
    <3>1. /\ phase = "play" /\ slot \in Slots
          /\ sounding' = Heard(Heard(sounding, Range(data[slot])), Starts(part[n].chord, c))
      BY <2>1 DEF PlayNote, HeardInOrder
    <3>2. \A e \in Range(data[slot]) : e.kind # "down"
      BY <3>1, SlotsAreChannels DEF QuietInv, DataUp, Range
    <3>3. x[1] = c
      <4>1. x \notin Heard(sounding, Range(data[slot]))
        BY <1>4, <3>2, NewlyHeard
      <4>2. PICK e \in Starts(part[n].chord, c) : x = <<e.ch, e.note>>
        BY <3>1, <4>1, NewlyHeard
      <4>3. e.ch = c
        BY DEF Starts
      <4> QED
        BY <4>2, <4>3
    <3>4. bound = Len(band) /\ m \in DOMAIN band /\ c = FindMidiChannel(band[m])
      BY <3>1 DEF PlayInv
    <3>5. c \in Channel /\ Channels[c] = band[m] /\ (band[m] = 0 => c = 0)
      BY <3>4, ChannelFound
    <3> HIDE DEF c, m, n, part
    <3>6. CASE band[m] = 0
      BY <1>1, <3>3, <3>4, <3>5, <3>6 DEF Range
    <3>7. CASE band[m] # 0
      <4>1. tracks[c].open
        BY <3>5, <3>7 DEF BindInv
      <4> QED
        BY <1>2, <3>3, <3>5, <4>1
    <3> QED
      BY <3>6, <3>7
  <2>2. CASE SmorzaIncosa
    <3>1. sounding' = {}
      BY <2>2, SmorzaQuiet DEF QuietInv, AllQuiet, SmorzaIncosa
    <3> QED
      BY <3>1
  <2>3. CASE sounding' = sounding
    BY <1>4, <2>3
  <2> QED
    BY <2>1, <2>2, <2>3 DEF Next, BindMusician, EndSetup, RecvRound, EndOfPart, CountDown,
                            SkipSlot, NextAtom, Ended, vars
<1> QED
  BY <1>3, <1>4

(* For any band, parts and order of arrival: what is heard goes to the file *)
(* too, except a grand piano's notes.                                       *)
THEOREM FileHasAll == Spec => []FileComplete
<1>1. Init => FileInv
  BY DEF Init, FileInv, FileComplete
<1>2. FileInv => FileComplete
  BY DEF FileInv
<1> QED
  BY <1>1, <1>2, FileKeeps, BoundAlways, PTL DEF Spec
-----------------------------------------------------------------------------
(* The time.                                                                *)

(* When the notes of a part begin.                                          *)
Begins(part) ==
  CHOOSE begins \in [1..Len(part) + 1 -> 0..Atoms] :
    /\ begins[1] = 0 /\ begins[Len(part) + 1] = Atoms
    /\ \A n \in 1..Len(part) : begins[n + 1] = begins[n] + part[n].len

(* The step a slot is looked at next.                                       *)
Due(s) == IF s < slot THEN i + 1 ELSE i

(* A slot is where its part is at that step: in a note, with what is left   *)
(* of it, or past the end.                                                  *)
OnTime(part, p, due) ==
  IF part = <<>>
  THEN p.next = 0 \/ (p.next = 1 /\ p.left = 0)
  ELSE \/ p.next = 0 /\ due = Atoms + 1
       \/ /\ p.next \in 1..Len(part) + 1 /\ p.left \in Nat
          /\ Begins(part)[p.next] = due + p.left

Timely(s) ==
  /\ OnTime(note_list[s].part, pointer[s], Due(s))
  /\ note_list[s].part = <<>> /\ s < slot => pointer[s].next = 0

Heavy == \E s \in Slots : note_list[s].part # <<>>

TimeInv ==
  /\ slot \in 0..Len(band) /\ i \in 0..Atoms /\ atom \in Nat
  /\ rounds \in 0..Measures /\ bars \in 0..rounds
  /\ phase # "play" => atom = Atoms * bars
  /\ phase = "play" =>
       /\ IF Heavy THEN bars >= 1 /\ atom = Atoms * (bars - 1) + i ELSE atom = Atoms * bars
       /\ \A s \in Slots : Timely(s)

(* The musician in a slot.                                                  *)
Whose(s) == note_list[s].who

-----------------------------------------------------------------------------
LEMMA BeginsFacts ==
  ASSUME NEW part \in Parts, part # <<>>
  PROVE  /\ Len(part) \in Nat \ {0} /\ Atoms \in Nat \ {0}
         /\ \A n \in 1..Len(part) + 1 : Begins(part)[n] \in 0..Atoms
         /\ Begins(part)[1] = 0 /\ Begins(part)[Len(part) + 1] = Atoms
         /\ \A n \in 1..Len(part) : /\ part[n].len \in 1..Atoms
                                    /\ Begins(part)[n + 1] = Begins(part)[n] + part[n].len
<1>1. part \in Seq([len : 1..Atoms, chord : Chords]) /\ Timed(part) /\ Atoms \in Nat \ {0}
  BY SoundAssumption
<1>2. Len(part) \in Nat \ {0} /\ \A n \in 1..Len(part) : part[n].len \in 1..Atoms
  <2>1. Len(part) \in Nat /\ Len(part) # 0
    BY <1>1, EmptySeq, LenProperties
  <2>2. ASSUME NEW n \in 1..Len(part)
        PROVE  part[n].len \in 1..Atoms
    <3>1. part[n] \in [len : 1..Atoms, chord : Chords]
      BY <1>1, ElementOfSeq
    <3> QED
      BY <3>1
  <2> QED
    BY <2>1, <2>2
<1>3. \E begins \in [1..Len(part) + 1 -> 0..Atoms] :
        /\ begins[1] = 0 /\ begins[Len(part) + 1] = Atoms
        /\ \A n \in 1..Len(part) : begins[n + 1] = begins[n] + part[n].len
  BY <1>1 DEF Timed
<1>4. /\ Begins(part) \in [1..Len(part) + 1 -> 0..Atoms]
      /\ Begins(part)[1] = 0 /\ Begins(part)[Len(part) + 1] = Atoms
      /\ \A n \in 1..Len(part) : Begins(part)[n + 1] = Begins(part)[n] + part[n].len
  BY <1>3 DEF Begins
<1> QED
  BY <1>1, <1>2, <1>4

(* Of the musicians only the one in the slot moves, on its channel.         *)
LEMMA PointerMoves ==
  ASSUME QuietInv, BindInv, PlayInv, PlayNote \/ EndOfPart \/ CountDown
  PROVE  /\ slot \in Slots /\ phase = "play"
         /\ \A s \in Slots : s # slot => pointer'[s] = pointer[s]
         /\ \A s \in Slots : pointer'[s].ch = pointer[s].ch /\ pointer[s].ch \in Channel
         /\ PlayNote => /\ pointer[slot].next \in 1..Len(note_list[slot].part)
                        /\ pointer'[slot].next = pointer[slot].next + 1
                        /\ pointer'[slot].left =
                             note_list[slot].part[pointer[slot].next].len - 1
         /\ EndOfPart => pointer'[slot].next = 0 /\ pointer'[slot].left = pointer[slot].left
         /\ CountDown => /\ pointer'[slot].next = pointer[slot].next
                         /\ pointer'[slot].left = pointer[slot].left - 1
<1>1. /\ slot \in Slots /\ phase = "play"
      /\ pointer \in [Slots -> [next : Nat, left : Int, ch : Channel]]
  BY DEF PlayNote, EndOfPart, CountDown, PlayInv
<1> DEFINE p == pointer[slot]
<1>2. p = [next |-> p.next, left |-> p.left, ch |-> p.ch] /\ p \in [next : Nat, left : Int, ch : Channel]
  BY <1>1
<1>3. CASE PlayNote
  <2> DEFINE n == p.next + 1
             l == note_list[slot].part[p.next].len - 1
  <2>1. pointer' = [pointer EXCEPT ![slot].next = n, ![slot].left = l]
    BY <1>3 DEF PlayNote, Countdown
  <2> HIDE DEF n, l
  <2>2. pointer' = [pointer EXCEPT ![slot] = [[p EXCEPT !.next = n] EXCEPT !.left = l]]
    BY <1>1, <2>1
  <2> HIDE DEF p
  <2>3. [[p EXCEPT !.next = n] EXCEPT !.left = l] = [next |-> n, left |-> l, ch |-> p.ch]
    <3>1. [p EXCEPT !.next = n] = [next |-> n, left |-> p.left, ch |-> p.ch]
      BY <1>2
    <3>2. [[next |-> n, left |-> p.left, ch |-> p.ch] EXCEPT !.left = l]
             = [next |-> n, left |-> l, ch |-> p.ch]
      OBVIOUS
    <3> QED
      BY <3>1, <3>2
  <2>4. pointer' = [pointer EXCEPT ![slot] = [next |-> n, left |-> l, ch |-> p.ch]]
    BY <2>2, <2>3
  <2>5. /\ pointer'[slot].next = n /\ pointer'[slot].left = l /\ pointer'[slot].ch = p.ch
        /\ \A s \in Slots : s # slot => pointer'[s] = pointer[s]
    BY <1>1, <2>4
  <2>6. p.next \in 1..Len(note_list[slot].part)
    BY <1>3 DEF PlayNote, p
  <2>7. ~EndOfPart /\ ~CountDown
    BY <1>1, <1>2, <1>3 DEF PlayNote, EndOfPart, CountDown, p
  <2> QED
    BY <1>1, <2>5, <2>6, <2>7 DEF p, n, l
<1>4. CASE EndOfPart
  <2>1. pointer' = [pointer EXCEPT ![slot] = [p EXCEPT !.next = 0]]
    BY <1>4 DEF EndOfPart
  <2>2. [p EXCEPT !.next = 0] = [next |-> 0, left |-> p.left, ch |-> p.ch]
    BY <1>2
  <2>3. /\ pointer'[slot].next = 0 /\ pointer'[slot].left = p.left /\ pointer'[slot].ch = p.ch
        /\ \A s \in Slots : s # slot => pointer'[s] = pointer[s]
    BY <1>1, <2>1, <2>2
  <2>4. ~PlayNote /\ ~CountDown
    BY <1>1, <1>2, <1>4 DEF PlayNote, EndOfPart, CountDown
  <2> QED
    BY <1>1, <2>3, <2>4
<1>5. CASE CountDown
  <2>1. pointer' = [pointer EXCEPT ![slot] = [p EXCEPT !.left = p.left - 1]]
    BY <1>5 DEF CountDown
  <2>2. [p EXCEPT !.left = p.left - 1] = [next |-> p.next, left |-> p.left - 1, ch |-> p.ch]
    BY <1>2
  <2>3. /\ pointer'[slot].next = p.next /\ pointer'[slot].left = p.left - 1
        /\ pointer'[slot].ch = p.ch
        /\ \A s \in Slots : s # slot => pointer'[s] = pointer[s]
    BY <1>1, <2>1, <2>2
  <2>4. ~PlayNote /\ ~EndOfPart
    BY <1>1, <1>2, <1>5 DEF PlayNote, EndOfPart, CountDown
  <2> QED
    BY <1>1, <2>3, <2>4
<1> QED
  BY <1>3, <1>4, <1>5

(* The numbers in which the player counts.                                  *)
LEMMA CountFacts ==
  ASSUME QuietInv
  PROVE  /\ Len(band) \in Nat \ {0} /\ Slots = 0..Len(band) - 1
         /\ Atoms \in Nat \ {0} /\ Measures \in Nat
BY SoundAssumption, BandType DEF QuietInv, Slots

LEMMA InitTime == Init => TimeInv
<1> SUFFICES ASSUME Init PROVE TimeInv
  OBVIOUS
<1>1. band \in Bands /\ Atoms \in Nat /\ Measures \in Nat
  BY SoundAssumption DEF Init
<1>2. Len(band) \in Nat
  BY <1>1, BandType
<1> QED
  BY <1>1, <1>2 DEF Init, TimeInv

(* The slots begin, all due.                                                *)
LEMMA RoundTime == QuietInv /\ TimeInv /\ RecvRound => TimeInv'
<1> SUFFICES ASSUME QuietInv, TimeInv, RecvRound PROVE TimeInv'
  OBVIOUS
<1>1. PICK who \in Bijection(Slots, DOMAIN band), part \in [Slots -> Parts] :
        /\ note_list' = [s \in Slots |-> [who |-> who[s], part |-> part[s]]]
        /\ pointer' = [s \in Slots |->
             [next |-> 1, left |-> 0, ch |-> FindMidiChannel(band[who[s]])]]
        /\ bars' = IF \E s \in Slots : part[s] # <<>> THEN bars + 1 ELSE bars
  BY DEF RecvRound
<1>2. /\ phase = "wait" /\ rounds < Measures /\ rounds' = rounds + 1 /\ slot' = 0 /\ i' = 0
      /\ phase' = "play" /\ UNCHANGED <<band, atom>>
  BY DEF RecvRound
<1>3. /\ Len(band) \in Nat \ {0} /\ Slots = 0..Len(band) - 1 /\ Atoms \in Nat \ {0}
      /\ Measures \in Nat /\ Slots' = Slots
  BY <1>2, CountFacts DEF Slots
<1>4. Heavy' <=> \E s \in Slots : part[s] # <<>>
  BY <1>1, <1>3 DEF Heavy
<1>5. rounds \in 0..Measures /\ bars \in 0..rounds /\ atom = Atoms * bars /\ atom \in Nat
  BY <1>2 DEF TimeInv
<1>6. /\ slot' \in 0..Len(band') /\ i' \in 0..Atoms /\ atom' \in Nat
      /\ rounds' \in 0..Measures /\ bars' \in 0..rounds'
  BY <1>1, <1>2, <1>3, <1>5
<1>7. IF Heavy' THEN bars' >= 1 /\ atom' = Atoms * (bars' - 1) + i' ELSE atom' = Atoms * bars'
  <2>1. CASE Heavy'
    <3>1. bars' = bars + 1 /\ bars' - 1 = bars
      BY <1>1, <1>4, <1>5, <2>1
    <3> QED
      BY <1>2, <1>3, <1>5, <2>1, <3>1
  <2>2. CASE ~Heavy'
    BY <1>1, <1>2, <1>4, <1>5, <2>2
  <2> QED
    BY <2>1, <2>2
<1>8. ASSUME NEW s \in Slots
      PROVE  Timely(s)'
  <2>1. /\ note_list'[s].part = part[s] /\ pointer'[s].next = 1 /\ pointer'[s].left = 0
        /\ part[s] \in Parts /\ ~(s < slot') /\ slot' <= s /\ Due(s)' = 0
    BY <1>1, <1>2, <1>3 DEF Due
  <2>2. CASE part[s] = <<>>
    BY <2>1, <2>2 DEF Timely, OnTime
  <2>3. CASE part[s] # <<>>
    <3>1. Begins(part[s])[1] = 0 /\ 1 \in 1..Len(part[s]) + 1
      BY <2>1, <2>3, BeginsFacts
    <3> QED
      BY <2>1, <2>3, <3>1 DEF Timely, OnTime
  <2> QED
    BY <2>2, <2>3
<1> QED
  BY <1>2, <1>3, <1>6, <1>7, <1>8 DEF TimeInv

(* A slot that is passed is due one step later.                             *)
LEMMA SlotTime ==
  QuietInv /\ BindInv /\ PlayInv /\ TimeInv /\ (PlayNote \/ EndOfPart \/ CountDown \/ SkipSlot)
    => TimeInv'
<1> SUFFICES ASSUME QuietInv, BindInv, PlayInv, TimeInv,
                    PlayNote \/ EndOfPart \/ CountDown \/ SkipSlot
             PROVE  TimeInv'
  OBVIOUS
<1>1. /\ phase = "play" /\ phase' = "play" /\ slot \in Slots /\ slot' = slot + 1
      /\ UNCHANGED <<band, i, atom, note_list, rounds, bars>>
  BY DEF PlayNote, EndOfPart, CountDown, SkipSlot, roundVars
<1>2. /\ Len(band) \in Nat \ {0} /\ Slots = 0..Len(band) - 1 /\ Atoms \in Nat \ {0}
      /\ Slots' = Slots /\ i \in 0..Atoms
  BY <1>1, CountFacts DEF Slots, TimeInv
<1>3. /\ slot' \in 0..Len(band') /\ i' \in 0..Atoms /\ atom' \in Nat
      /\ rounds' \in 0..Measures /\ bars' \in 0..rounds'
      /\ IF Heavy' THEN bars' >= 1 /\ atom' = Atoms * (bars' - 1) + i' ELSE atom' = Atoms * bars'
  <2>1. Heavy' = Heavy
    BY <1>1, <1>2 DEF Heavy
  <2> QED
    BY <1>1, <1>2, <2>1 DEF TimeInv
<1>4. /\ pointer[slot].next \in Nat /\ pointer[slot].left \in Int
      /\ note_list[slot].part \in Parts \union {<<>>} /\ Timely(slot)
  BY <1>1 DEF PlayInv, QuietInv, PartsKnown, TimeInv
<1>5. \A s \in Slots : s # slot => pointer'[s] = pointer[s]
  <2>1. CASE SkipSlot
    BY <2>1 DEF SkipSlot
  <2> QED
    BY <2>1, PointerMoves
<1>6. ASSUME NEW s \in Slots, s # slot
      PROVE  Timely(s)'
  <2>1. Timely(s) /\ Due(s)' = Due(s) /\ (s < slot' <=> s < slot)
    BY <1>1, <1>2, <1>6 DEF TimeInv, Due
  <2> QED
    BY <1>1, <1>5, <1>6, <2>1 DEF Timely
<1>7. ASSUME NEW s \in Slots, s = slot
      PROVE  Timely(s)'
  <2> DEFINE part == note_list[s].part
             p == pointer[s]
             q == pointer'[s]
  <2>1. ~(s < slot) /\ s < slot' /\ Due(s) = i /\ Due(s)' = i + 1
    BY <1>1, <1>2, <1>7 DEF Due
  <2>2. /\ OnTime(part, p, i)
        /\ OnTime(part, q, i + 1) /\ (part = <<>> => q.next = 0) => Timely(s)'
    <3>1. OnTime(part, p, Due(s))
      BY <1>4, <1>7 DEF Timely
    <3>2. note_list' = note_list
      BY <1>1
    <3> QED
      BY <2>1, <3>1, <3>2 DEF Timely
  <2>3. SUFFICES OnTime(part, q, i + 1) /\ (part = <<>> => q.next = 0)
    BY <2>2
  <2>4. p.next \in Nat /\ p.left \in Int /\ part \in Parts \union {<<>>}
    BY <1>4, <1>7
  <2>5. CASE SkipSlot
    <3>1. p.next = 0 /\ q = p
      BY <1>7, <2>5 DEF SkipSlot
    <3>2. part = <<>>
      BY <1>2, <2>2, <3>1 DEF OnTime
    <3> QED
      BY <3>1, <3>2 DEF OnTime
  <2>6. CASE EndOfPart
    <3>1. p.left = 0 /\ p.next > Len(part) /\ q.next = 0
      BY <1>7, <2>6, PointerMoves DEF EndOfPart
    <3>2. CASE part # <<>>
      <4>1. /\ Len(part) \in Nat \ {0} /\ Begins(part)[Len(part) + 1] = Atoms
        BY <2>4, <3>2, BeginsFacts
      <4> HIDE DEF part, p, q
      <4>2. p.next # 0
        BY <2>4, <3>1, <4>1
      <4>3. p.next \in 1..Len(part) + 1 /\ Begins(part)[p.next] = i + p.left
        BY <2>2, <3>2, <4>2 DEF OnTime
      <4>4. p.next = Len(part) + 1 /\ i = Atoms
        BY <1>2, <3>1, <4>1, <4>3
      <4> QED
        BY <1>2, <3>1, <3>2, <4>4 DEF OnTime
    <3> QED
      BY <3>1, <3>2 DEF OnTime
  <2>7. CASE CountDown
    <3>1. p.next # 0 /\ p.left > 0 /\ q.next = p.next /\ q.left = p.left - 1
      BY <1>7, <2>7, PointerMoves DEF CountDown
    <3>2. part # <<>>
      BY <2>2, <3>1 DEF OnTime
    <3> HIDE DEF part, p, q
    <3>3. p.next \in 1..Len(part) + 1 /\ p.left \in Nat /\ Begins(part)[p.next] = i + p.left
      BY <2>2, <3>1, <3>2 DEF OnTime
    <3>4. q.left \in Nat /\ Begins(part)[q.next] = (i + 1) + q.left
      BY <1>2, <3>1, <3>3
    <3> QED
      BY <3>1, <3>2, <3>3, <3>4 DEF OnTime
  <2>8. CASE PlayNote
    <3>1. /\ p.next \in 1..Len(part) /\ p.left = 0 /\ q.next = p.next + 1
          /\ q.left = part[p.next].len - 1
      BY <1>7, <2>8, PointerMoves DEF PlayNote
    <3>2. part # <<>> /\ part \in Parts
      BY <2>4, <3>1
    <3> HIDE DEF part, p, q
    <3>3. /\ Len(part) \in Nat \ {0} /\ part[p.next].len \in 1..Atoms
          /\ Begins(part)[p.next + 1] = Begins(part)[p.next] + part[p.next].len
      BY <3>1, <3>2, BeginsFacts
    <3>4. Begins(part)[p.next] = i
      BY <1>2, <2>2, <3>1, <3>2, <3>3 DEF OnTime
    <3>5. q.next \in 1..Len(part) + 1 /\ q.left \in Nat
      BY <1>2, <3>1, <3>3
    <3>6. Begins(part)[q.next] = (i + 1) + q.left
      <4> DEFINE l == part[p.next].len
      <4>1. l \in 1..Atoms /\ q.left = l - 1 /\ Begins(part)[q.next] = i + l
        BY <3>1, <3>3, <3>4
      <4> HIDE DEF l
      <4>2. i + l = (i + 1) + (l - 1)
        BY <1>2, <4>1
      <4> QED
        BY <4>1, <4>2
    <3> QED
      BY <3>2, <3>5, <3>6 DEF OnTime
  <2> QED
    BY <2>5, <2>6, <2>7, <2>8
<1>8. \A s \in Slots : Timely(s)'
  BY <1>6, <1>7
<1> QED
  BY <1>1, <1>2, <1>3, <1>8 DEF TimeInv

(* At the end of a step every slot has been passed: a part that is not over *)
(* has a step to come, and one that is over has ended with the measure.     *)
LEMMA AtomTime == QuietInv /\ TimeInv /\ NextAtom => TimeInv'
<1> SUFFICES ASSUME QuietInv, TimeInv, NextAtom
             PROVE  TimeInv'
  OBVIOUS
<1>1. /\ phase = "play" /\ slot = Len(band)
      /\ UNCHANGED <<band, note_list, pointer, rounds, bars>>
  BY DEF NextAtom, roundVars
<1>2. /\ Len(band) \in Nat \ {0} /\ Slots = 0..Len(band) - 1 /\ Atoms \in Nat \ {0}
      /\ Slots' = Slots /\ i \in 0..Atoms /\ atom \in Nat /\ Heavy' = Heavy
      /\ rounds \in 0..Measures /\ bars \in 0..rounds /\ Measures \in Nat
  BY <1>1, CountFacts DEF Slots, TimeInv, Heavy
<1>3. IF Heavy THEN bars >= 1 /\ atom = Atoms * (bars - 1) + i ELSE atom = Atoms * bars
  BY <1>1 DEF TimeInv
<1>4. ASSUME NEW s \in Slots
      PROVE  /\ OnTime(note_list[s].part, pointer[s], i + 1)
             /\ note_list[s].part = <<>> => pointer[s].next = 0
             /\ note_list[s].part \in Parts \union {<<>>}
  <2>1. s < slot
    BY <1>1, <1>2
  <2>2. Due(s) = i + 1 /\ Timely(s)
    BY <1>1, <2>1 DEF Due, TimeInv
  <2> QED
    BY <2>1, <2>2 DEF Timely, QuietInv, PartsKnown
<1>5. ASSUME NEW s \in Slots, pointer[s].next # 0
      PROVE  i + 1 <= Atoms /\ Heavy
  <2> DEFINE part == note_list[s].part
             p == pointer[s]
  <2>1. OnTime(part, p, i + 1) /\ part \in Parts \union {<<>>} /\ p.next # 0
    BY <1>4, <1>5
  <2>2. part # <<>> => Heavy
    BY DEF Heavy
  <2> HIDE DEF part, p
  <2>3. /\ part # <<>> /\ p.next \in 1..Len(part) + 1 /\ p.left \in Nat
        /\ Begins(part)[p.next] = (i + 1) + p.left
    BY <1>4, <2>1 DEF OnTime, part, p
  <2>4. Begins(part)[p.next] \in 0..Atoms
    BY <2>1, <2>3, BeginsFacts
  <2> QED
    BY <1>2, <2>2, <2>3, <2>4
<1>6. CASE \E s \in Slots : pointer[s].next # 0
  <2>1. i + 1 <= Atoms /\ i # Atoms /\ Heavy
    BY <1>2, <1>5, <1>6
  <2>2. atom' = atom + 1 /\ slot' = 0 /\ i' = i + 1 /\ phase' = "play"
    BY <1>1, <1>6, <2>1 DEF NextAtom
  <2>3. atom' = Atoms * (bars - 1) + i'
    <3> DEFINE a == Atoms * (bars - 1)
    <3>1. a \in Int
      BY <1>2
    <3>2. atom = a + i
      BY <1>3, <2>1
    <3> HIDE DEF a
    <3>3. atom' = a + i'
      BY <1>2, <2>2, <3>1, <3>2
    <3> QED
      BY <3>3 DEF a
  <2>4. ASSUME NEW s \in Slots
        PROVE  Timely(s)'
    <3>1. ~(s < slot') /\ Due(s)' = i + 1
      BY <1>2, <2>2 DEF Due
    <3>2. OnTime(note_list[s].part, pointer[s], i + 1)
      BY <1>4 DEF OnTime
    <3> QED
      BY <1>1, <3>1, <3>2 DEF Timely
  <2>5. bars >= 1 /\ atom' \in Nat /\ i' \in 0..Atoms /\ slot' \in 0..Len(band)
    BY <1>2, <1>3, <2>1, <2>2
  <2> QED
    BY <1>1, <1>2, <2>1, <2>2, <2>3, <2>4, <2>5 DEF TimeInv
<1>7. CASE ~ \E s \in Slots : pointer[s].next # 0
  <2>1. phase' = "wait" /\ UNCHANGED <<slot, i, atom>>
    BY <1>7 DEF NextAtom
  <2>2. Heavy => i = Atoms
    <3> SUFFICES ASSUME NEW s \in Slots, note_list[s].part # <<>>
                 PROVE  i = Atoms
      BY DEF Heavy
    <3>1. OnTime(note_list[s].part, pointer[s], i + 1) /\ pointer[s].next = 0
      BY <1>4, <1>7
    <3>2. i + 1 = Atoms + 1
      BY <3>1 DEF OnTime
    <3> QED
      BY <1>2, <3>2
  <2>3. atom = Atoms * bars
    <3>1. CASE Heavy
      <4>1. Atoms * (bars - 1) + Atoms = Atoms * bars
        BY <1>2
      <4> QED
        BY <1>3, <2>2, <3>1, <4>1
    <3> QED
      BY <1>3, <3>1
  <2> QED
    BY <1>1, <1>2, <2>1, <2>3 DEF TimeInv
<1> QED
  BY <1>6, <1>7

LEMMA StepTime == QuietInv /\ BindInv /\ PlayInv /\ TimeInv /\ [Next]_vars => TimeInv'
<1> SUFFICES ASSUME QuietInv, BindInv, PlayInv, TimeInv, [Next]_vars
             PROVE  TimeInv'
  OBVIOUS
<1>1. CASE BindMusician
  BY <1>1 DEF BindMusician, TimeInv, roundVars, Slots, Heavy, Timely, Due
<1>2. CASE EndSetup
  BY <1>2 DEF EndSetup, TimeInv, roundVars, Slots, Heavy, Timely, Due
<1>3. CASE RecvRound
  BY <1>3, RoundTime
<1>4. CASE PlayNote \/ EndOfPart \/ CountDown \/ SkipSlot
  BY <1>4, SlotTime
<1>5. CASE NextAtom
  BY <1>5, AtomTime
<1>6. CASE SmorzaIncosa
  BY <1>6 DEF SmorzaIncosa, TimeInv, roundVars, Slots, Heavy, Timely, Due
<1>7. CASE UNCHANGED vars
  BY <1>7 DEF vars, TimeInv, roundVars, Slots, Heavy, Timely, Due
<1>8. CASE Ended
  BY <1>7, <1>8 DEF Ended
<1> QED
  BY <1>1, <1>2, <1>3, <1>4, <1>5, <1>6, <1>7, <1>8 DEF Next

(* For any band, any parts that last a measure and any order of arrival:    *)
(* the rounds follow each other without a gap or an overlap.                *)
THEOREM InTimeHolds == Spec => []InTime
<1>1. TimeInv => InTime
  BY DEF TimeInv, InTime
<1> QED
  BY <1>1, InitTime, StepTime, BoundAlways, PTL DEF Spec

-----------------------------------------------------------------------------
(* What is held.                                                            *)

(* What a slot plays, when the note to come is this one.                    *)
Sung(part, n) == IF n > 1 THEN Range(part[n - 1].chord) \ {REST} ELSE {}

LEMMA SungIsPlaying ==
  \A s : Playing(s) = Sung(note_list[s].part, pointer[s].next)
BY DEF Playing, Sung

LEMMA SungPitches ==
  ASSUME NEW part \in Parts \union {<<>>}, NEW n \in 1..Len(part) + 1
  PROVE  Sung(part, n) \subseteq Pitches
<1>1. CASE part = <<>>
  <2>1. Len(part) = 0
    BY <1>1
  <2>2. n = 1
    BY <2>1
  <2> QED
    BY <2>2 DEF Sung
<1>2. CASE part # <<>> /\ n > 1
  <2>1. part \in Parts /\ part \in Seq([len : 1..Atoms, chord : Chords])
    BY <1>2, SoundAssumption
  <2>2. Len(part) \in Nat /\ n - 1 \in 1..Len(part)
    BY <1>2, <2>1
  <2>3. part[n - 1] \in [len : 1..Atoms, chord : Chords]
    BY <2>1, <2>2, ElementOfSeq
  <2> DEFINE chord == part[n - 1].chord
  <2>4. chord \in Chords
    BY <2>3
  <2> HIDE DEF chord
  <2>5. Range(chord) \subseteq Pitches \union {REST}
    <3>1. CASE chord \in UNION {[1..k -> Pitches] : k \in 0..MAX_CHORD_SIZE}
      BY <3>1 DEF Range
    <3>2. CASE chord = <<REST>>
      BY <3>2 DEF Range
    <3> QED
      BY <2>4, <3>1, <3>2 DEF Chords
  <2> QED
    BY <2>5 DEF Sung, chord
<1>3. CASE part # <<>> /\ ~(n > 1)
  BY <1>3 DEF Sung
<1> QED
  BY <1>1, <1>2, <1>3

(* What a slot plays is not a silence.                                      *)
LEMMA PlayingPitches ==
  ASSUME QuietInv, TimeInv, phase = "play", NEW s \in Slots
  PROVE  Playing(s) \subseteq Pitches
<1> DEFINE part == note_list[s].part
           p == pointer[s]
<1>1. part \in Parts \union {<<>>} /\ OnTime(part, p, Due(s))
  BY DEF QuietInv, PartsKnown, TimeInv, Timely
<1>2. Playing(s) = Sung(part, p.next)
  BY SungIsPlaying
<1> HIDE DEF part, p
<1>3. part = <<>> => Len(part) = 0
  OBVIOUS
<1>4. p.next = 0 \/ p.next \in 1..Len(part) + 1
  <2>1. CASE part = <<>>
    BY <1>1, <1>3, <2>1 DEF OnTime
  <2>2. CASE part # <<>>
    BY <1>1, <2>2 DEF OnTime
  <2> QED
    BY <2>1, <2>2
<1>5. CASE p.next = 0
  BY <1>2, <1>5 DEF Sung
<1>6. CASE p.next \in 1..Len(part) + 1
  BY <1>1, <1>2, <1>6, SungPitches
<1> QED
  BY <1>4, <1>5, <1>6

(* Musicians of different classes play on different channels.               *)
LEMMA ChannelsApart ==
  ASSUME BindInv, bound = Len(band), IsInjective(band),
         NEW m \in DOMAIN band, NEW n \in DOMAIN band, m # n
  PROVE  FindMidiChannel(band[m]) # FindMidiChannel(band[n])
<1>1. Channels[FindMidiChannel(band[m])] = band[m] /\ Channels[FindMidiChannel(band[n])] = band[n]
  BY ChannelFound
<1>2. band[m] # band[n]
  BY DEF IsInjective
<1> QED
  BY <1>1, <1>2

(* The musicians of a round are each in a slot of their own, and as long as *)
(* they do not move, the old notes of a slot are on the channel of its      *)
(* musician.                                                                *)
OldNotes ==
  /\ phase = "setup" => rounds = 0
  /\ rounds = 0 => \A s \in Channel : \A k \in 1..MAX_CHORD_SIZE : data[s][k].note = 0
  /\ rounds # 0 => \A s, u \in Slots : Whose(s) = Whose(u) => s = u
  /\ rounds # 0 /\ ~moved =>
       \A s \in Slots : \A k \in 1..MAX_CHORD_SIZE :
         data[s][k].note = 0 \/ data[s][k].ch = FindMidiChannel(band[Whose(s)])

HeldInv ==
  /\ OldNotes
  /\ phase = "play" => rounds # 0
  /\ HeldNotes

(* A new note ends the old ones of its slot, and nothing of the others.     *)
LEMMA PlayNoteHeld ==
  ASSUME 0 \notin Pitches, QuietInv, BindInv, PlayInv, TimeInv, HeldInv, PlayNote
  PROVE  HeldInv'
<1> DEFINE part == note_list[slot].part
           n == pointer[slot].next
           c == pointer[slot].ch
           chord == part[n].chord
           after == Heard(sounding, Range(data[slot]))
<1>1. /\ slot \in Slots /\ slot \in Channel /\ n \in 1..Len(part) /\ phase = "play"
      /\ sounding' = Heard(after, Starts(chord, c))
      /\ data' = [data EXCEPT ![slot] = Ending(slot, chord, c)]
      /\ UNCHANGED <<phase, band, Channels, note_list, rounds, moved>>
      /\ Slots \subseteq Channel
  BY SlotsAreChannels DEF QuietInv, PlayNote, HeardInOrder, roundVars, setupVars
<1>2. /\ c = FindMidiChannel(band[Whose(slot)])
      /\ pointer'[slot].next = n + 1
      /\ \A s \in Slots : s # slot => pointer'[s] = pointer[s]
      /\ \A s \in Slots : pointer'[s].ch = pointer[s].ch
  BY <1>1, PointerMoves DEF PlayInv, Whose
<1>3. bound = Len(band) /\ rounds # 0
  BY <1>1 DEF PlayInv, HeldInv
<1>4. \A s \in Channel : data'[s] = IF s = slot THEN Ending(slot, chord, c) ELSE data[s]
  <2>1. data = [s \in Channel |-> data[s]]
    BY DEF QuietInv, DataUp
  <2> QED
    BY <1>1, <2>1
<1>5. n \in Nat
  BY <1>1 DEF PlayInv
<1>6. part \in Parts /\ Len(chord) \in Nat /\ Range(chord) = {chord[k] : k \in 1..Len(chord)}
  <2>1. part \in Parts
    BY <1>1 DEF QuietInv, PartsKnown
  <2>2. Len(chord) \in 0..MAX_CHORD_SIZE /\ Range(chord) = {chord[k] : k \in 1..Len(chord)}
    BY <1>1, <2>1, ChordFits
  <2> DEFINE l == Len(chord)
  <2>3. l \in 0..MAX_CHORD_SIZE
    BY <2>2
  <2> HIDE DEF l
  <2>4. l \in Nat
    BY <2>3
  <2> QED
    BY <2>1, <2>2, <2>4 DEF l
<1> HIDE DEF part, n, c, chord, after
<1>7. OldNotes'
  <2>1. ~moved => \A s \in Slots : \A k \in 1..MAX_CHORD_SIZE :
          data'[s][k].note = 0 \/ data'[s][k].ch = FindMidiChannel(band[Whose(s)])
    <3> SUFFICES ASSUME ~moved, NEW s \in Slots, NEW k \in 1..MAX_CHORD_SIZE
                 PROVE  data'[s][k].note = 0 \/ data'[s][k].ch = FindMidiChannel(band[Whose(s)])
      OBVIOUS
    <3>1. data[s][k].note = 0 \/ data[s][k].ch = FindMidiChannel(band[Whose(s)])
      BY <1>3 DEF HeldInv, OldNotes
    <3>2. CASE s # slot
      BY <1>1, <1>4, <3>1, <3>2
    <3>3. CASE s = slot
      <4>1. data'[s][k] = IF k <= Len(chord) THEN [kind |-> "up", ch |-> c, note |-> chord[k]]
                          ELSE data[s][k]
        <5>1. data'[s] = Ending(s, chord, c)
          BY <1>1, <1>4, <3>3
        <5> QED
          BY <5>1 DEF Ending
      <4> QED
        BY <1>2, <3>1, <3>3, <4>1
    <3> QED
      BY <3>2, <3>3
  <2>2. /\ UNCHANGED <<phase, band, Channels, note_list, rounds, moved>> /\ Slots' = Slots
        /\ Channel' = Channel
    BY <1>1 DEF Slots, Channel
  <2> QED
    BY <1>1, <1>3, <2>1, <2>2 DEF HeldInv, OldNotes, Whose, FindMidiChannel
<1>8. ASSUME phase = "play", ~moved, IsInjective(band), NEW s \in Slots,
             NEW p \in Sung(note_list[s].part, pointer'[s].next)
      PROVE  <<pointer[s].ch, p>> \in sounding'
  <2>1. CASE s = slot
    <3>1. p \in Range(chord) \ {REST}
      <4>1. pointer'[s].next - 1 = n /\ pointer'[s].next > 1
        BY <1>1, <1>2, <1>5, <2>1
      <4> QED
        BY <1>8, <2>1, <4>1 DEF Sung, part, chord
    <3>2. [kind |-> "down", ch |-> c, note |-> p] \in Starts(chord, c)
      BY <3>1 DEF Starts
    <3>3. <<c, p>> \in sounding'
      <4> DEFINE e == [kind |-> "down", ch |-> c, note |-> p]
      <4>1. e \in Starts(chord, c) /\ e.kind = "down" /\ e.ch = c /\ e.note = p
        BY <3>2
      <4> HIDE DEF e
      <4> QED
        BY <1>1, <4>1 DEF Heard
    <3> QED
      BY <2>1, <3>3 DEF c
  <2>2. CASE s # slot
    <3>1. p \in Playing(s)
      BY <1>2, <2>2, SungIsPlaying
    <3>2. p \in Pitches /\ p # 0 /\ <<pointer[s].ch, p>> \in sounding
      BY <1>1, <1>8, <3>1, PlayingPitches DEF HeldInv, HeldNotes
    <3>3. pointer[s].ch # c
      <4>1. Whose(s) # Whose(slot)
        BY <1>1, <1>3, <2>2 DEF HeldInv, OldNotes
      <4>2. /\ Whose(s) \in DOMAIN band /\ Whose(slot) \in DOMAIN band
            /\ pointer[s].ch = FindMidiChannel(band[Whose(s)])
        BY <1>1 DEF PlayInv, Whose
      <4> QED
        BY <1>2, <1>3, <1>8, <4>1, <4>2, ChannelsApart
    <3>4. \A k \in 1..MAX_CHORD_SIZE : data[slot][k].note = 0 \/ data[slot][k].ch = c
      BY <1>1, <1>2, <1>3, <1>8 DEF HeldInv, OldNotes
    <3>5. \A e \in Range(data[slot]) : e.note = 0 \/ e.ch = c
      BY <1>1, <3>4 DEF QuietInv, DataUp, Range
    <3>6. ~ \E e \in Range(data[slot]) : <<pointer[s].ch, p>> = <<e.ch, e.note>>
      BY <3>2, <3>3, <3>5
    <3>7. <<pointer[s].ch, p>> \in after
      BY <3>2, <3>6 DEF after, Heard
    <3>8. \A e \in Starts(chord, c) : e.kind # "up"
      BY DEF Starts
    <3> QED
      BY <1>1, <3>7, <3>8 DEF Heard
  <2> QED
    BY <2>1, <2>2
<1>9. HeldNotes'
  <2> SUFFICES ASSUME phase' = "play", (~moved)', IsInjective(band)', NEW s \in Slots',
                      NEW p \in Playing(s)'
               PROVE  <<pointer'[s].ch, p>> \in sounding'
    BY DEF HeldNotes
  <2>1. s \in Slots /\ ~moved /\ IsInjective(band)
    BY <1>1 DEF Slots
  <2>2. p \in Sung(note_list[s].part, pointer'[s].next)
    BY <1>1 DEF Playing, Sung
  <2> QED
    BY <1>1, <1>2, <1>8, <2>1, <2>2
<1> QED
  BY <1>1, <1>3, <1>7, <1>9 DEF HeldInv

(* A round: the musicians have a slot each, and nothing is played yet.      *)
LEMMA RoundHeld ==
  ASSUME QuietInv, BindInv, PlayInv, TimeInv, HeldInv, RecvRound
  PROVE  HeldInv'
<1>1. PICK who \in Bijection(Slots, DOMAIN band), part \in [Slots -> Parts] :
        /\ note_list' = [s \in Slots |-> [who |-> who[s], part |-> part[s]]]
        /\ pointer' = [s \in Slots |->
             [next |-> 1, left |-> 0, ch |-> FindMidiChannel(band[who[s]])]]
        /\ moved' = (moved \/ (rounds > 0 /\ \E s \in Slots : who[s] # note_list[s].who))
  BY DEF RecvRound
<1>2. /\ phase = "wait" /\ phase' = "play" /\ rounds' = rounds + 1
      /\ UNCHANGED <<band, Channels, data>> /\ Slots' = Slots /\ Channel' = Channel
  BY DEF RecvRound, setupVars, Slots, Channel
<1>3. rounds \in Nat /\ rounds' # 0 /\ (rounds > 0 <=> rounds # 0)
  <2>1. rounds \in Nat
    BY SoundAssumption DEF TimeInv
  <2> QED
    BY <1>2, <2>1
<1>4. \A s \in Slots : note_list'[s].who = who[s] /\ pointer'[s].next = 1
  BY <1>1
<1>5. \A s, u \in Slots : note_list'[s].who = note_list'[u].who => s = u
  <2>1. \A s, u \in Slots : who[s] = who[u] => s = u
    BY <1>1 DEF Bijection, Injection, IsInjective
  <2> QED
    BY <1>4, <2>1
<1>6. ASSUME ~moved', NEW s \in Slots, NEW k \in 1..MAX_CHORD_SIZE
      PROVE  data[s][k].note = 0 \/ data[s][k].ch = FindMidiChannel(band[note_list'[s].who])
  <2>1. CASE rounds = 0
    <3>1. s \in Channel
      BY SlotsAreChannels DEF QuietInv
    <3> QED
      BY <2>1, <3>1 DEF HeldInv, OldNotes
  <2>2. CASE rounds # 0
    <3>1. ~moved /\ note_list'[s].who = Whose(s)
      BY <1>1, <1>3, <1>4, <1>6, <2>2 DEF Whose
    <3> QED
      BY <2>2, <3>1 DEF HeldInv, OldNotes
  <2> QED
    BY <2>1, <2>2
<1>7. OldNotes'
  BY <1>2, <1>3, <1>5, <1>6 DEF OldNotes, Whose, FindMidiChannel
<1>8. HeldNotes'
  <2>1. \A s \in Slots : Playing(s)' = {}
    BY <1>4 DEF Playing
  <2> QED
    BY <1>2, <2>1 DEF HeldNotes
<1> QED
  BY <1>3, <1>7, <1>8 DEF HeldInv

LEMMA OtherHeld ==
  ASSUME QuietInv, BindInv, PlayInv, HeldInv,
         \/ BindMusician \/ EndSetup \/ EndOfPart \/ CountDown \/ SkipSlot \/ NextAtom
         \/ SmorzaIncosa \/ UNCHANGED vars
  PROVE  HeldInv'
<1>1. /\ UNCHANGED <<band, data, note_list, rounds, moved>>
      /\ Slots' = Slots /\ Channel' = Channel
      /\ phase' = "play" => phase = "play"
      /\ phase' = "setup" => phase = "setup"
      /\ rounds # 0 => UNCHANGED Channels
  BY DEF BindMusician, EndSetup, EndOfPart, CountDown, SkipSlot, NextAtom, SmorzaIncosa, vars,
         setupVars, roundVars, Slots, Channel, HeldInv, OldNotes
<1>2. OldNotes'
  BY <1>1 DEF HeldInv, OldNotes, Whose, FindMidiChannel
<1>3. phase' = "play" => /\ phase = "play" /\ sounding' = sounding
                         /\ \A s \in Slots : /\ pointer'[s].ch = pointer[s].ch
                                             /\ \/ pointer'[s].next = pointer[s].next
                                                \/ pointer'[s].next = 0
  <2>1. CASE EndOfPart \/ CountDown
    BY <2>1, PointerMoves DEF EndOfPart, CountDown
  <2> QED
    BY <2>1 DEF BindMusician, EndSetup, SkipSlot, NextAtom, SmorzaIncosa, vars
<1>4. HeldNotes'
  <2> SUFFICES ASSUME phase' = "play", (~moved)', IsInjective(band)', NEW s \in Slots',
                      NEW p \in Playing(s)'
               PROVE  <<pointer'[s].ch, p>> \in sounding'
    BY DEF HeldNotes
  <2>1. p \in Playing(s)
    <3>1. pointer'[s].next = pointer[s].next \/ pointer'[s].next = 0
      BY <1>1, <1>3
    <3>2. p \in Sung(note_list[s].part, pointer'[s].next)
      BY <1>1 DEF Playing, Sung
    <3>3. pointer'[s].next # 0
      BY <3>2 DEF Sung
    <3> QED
      BY <3>1, <3>2, <3>3, SungIsPlaying
  <2> QED
    BY <1>1, <1>3, <2>1 DEF HeldInv, HeldNotes
<1> QED
  BY <1>1, <1>2, <1>4 DEF HeldInv

LEMMA InitHeld == Init => HeldInv
<1> SUFFICES ASSUME Init PROVE HeldInv
  OBVIOUS
<1>1. OldNotes
  BY DEF Init, OldNotes
<1> QED
  BY <1>1 DEF Init, HeldInv, HeldNotes

LEMMA TimeAlways == Spec => []TimeInv
BY InitTime, StepTime, BoundAlways, PTL DEF Spec

(* For any band of one musician of each class, and any parts without the    *)
(* lowest pitch: a note sounds for as long as it lasts.                     *)
THEOREM HeldNotesHolds ==
  ASSUME 0 \notin Pitches
  PROVE  Spec => []HeldNotes
<1>1. QuietInv /\ BindInv /\ PlayInv /\ TimeInv /\ HeldInv /\ [Next]_vars => HeldInv'
  BY PlayNoteHeld, RoundHeld, OtherHeld DEF Next, Ended
<1>2. HeldInv => HeldNotes
  BY DEF HeldInv
<1> QED
  BY <1>1, <1>2, InitHeld, TimeAlways, BoundAlways, PTL DEF Spec

-----------------------------------------------------------------------------
(* The file.                                                                *)

LEMMA SevenBits ==
  ASSUME NEW v \in Nat
  PROVE  v \div 128 \in Nat /\ (v % 128) \in 0..127 /\ v = 128 * (v \div 128) + (v % 128)
BY SMT

LEMMA IntMax == INT_MAX \in Nat /\ INT_MAX = 2147483647
BY SMT DEF INT_MAX

(* The digits of seven bits, from the lowest.                               *)
LEMMA Digits ==
  ASSUME NEW v \in Nat, v <= INT_MAX
  PROVE  LET D(d) == (v \div Base128[d]) % 128
         IN /\ \A d \in 1..5 : D(d) \in 0..127
            /\ v = D(1) + D(2) * 128 + D(3) * 16384 + D(4) * 2097152 + D(5) * 268435456
            /\ v < 16384 => D(3) = 0
            /\ v < 2097152 => D(4) = 0
            /\ v < 268435456 => D(5) = 0
<1> DEFINE q1 == v \div 128
           q2 == q1 \div 128
           q3 == q2 \div 128
           q4 == q3 \div 128
           r0 == v % 128
           r1 == q1 % 128
           r2 == q2 % 128
           r3 == q3 % 128
<1>1. v \in Nat /\ v <= 2147483647
  BY SMT, IntMax
<1>2. q1 \in Nat /\ r0 \in 0..127 /\ v = 128 * q1 + r0
  BY SMT, <1>1, SevenBits
<1>0. q1 = v \div 128 /\ r0 = v % 128
  OBVIOUS
<1> HIDE DEF q1, r0
<1>3. q2 \in Nat /\ r1 \in 0..127 /\ q1 = 128 * q2 + r1
  BY SMT, <1>2, SevenBits
<1> HIDE DEF q2, r1
<1>4. q3 \in Nat /\ r2 \in 0..127 /\ q2 = 128 * q3 + r2
  BY SMT, <1>3, SevenBits
<1> HIDE DEF q3, r2
<1>5. q4 \in Nat /\ r3 \in 0..127 /\ q3 = 128 * q4 + r3
  BY SMT, <1>4, SevenBits
<1> HIDE DEF q4, r3
<1>6. q4 <= 7
  BY SMT, <1>1, <1>2, <1>3, <1>4, <1>5
<1>7. /\ v \div 1 = v /\ v \div 128 = q1 /\ v \div 16384 = q2 /\ v \div 2097152 = q3
      /\ v \div 268435456 = q4
  <2>1. v \div 1 = v /\ v \div 128 = q1
    BY SMT, <1>1, <1>0
  <2>2. v \div 16384 = q2
    <3>1. v = 16384 * q2 + (128 * r1 + r0)
      BY SMT, <1>2, <1>3
    <3> QED
      BY SMT, <1>1, <1>2, <1>3, <3>1
  <2>3. v \div 2097152 = q3
    <3>1. v = 2097152 * q3 + (16384 * r2 + 128 * r1 + r0)
      BY SMT, <1>2, <1>3, <1>4
    <3> QED
      BY SMT, <1>1, <1>2, <1>3, <1>4, <3>1
  <2>4. v \div 268435456 = q4
    <3>1. v = 268435456 * q4 + (2097152 * r3 + 16384 * r2 + 128 * r1 + r0)
      BY SMT, <1>2, <1>3, <1>4, <1>5
    <3> QED
      BY SMT, <1>1, <1>2, <1>3, <1>4, <1>5, <3>1
  <2> QED
    BY <2>1, <2>2, <2>3, <2>4
<1> DEFINE D(d) == (v \div Base128[d]) % 128
<1>8. D(1) = r0 /\ D(2) = r1 /\ D(3) = r2 /\ D(4) = r3 /\ D(5) = q4
  <2>1. D(1) = (v \div 1) % 128 /\ D(2) = (v \div 128) % 128 /\ D(3) = (v \div 16384) % 128
        /\ D(4) = (v \div 2097152) % 128 /\ D(5) = (v \div 268435456) % 128
    BY SMT DEF Base128
  <2>2. D(1) = v % 128 /\ D(2) = q1 % 128 /\ D(3) = q2 % 128 /\ D(4) = q3 % 128 /\ D(5) = q4 % 128
    BY SMT, <1>7, <2>1
  <2>3. q4 % 128 = q4
    BY SMT, <1>5, <1>6
  <2> QED
    BY SMT, <2>2, <2>3 DEF r0, r1, r2, r3
<1> HIDE DEF D
<1>9. \A d \in 1..5 : D(d) \in 0..127
  <2>1. \A d \in 1..5 : d = 1 \/ d = 2 \/ d = 3 \/ d = 4 \/ d = 5
    BY SMT
  <2> QED
    BY SMT, <1>2, <1>3, <1>4, <1>5, <1>6, <1>8, <2>1
<1>10. v = D(1) + D(2) * 128 + D(3) * 16384 + D(4) * 2097152 + D(5) * 268435456
  BY SMT, <1>1, <1>2, <1>3, <1>4, <1>5, <1>6, <1>8
<1>11. /\ v < 16384 => D(3) = 0
       /\ v < 2097152 => D(4) = 0
       /\ v < 268435456 => D(5) = 0
  BY SMT, <1>1, <1>2, <1>3, <1>4, <1>5, <1>6, <1>8
<1> QED
  BY SMT, <1>9, <1>10, <1>11 DEF D

LEMMA MaxIs ==
  ASSUME NEW S \in SUBSET Nat, NEW x \in S, \A y \in S : x >= y
  PROVE  Max(S) = x
<1>1. \E z \in S : \A y \in S : z >= y
  OBVIOUS
<1>2. Max(S) \in S /\ \A y \in S : Max(S) >= y
  BY <1>1 DEF Max
<1> DEFINE m == Max(S)
<1>3. m \in Nat /\ x \in Nat /\ m >= x /\ x >= m
  BY <1>2
<1> HIDE DEF m
<1>4. m = x
  BY <1>3
<1> QED
  BY <1>4 DEF m

(* As many bytes as the number takes.                                       *)
LEMMA SizeOf ==
  ASSUME NEW v \in Nat, v <= INT_MAX
  PROVE  \/ ByteSize(v) = 1 /\ v < 256
         \/ ByteSize(v) = 2 /\ v < 65536
         \/ ByteSize(v) = 3 /\ v < 16777216
         \/ ByteSize(v) = 4
<1> DEFINE S == {1} \union {b \in 2..4 : v >= Base256[b]}
<1>1. ByteSize(v) = Max(S)
  BY SMT, IntMax DEF ByteSize
<1>2. Base256[2] = 256 /\ Base256[3] = 65536 /\ Base256[4] = 16777216
  BY SMT DEF Base256
<1>3. \A b \in 2..4 : b = 2 \/ b = 3 \/ b = 4
  BY SMT
<1>4. S \in SUBSET Nat
  BY SMT
<1>5. CASE v < 256
  <2>1. 1 \in S /\ \A y \in S : 1 >= y
    BY SMT, <1>2, <1>3, <1>5
  <2> HIDE DEF S
  <2>2. Max(S) = 1
    BY <1>4, <2>1, MaxIs
  <2> QED
    BY SMT, <1>1, <1>5, <2>2
<1>6. CASE v >= 256 /\ v < 65536
  <2>1. 2 \in S /\ \A y \in S : 2 >= y
    BY SMT, <1>2, <1>3, <1>6
  <2> HIDE DEF S
  <2>2. Max(S) = 2
    BY <1>4, <2>1, MaxIs
  <2> QED
    BY SMT, <1>1, <1>6, <2>2
<1>7. CASE v >= 65536 /\ v < 16777216
  <2>1. 3 \in S /\ \A y \in S : 3 >= y
    BY SMT, <1>2, <1>3, <1>7
  <2> HIDE DEF S
  <2>2. Max(S) = 3
    BY <1>4, <2>1, MaxIs
  <2> QED
    BY SMT, <1>1, <1>7, <2>2
<1>8. CASE v >= 16777216
  <2>1. 4 \in S /\ \A y \in S : 4 >= y
    BY SMT, <1>2, <1>3, <1>8
  <2> HIDE DEF S
  <2>2. Max(S) = 4
    BY <1>4, <2>1, MaxIs
  <2> QED
    BY SMT, <1>1, <2>2
<1> QED
  BY SMT, <1>5, <1>6, <1>7, <1>8

LEMMA HighBit ==
  ASSUME NEW x \in 0..127
  PROVE  /\ x % 128 = x /\ (x + 128) % 128 = x
         /\ x < 128 /\ ~(x + 128 < 128)
BY SMT

(* What a reader makes of digits.                                           *)
LEMMA DecodeDigits ==
  ASSUME NEW v \in Nat, v <= INT_MAX, NEW s \in 2..5,
         s = 2 => v < 16384, s = 3 => v < 2097152, s = 4 => v < 268435456
  PROVE  Decode(InBytes(v, s)) = v
<1> DEFINE D(d) == (v \div Base128[d]) % 128
           bytes == InBytes(v, s)
           Digit(d) == IF d <= s THEN (bytes[s - d + 1] % 128) * Base128[d] ELSE 0
<1>1. /\ \A d \in 1..5 : D(d) \in 0..127
      /\ v = D(1) + D(2) * 128 + D(3) * 16384 + D(4) * 2097152 + D(5) * 268435456
      /\ v < 16384 => D(3) = 0
      /\ v < 2097152 => D(4) = 0
      /\ v < 268435456 => D(5) = 0
  BY Digits
<1>2. \A b \in 1..s : bytes[b] = D(s - b + 1) + (IF b = s THEN 0 ELSE 128)
  BY SMT DEF InBytes
<1>3. Len(bytes) = s
  BY SMT DEF InBytes
<1> HIDE DEF D, bytes
<1>4. ASSUME NEW b \in 1..s
      PROVE  bytes[b] < 128 <=> b = s
  <2>1. s - b + 1 \in 1..5
    BY SMT
  <2>2. D(s - b + 1) \in 0..127
    BY <1>1, <2>1
  <2> QED
    BY SMT, <1>2, <2>2, HighBit
<1>5. ASSUME NEW d \in 1..5, d <= s
      PROVE  Digit(d) = D(d) * Base128[d]
  <2>1. s - d + 1 \in 1..s /\ s - (s - d + 1) + 1 = d
    BY SMT, <1>5
  <2>2. bytes[s - d + 1] = D(d) + (IF s - d + 1 = s THEN 0 ELSE 128)
    BY <1>2, <2>1
  <2>3. D(d) \in 0..127
    BY <1>1
  <2>4. bytes[s - d + 1] % 128 = D(d)
    BY <2>2, <2>3, HighBit
  <2> QED
    BY <1>5, <2>4
<1>6. Decode(bytes) = Digit(1) + Digit(2) + Digit(3) + Digit(4) + Digit(5)
  BY <1>3, <1>4 DEF Decode
<1>7. \A d \in 3..5 : ~(d <= s) => Digit(d) = 0
  OBVIOUS
<1> HIDE DEF Digit
<1>8. /\ Base128[1] = 1 /\ Base128[2] = 128 /\ Base128[3] = 16384 /\ Base128[4] = 2097152
      /\ Base128[5] = 268435456
  BY SMT DEF Base128
<1>9. D(1) \in Nat /\ D(2) \in Nat /\ D(3) \in Nat /\ D(4) \in Nat /\ D(5) \in Nat
  BY SMT, <1>1
<1>10. Digit(1) = D(1) /\ Digit(2) = D(2) * 128
  BY SMT, <1>5, <1>8, <1>9
<1>11. Digit(3) = D(3) * 16384
  <2>1. CASE 3 <= s
    BY <1>5, <1>8, <2>1
  <2>2. CASE ~(3 <= s)
    <3>1. s = 2 /\ Digit(3) = 0
      BY SMT, <1>7, <2>2
    <3> QED
      BY SMT, <1>1, <3>1
  <2> QED
    BY <2>1, <2>2
<1>12. Digit(4) = D(4) * 2097152
  BY SMT, <1>1, <1>5, <1>7, <1>8, <1>9
<1>13. Digit(5) = D(5) * 268435456
  BY SMT, <1>1, <1>5, <1>7, <1>8, <1>9
<1> QED
  BY SMT, <1>1, <1>6, <1>10, <1>11, <1>12, <1>13 DEF bytes

LEMMA DecodeByte ==
  ASSUME NEW v \in 0..127
  PROVE  Decode(<<v>>) = v
<1>1. Len(<<v>>) = 1 /\ <<v>>[1] = v /\ 1..1 = {1} /\ v < 128 /\ v % 128 = v
  BY SMT
<1>2. Base128[1] = 1
  BY SMT DEF Base128
<1> QED
  BY SMT, <1>1, <1>2 DEF Decode

(* A reader finds the time that was written.                                *)
THEOREM DecodeVariabilize ==
  ASSUME NEW v \in Nat, v <= INT_MAX
  PROVE  Decode(Variabilize(v)) = v
<1>1. CASE ByteSize(v) <= 1 /\ v < 128
  <2>1. v \in 0..127 /\ Variabilize(v) = <<v>>
    BY SMT, <1>1 DEF Variabilize
  <2> QED
    BY <2>1, DecodeByte
<1>2. CASE ~(ByteSize(v) <= 1 /\ v < 128)
  <2> DEFINE s == ByteSize(v) + 1
  <2>1. /\ s \in 2..5
        /\ s = 2 => v < 16384
        /\ s = 3 => v < 2097152
        /\ s = 4 => v < 268435456
    BY SMT, SizeOf
  <2>2. Variabilize(v) = InBytes(v, s)
    BY <1>2 DEF Variabilize
  <2> HIDE DEF s
  <2> QED
    BY <2>1, <2>2, DecodeDigits
<1> QED
  BY <1>1, <1>2

(* The parts of a track that is stamped.                                    *)
LEMMA StampedIs ==
  ASSUME NEW t \in Track
  PROVE  Stamped(t) = [open |-> t.open, last |-> atom,
                       time |-> t.time + Decode(Variabilize((atom - t.last) * ATOM_LEN))]
<1> DEFINE d == Decode(Variabilize((atom - t.last) * ATOM_LEN))
<1>1. t = [open |-> t.open, last |-> t.last, time |-> t.time]
  BY DEF Track
<1>2. Stamped(t) = [[t EXCEPT !.last = atom] EXCEPT !.time = t.time + d]
  BY DEF Stamped
<1> HIDE DEF d
<1>3. [t EXCEPT !.last = atom] = [open |-> t.open, last |-> atom, time |-> t.time]
  BY <1>1
<1>4. [[open |-> t.open, last |-> atom, time |-> t.time] EXCEPT !.time = t.time + d]
        = [open |-> t.open, last |-> atom, time |-> t.time + d]
  OBVIOUS
<1> QED
  BY <1>2, <1>3, <1>4 DEF d

(* The player is not past the rounds of the run.                            *)
LEMMA AtomBound ==
  ASSUME QuietInv, TimeInv
  PROVE  atom \in Nat /\ atom <= Atoms * Measures
<1>1. /\ Atoms \in Nat /\ Measures \in Nat /\ rounds \in Nat /\ bars \in Nat /\ bars <= Measures
      /\ i \in 0..Atoms /\ atom \in Nat
  BY CountFacts DEF TimeInv
<1>2. Atoms * bars <= Atoms * Measures
  <2>1. \A d \in Nat : Atoms * d \in Nat
    BY <1>1
  <2>2. Measures - bars \in Nat /\ Atoms * Measures = Atoms * bars + Atoms * (Measures - bars)
    BY <1>1
  <2> DEFINE a == Atoms * Measures
             b == Atoms * bars
             c == Atoms * (Measures - bars)
  <2>3. a \in Nat /\ b \in Nat /\ c \in Nat /\ a = b + c
    BY <1>1, <2>1, <2>2
  <2> HIDE DEF a, b, c
  <2>4. b <= a
    BY <2>3
  <2> QED
    BY <2>4 DEF a, b
<1>3. atom = Atoms * bars \/ atom = Atoms * (bars - 1) + i
  BY DEF TimeInv
<1>4. atom <= Atoms * bars
  <2>1. Atoms * (bars - 1) = Atoms * bars - Atoms /\ Atoms * bars \in Nat
    BY <1>1
  <2> QED
    BY <1>1, <1>3, <2>1
<1>5. Atoms * bars \in Nat /\ Atoms * Measures \in Nat
  BY <1>1
<1> QED
  BY <1>1, <1>2, <1>4, <1>5

(* An event is stamped with its time.                                       *)
LEMMA StampedTime ==
  ASSUME Atoms * Measures * ATOM_LEN <= INT_MAX, QuietInv, TimeInv,
         NEW t \in Track, t.last <= atom, t.time = ATOM_LEN * t.last
  PROVE  Stamped(t).last = atom /\ Stamped(t).time = ATOM_LEN * atom
<1> DEFINE v == (atom - t.last) * ATOM_LEN
           m == Atoms * Measures
<1>1. t.last \in Nat /\ t.last <= atom
  BY DEF Track
<1>2. m \in Nat /\ atom \in Nat /\ atom <= m /\ m * 80 <= INT_MAX
  BY AtomBound, CountFacts DEF ATOM_LEN
<1> HIDE DEF m
<1>3. v \in Nat /\ v <= INT_MAX
  <2>1. v \in Nat /\ v <= m * 80
    BY SMT, <1>1, <1>2 DEF ATOM_LEN
  <2> HIDE DEF v
  <2> QED
    BY SMT, <1>2, <2>1, IntMax
<1>4. Decode(Variabilize(v)) = v
  BY <1>3, DecodeVariabilize
<1>5. Stamped(t).last = atom /\ Stamped(t).time = t.time + v
  BY <1>4, StampedIs
<1>6. ATOM_LEN * t.last + v = ATOM_LEN * atom
  BY SMT, <1>1, <1>2 DEF ATOM_LEN
<1> QED
  BY <1>5, <1>6

-----------------------------------------------------------------------------
(* The type invariant.                                                      *)

(* A reader finds some number, whatever time was written.                   *)
LEMMA DecodeType ==
  ASSUME NEW v \in Nat
  PROVE  Decode(Variabilize(v)) \in Int
<1>1. CASE ByteSize(v) <= 1 /\ v < 128
  <2>1. v \in 0..127 /\ Variabilize(v) = <<v>>
    BY SMT, <1>1 DEF Variabilize
  <2>2. Decode(<<v>>) = v
    BY <2>1, DecodeByte
  <2>3. v \in Int
    OBVIOUS
  <2> QED
    BY <2>1, <2>2, <2>3
<1>2. CASE ~(ByteSize(v) <= 1 /\ v < 128)
  <2> DEFINE s == ByteSize(v) + 1
             bytes == InBytes(v, s)
             Digit(d) == IF d <= s THEN (bytes[s - d + 1] % 128) * Base128[d] ELSE 0
  <2>1. s \in 2..5
    <3>1. v > INT_MAX => ByteSize(v) = 1
      BY DEF ByteSize
    <3> QED
      BY SMT, <3>1, SizeOf, IntMax
  <2>2. Variabilize(v) = bytes
    BY <1>2 DEF Variabilize
  <2> HIDE DEF s
  <2>3. \A k \in 1..5 : Base128[k] \in Nat \ {0}
    <3>1. \A k \in 1..5 : k = 1 \/ k = 2 \/ k = 3 \/ k = 4 \/ k = 5
      BY SMT
    <3> QED
      BY SMT, <3>1 DEF Base128
  <2>4. ASSUME NEW b \in 1..s
        PROVE  bytes[b] \in Int
    <3>1. s - b + 1 \in 1..5
      BY SMT, <2>1
    <3> DEFINE w == Base128[s - b + 1]
    <3>2. w \in Nat \ {0}
      BY <2>3, <3>1
    <3>3. bytes[b] = ((v \div w) % 128) + (IF b = s THEN 0 ELSE 128)
      BY DEF InBytes
    <3> HIDE DEF w, bytes
    <3>4. v \div w \in Int
      BY SMT, <3>2
    <3> QED
      BY SMT, <3>3, <3>4
  <2>5. Len(bytes) = s
    BY SMT, <2>1 DEF InBytes
  <2> HIDE DEF bytes
  <2>6. ASSUME NEW d \in 1..5
        PROVE  Digit(d) \in Int
    <3>1. CASE d <= s
      <4>1. s - d + 1 \in 1..s
        BY SMT, <2>1, <3>1
      <4>2. bytes[s - d + 1] \in Int /\ Base128[d] \in Int
        BY <2>3, <2>4, <4>1
      <4>3. (bytes[s - d + 1] % 128) * Base128[d] \in Int
        BY SMT, <4>2
      <4> QED
        BY <3>1, <4>3
    <3> QED
      BY <3>1
  <2>7. Decode(bytes) = Digit(1) + Digit(2) + Digit(3) + Digit(4) + Digit(5) \/ Decode(bytes) = -1
    BY <2>5 DEF Decode
  <2> HIDE DEF Digit
  <2>8. Digit(1) \in Int /\ Digit(2) \in Int /\ Digit(3) \in Int /\ Digit(4) \in Int /\ Digit(5) \in Int
    BY SMT, <2>6
  <2>9. Decode(bytes) \in Int
    BY SMT, <2>7, <2>8
  <2> QED
    BY <2>2, <2>9
<1> QED
  BY <1>1, <1>2

(* What TypeOK says and no invariant before; no event of a track is yet to  *)
(* come.                                                                    *)
RestType ==
  /\ phase \in {"setup", "wait", "play", "closed"}
  /\ tracks \in [Channel -> Track]
  /\ \A c \in Channel : tracks[c].last <= atom
  /\ data \in [Channel -> [1..MAX_CHORD_SIZE -> Event]]
  /\ note_list \in [Slots -> [who : DOMAIN band, part : Parts \union {<<>>}]]
  /\ pointer \in [Slots -> [next : Nat, left : 0..Atoms, ch : Channel]]
  /\ sounding \subseteq Channel \X (Pitches \union {0})
  /\ moved \in BOOLEAN

LEMMA WrittenType ==
  ASSUME TimeInv, RestType, NEW events
  PROVE  /\ Written(events) \in [Channel -> Track]
         /\ \A c \in Channel : Written(events)[c].last <= atom
<1>1. ASSUME NEW c \in Channel
      PROVE  Stamped(tracks[c]) \in Track /\ Stamped(tracks[c]).last <= atom
  <2> DEFINE t == tracks[c]
             v == (atom - t.last) * ATOM_LEN
  <2>1. t \in Track /\ t.last <= atom /\ t.last \in Nat /\ t.time \in Int /\ atom \in Nat
        /\ t.open \in BOOLEAN
    BY DEF TimeInv, RestType, Track
  <2> HIDE DEF t
  <2>2. v \in Nat
    BY SMT, <2>1 DEF ATOM_LEN
  <2> HIDE DEF v
  <2> DEFINE d == Decode(Variabilize(v))
  <2>3. d \in Int
    BY <2>2, DecodeType
  <2>4. Stamped(t) = [open |-> t.open, last |-> atom, time |-> t.time + d]
    BY <2>1, StampedIs DEF v
  <2> HIDE DEF d
  <2>5. t.time + d \in Int /\ atom <= atom
    BY <2>1, <2>3
  <2> QED
    BY <2>1, <2>4, <2>5 DEF Track, t
<1> QED
  BY <1>1 DEF Written, RestType

LEMMA InitRest == Init => RestType
<1> SUFFICES ASSUME Init PROVE RestType
  OBVIOUS
<1>1. band \in Bands /\ 0 \in Channel /\ Atoms \in Nat
  BY SoundConstants, SoundAssumption DEF Init
<1>2. 1 \in DOMAIN band
  <2>1. Len(band) \in 1..MIDI_CHANNELS /\ band \in Seq(Nat)
    BY <1>1, SoundAssumption
  <2> QED
    BY <2>1, SoundConstants
<1>3. tracks \in [Channel -> Track] /\ \A c \in Channel : tracks[c].last <= atom
  BY DEF Init, Track
<1>4. data \in [Channel -> [1..MAX_CHORD_SIZE -> Event]]
  BY DEF Init, Event
<1>5. note_list \in [Slots -> [who : DOMAIN band, part : Parts \union {<<>>}]]
  BY <1>2 DEF Init
<1>6. pointer \in [Slots -> [next : Nat, left : 0..Atoms, ch : Channel]]
  BY <1>1 DEF Init
<1>7. phase \in {"setup", "wait", "play", "closed"} /\ moved \in BOOLEAN
      /\ sounding \subseteq Channel \X (Pitches \union {0})
  BY DEF Init
<1> QED
  BY <1>3, <1>4, <1>5, <1>6, <1>7 DEF RestType

LEMMA PlayNoteType ==
  ASSUME QuietInv, BindInv, PlayInv, TimeInv, RestType, PlayNote
  PROVE  RestType'
<1> DEFINE part == note_list[slot].part
           n == pointer[slot].next
           c == pointer[slot].ch
           chord == part[n].chord
           after == Heard(sounding, Range(data[slot]))
<1>1. /\ slot \in Slots /\ slot \in Channel /\ n \in 1..Len(part) /\ phase = "play"
      /\ sounding' = Heard(after, Starts(chord, c))
      /\ data' = [data EXCEPT ![slot] = Ending(slot, chord, c)]
      /\ UNCHANGED <<phase, band, note_list, moved, atom>>
      /\ c \in Channel /\ Slots' = Slots
  BY SlotsAreChannels, PointerMoves
     DEF QuietInv, PlayNote, HeardInOrder, roundVars, setupVars, Slots
<1>2. part \in Parts /\ n \in Nat
  BY <1>1 DEF QuietInv, PartsKnown, PlayInv
<1>3. part[n] \in [len : 1..Atoms, chord : Chords]
  BY <1>1, <1>2, SoundAssumption, ElementOfSeq
<1>4. part[n].len \in 1..Atoms /\ chord \in Chords
  BY <1>3
<1> HIDE DEF part, n, c, chord, after
<1>5. \A k \in 1..Len(chord) : chord[k] \in Pitches \union {REST}
  <2>1. CASE chord \in UNION {[1..k -> Pitches] : k \in 0..MAX_CHORD_SIZE}
    <3>1. PICK k \in 0..MAX_CHORD_SIZE : chord \in [1..k -> Pitches]
      BY <2>1
    <3>2. k \in Nat
      BY SoundAssumption
    <3>3. Len(chord) = k
      BY <3>1, <3>2
    <3> QED
      BY <3>1, <3>3
  <2>2. CASE chord = <<REST>>
    BY <2>2
  <2> QED
    BY <1>4, <2>1, <2>2 DEF Chords
<1>6. Range(chord) \ {REST} \subseteq Pitches
  <2>1. CASE chord \in UNION {[1..k -> Pitches] : k \in 0..MAX_CHORD_SIZE}
    BY <2>1 DEF Range
  <2>2. CASE chord = <<REST>>
    BY <2>2 DEF Range
  <2> QED
    BY <1>4, <2>1, <2>2 DEF Chords
<1>7. data' \in [Channel -> [1..MAX_CHORD_SIZE -> Event]]
  <2>1. ASSUME NEW k \in 1..MAX_CHORD_SIZE
        PROVE  (IF k <= Len(chord) THEN [kind |-> "up", ch |-> c, note |-> chord[k]]
                ELSE data[slot][k]) \in Event
    <3>1. CASE k <= Len(chord)
      <4>1. Len(chord) \in Nat
        <5>1. chord = part[n].chord /\ n \in 1..Len(part)
          BY <1>1 DEF chord
        <5>2. Len(chord) \in 0..MAX_CHORD_SIZE
          BY <1>2, <5>1, ChordFits
        <5> DEFINE l == Len(chord)
        <5>3. l \in 0..MAX_CHORD_SIZE
          BY <5>2
        <5> HIDE DEF l
        <5>4. l \in Nat
          BY <5>3, SoundAssumption
        <5> QED
          BY <5>4 DEF l
      <4>2. chord[k] \in Pitches \union {REST}
        BY <1>5, <3>1, <4>1, SoundAssumption
      <4> QED
        BY <1>1, <3>1, <4>2 DEF Event
    <3>2. CASE ~(k <= Len(chord))
      <4>1. data[slot] \in [1..MAX_CHORD_SIZE -> Event]
        BY <1>1 DEF RestType
      <4>2. data[slot][k] \in Event
        BY <4>1, Zenon
      <4> QED
        BY <3>2, <4>2
    <3> QED
      BY <3>1, <3>2
  <2>2. Ending(slot, chord, c) \in [1..MAX_CHORD_SIZE -> Event]
    BY <2>1 DEF Ending
  <2> QED
    BY <1>1, <2>2 DEF RestType
<1>8. tracks' \in [Channel -> Track] /\ \A x \in Channel : tracks'[x].last <= atom
  <2>1. PICK events : tracks' = Written(events)
    BY DEF PlayNote
  <2> QED
    BY <2>1, WrittenType
<1>9. sounding' \subseteq Channel \X (Pitches \union {0})
  <2>1. after \subseteq Channel \X (Pitches \union {0})
    <3>1. \A e \in Range(data[slot]) : e.kind = "up"
      BY <1>1 DEF QuietInv, DataUp, Range
    <3>2. after \subseteq sounding
      BY <3>1 DEF after, Heard
    <3> QED
      BY <3>2 DEF RestType
  <2>2. \A e \in Starts(chord, c) : e.ch = c /\ e.note \in Pitches
    BY <1>6 DEF Starts
  <2> QED
    BY <1>1, <2>1, <2>2 DEF Heard
<1>10. pointer' \in [Slots -> [next : Nat, left : 0..Atoms, ch : Channel]]
  <2>1. pointer' \in [Slots -> [next : Nat, left : Int, ch : Channel]]
    BY <1>1, PlayKeeps DEF PlayInv, Slots, Channel
  <2>2. ASSUME NEW s \in Slots
        PROVE  pointer'[s].left \in 0..Atoms
    <3>1. CASE s = slot
      <4>1. pointer'[s].left = part[n].len - 1
        BY <3>1, PointerMoves DEF part, n
      <4> DEFINE l == part[n].len
      <4>2. l \in 1..Atoms /\ pointer'[s].left = l - 1 /\ Atoms \in Nat
        BY <1>4, <4>1, SoundAssumption
      <4> HIDE DEF l
      <4> QED
        BY <4>2
    <3>2. CASE s # slot
      BY <3>2, PointerMoves DEF RestType
    <3> QED
      BY <3>1, <3>2
  <2> QED
    BY <2>1, <2>2
<1> QED
  BY <1>1, <1>7, <1>8, <1>9, <1>10 DEF RestType, Channel

LEMMA RoundType ==
  ASSUME QuietInv, BindInv, PlayInv, RestType, RecvRound
  PROVE  RestType'
<1>1. PICK who \in Bijection(Slots, DOMAIN band), part \in [Slots -> Parts] :
        /\ note_list' = [s \in Slots |-> [who |-> who[s], part |-> part[s]]]
        /\ pointer' = [s \in Slots |->
             [next |-> 1, left |-> 0, ch |-> FindMidiChannel(band[who[s]])]]
        /\ moved' = (moved \/ (rounds > 0 /\ \E s \in Slots : who[s] # note_list[s].who))
  BY DEF RecvRound
<1>2. /\ phase = "wait" /\ phase' = "play" /\ Slots' = Slots /\ Channel' = Channel
      /\ UNCHANGED <<band, data, tracks, atom, sounding>>
  BY DEF RecvRound, Slots, Channel
<1>3. \A s \in Slots : who[s] \in DOMAIN band /\ part[s] \in Parts
  BY <1>1 DEF Bijection, Injection
<1>4. bound = Len(band)
  BY <1>2 DEF PlayInv
<1>5. \A s \in Slots : FindMidiChannel(band[who[s]]) \in Channel
  BY <1>3, <1>4, ChannelFound
<1>6. note_list' \in [Slots -> [who : DOMAIN band, part : Parts \union {<<>>}]]
  BY <1>1, <1>3
<1>7. 1 \in Nat /\ 0 \in 0..Atoms
  BY SoundAssumption
<1>8. pointer' \in [Slots -> [next : Nat, left : 0..Atoms, ch : Channel]]
  BY <1>1, <1>5, <1>7
<1> QED
  BY <1>1, <1>2, <1>6, <1>8 DEF RestType

LEMMA OtherType ==
  ASSUME QuietInv, BindInv, PlayInv, TimeInv, RestType,
         \/ EndSetup \/ EndOfPart \/ CountDown \/ SkipSlot \/ NextAtom
         \/ SmorzaIncosa \/ UNCHANGED vars
  PROVE  RestType'
<1>1. /\ UNCHANGED <<band, data, note_list, moved>> /\ Slots' = Slots /\ Channel' = Channel
      /\ phase' \in {"setup", "wait", "play", "closed"}
  BY DEF EndSetup, EndOfPart, CountDown, SkipSlot, NextAtom, SmorzaIncosa, vars,
         setupVars, roundVars, Slots, Channel, RestType
<1>2. atom \in Nat /\ atom' \in Nat /\ atom <= atom'
  <2>1. atom' = atom \/ atom' = atom + 1
    BY DEF EndSetup, EndOfPart, CountDown, SkipSlot, NextAtom, SmorzaIncosa, vars
  <2> QED
    BY <2>1 DEF TimeInv
<1>3. tracks' \in [Channel -> Track] /\ \A c \in Channel : tracks'[c].last <= atom'
  <2>1. tracks' \in [Channel -> Track] /\ \A c \in Channel : tracks'[c].last <= atom
    <3>1. CASE SmorzaIncosa
      <4>1. PICK events : tracks' = Written(events)
        BY <3>1 DEF SmorzaIncosa
      <4> QED
        BY <4>1, WrittenType
    <3>2. CASE tracks' = tracks
      BY <3>2 DEF RestType
    <3> QED
      BY <3>1, <3>2 DEF EndSetup, EndOfPart, CountDown, SkipSlot, NextAtom, vars
  <2>2. ASSUME NEW c \in Channel
        PROVE  tracks'[c].last <= atom'
    <3>1. tracks'[c].last \in Nat /\ tracks'[c].last <= atom
      BY <2>1 DEF Track
    <3> QED
      BY <1>2, <3>1
  <2> QED
    BY <2>1, <2>2
<1>4. sounding' \subseteq Channel \X (Pitches \union {0})
  <2>1. CASE SmorzaIncosa
    <3>1. sounding' = {}
      BY <2>1, SmorzaQuiet DEF QuietInv, AllQuiet, SmorzaIncosa
    <3> QED
      BY <3>1
  <2>2. CASE sounding' = sounding
    BY <2>2 DEF RestType
  <2> QED
    BY <2>1, <2>2 DEF EndSetup, EndOfPart, CountDown, SkipSlot, NextAtom, vars
<1>5. pointer' \in [Slots -> [next : Nat, left : 0..Atoms, ch : Channel]]
  <2>1. CASE EndOfPart \/ CountDown
    <3>1. pointer' \in [Slots -> [next : Nat, left : Int, ch : Channel]]
      BY <1>1, <2>1, PlayKeeps DEF PlayInv, EndOfPart, CountDown
    <3>2. ASSUME NEW s \in Slots
          PROVE  pointer'[s].left \in 0..Atoms
      <4>1. pointer[s].left \in 0..Atoms
        BY DEF RestType
      <4>2. pointer'[s].left = pointer[s].left
              \/ (pointer[s].left > 0 /\ pointer'[s].left = pointer[s].left - 1)
        BY <2>1, PointerMoves DEF CountDown
      <4> DEFINE l == pointer[s].left
                 m == pointer'[s].left
      <4> HIDE DEF l, m
      <4>3. l \in 0..Atoms /\ (m = l \/ (l > 0 /\ m = l - 1)) /\ Atoms \in Nat
        BY <4>1, <4>2, SoundAssumption DEF l, m
      <4>4. m \in 0..Atoms
        BY <4>3
      <4> QED
        BY <4>4 DEF m
    <3> QED
      BY <3>1, <3>2
  <2>2. CASE pointer' = pointer
    BY <2>2 DEF RestType
  <2> QED
    BY <2>1, <2>2 DEF EndSetup, SkipSlot, NextAtom, SmorzaIncosa, vars
<1> QED
  BY <1>1, <1>3, <1>4, <1>5 DEF RestType

LEMMA BindType ==
  ASSUME BindInv, TimeInv, RestType, BindMusician
  PROVE  RestType'
<1>1. /\ UNCHANGED <<phase, band, data, note_list, pointer, atom, sounding, moved>>
      /\ Slots' = Slots /\ Channel' = Channel
  BY DEF BindMusician, roundVars, Slots, Channel
<1>2. \/ tracks' = tracks
      \/ \E t : tracks' = [tracks EXCEPT ![t] = [open |-> TRUE, last |-> 0, time |-> 0]]
  BY DEF BindMusician
<1>3. [open |-> TRUE, last |-> 0, time |-> 0] \in Track /\ 0 <= atom
  BY DEF Track, TimeInv
<1>4. tracks' \in [Channel -> Track] /\ \A c \in Channel : tracks'[c].last <= atom
  <2>1. CASE tracks' = tracks
    BY <2>1 DEF RestType
  <2>2. CASE tracks' # tracks
    <3> DEFINE fresh == [open |-> TRUE, last |-> 0, time |-> 0]
    <3>1. PICK t : tracks' = [tracks EXCEPT ![t] = fresh]
      BY <1>2, <2>2
    <3>2. fresh \in Track /\ fresh.last <= atom
      BY <1>3
    <3> HIDE DEF fresh
    <3>3. /\ tracks' = [c \in Channel |-> tracks'[c]]
          /\ \A c \in Channel : tracks'[c] = fresh \/ tracks'[c] = tracks[c]
      BY <3>1 DEF RestType
    <3> QED
      BY <3>2, <3>3 DEF RestType
  <2> QED
    BY <2>1, <2>2
<1> QED
  BY <1>1, <1>4 DEF RestType

LEMMA RestAlways == Spec => []RestType
<1>1. QuietInv /\ BindInv /\ PlayInv /\ TimeInv /\ RestType /\ [Next]_vars => RestType'
  BY PlayNoteType, RoundType, OtherType, BindType DEF Next, Ended
<1> QED
  BY <1>1, InitRest, TimeAlways, BoundAlways, PTL DEF Spec

(* For any band and parts: the variables keep their types; no array of the  *)
(* player is left, and no countdown is negative.                            *)
THEOREM SoundTypes == Spec => []TypeOK
<1>1. QuietInv /\ BindInv /\ TimeInv /\ RestType => TypeOK
  <2> SUFFICES ASSUME QuietInv, BindInv, TimeInv, RestType
               PROVE  TypeOK
    OBVIOUS
  <2>1. chcounter \in Channel
    <3>1. Cardinality(Players(bound)) \in Nat /\ Cardinality(Players(bound)) <= MIDI_CHANNELS - 2
      BY PlayersCounted DEF BindInv
    <3> DEFINE k == Cardinality(Players(bound))
    <3>2. k \in Nat /\ k <= MIDI_CHANNELS - 2 /\ chcounter = k + (IF k >= Drums THEN 1 ELSE 0)
      BY <3>1 DEF BindInv
    <3> HIDE DEF k
    <3> QED
      BY <3>2, SoundConstants DEF Channel
  <2> QED
    BY <2>1 DEF QuietInv, BindInv, TimeInv, RestType, TypeOK
<1> QED
  BY <1>1, RestAlways, TimeAlways, BoundAlways, PTL

-----------------------------------------------------------------------------
(* The time in the file.                                                    *)

FileTime == \A c \in Channel : tracks[c].time = ATOM_LEN * tracks[c].last

LEMMA WrittenTime ==
  ASSUME Atoms * Measures * ATOM_LEN <= INT_MAX, QuietInv, TimeInv, RestType, FileTime,
         NEW events, tracks' = Written(events), Channel' = Channel
  PROVE  FileTime'
<1>1. ASSUME NEW c \in Channel
      PROVE  tracks'[c].time = ATOM_LEN * tracks'[c].last
  <2>1. /\ tracks[c] \in Track /\ tracks[c].last <= atom
        /\ tracks[c].time = ATOM_LEN * tracks[c].last
    BY DEF RestType, FileTime
  <2>2. Stamped(tracks[c]).time = ATOM_LEN * Stamped(tracks[c]).last
    BY <2>1, StampedTime
  <2>3. tracks'[c] = Stamped(tracks[c]) \/ tracks'[c] = tracks[c]
    BY DEF Written
  <2> QED
    BY <2>1, <2>2, <2>3
<1> QED
  BY <1>1 DEF FileTime

(* For any band and parts, as long as the atoms of the whole run can be     *)
(* counted: every event is in the file at its time.                         *)
THEOREM TrackTimeHolds ==
  ASSUME Atoms * Measures * ATOM_LEN <= INT_MAX
  PROVE  Spec => []TrackTime
<1>1. Init => FileTime
  BY SMT DEF Init, FileTime, ATOM_LEN
<1>2. QuietInv /\ TimeInv /\ RestType /\ FileTime /\ [Next]_vars => FileTime'
  <2> SUFFICES ASSUME QuietInv, TimeInv, RestType, FileTime, [Next]_vars
               PROVE  FileTime'
    OBVIOUS
  <2>1. Channel' = Channel
    BY DEF Channel
  <2>2. \/ tracks' = tracks
        \/ \E events : tracks' = Written(events)
        \/ \E t : tracks' = [tracks EXCEPT ![t] = [open |-> TRUE, last |-> 0, time |-> 0]]
    BY DEF Next, BindMusician, EndSetup, RecvRound, PlayNote, EndOfPart, CountDown, SkipSlot,
           NextAtom, SmorzaIncosa, Ended, vars
  <2>3. CASE tracks' = tracks
    BY <2>1, <2>3 DEF FileTime
  <2>4. CASE \E events : tracks' = Written(events)
    BY <2>1, <2>4, WrittenTime
  <2>5. CASE \E t : tracks' = [tracks EXCEPT ![t] = [open |-> TRUE, last |-> 0, time |-> 0]]
    <3>1. ATOM_LEN * 0 = 0
      BY SMT DEF ATOM_LEN
    <3> QED
      BY <2>1, <2>5, <3>1 DEF FileTime, RestType
  <2> QED
    BY <2>2, <2>3, <2>4, <2>5
<1>3. FileTime => TrackTime
  BY DEF FileTime, TrackTime
<1> QED
  BY <1>1, <1>2, <1>3, RestAlways, TimeAlways, BoundAlways, PTL DEF Spec
=============================================================================
