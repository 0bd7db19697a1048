-------------------------------- MODULE Sound --------------------------------
(***************************************************************************)
(* What the player does with the rounds it receives: midi_init binds the    *)
(* musicians to channels, play_measure switches their notes on and off atom *)
(* by atom (an atom is a third of a semiquaver), writeNote writes each      *)
(* event to the device and, with the time since the event before, to the    *)
(* track of its channel, and smorza_incosa ends everything.                 *)
(*                                                                          *)
(* recv_to_play fills the slots of a round in the order of arrival, so that *)
(* a slot may have another musician in each round.  Velocities are left out. *)
(***************************************************************************)
EXTENDS Integers, Sequences, FiniteSetsExt, Functions

CONSTANTS
  Bands,              \* bands: sequences of instrument classes, as registered
  Parts,              \* parts a musician may write: sequences of notes
  Pitches,            \* MIDI pitches, less than REST
  REST,               \* MIDI_REST_NOTE, the pitch of a silence
  MAX_CHORD_SIZE,     \* notes of a chord
  Atoms,              \* atoms of a measure: 48
  Measures,           \* rounds of the run
  MIDI_CHANNELS,      \* channels, and slots of data
  MIDI_DRUM_CHANNEL,  \* the drum channel, counted from one
  INSTRUMENT_DRUM     \* the class of the drums

Chords == (UNION {[1..k -> Pitches] : k \in 0..MAX_CHORD_SIZE}) \union {<<REST>>}

NonDrums(band) == {m \in DOMAIN band : band[m] # INSTRUMENT_DRUM}

(* The notes of a part last a measure together: they begin one after the    *)
(* other, and the last one ends with the measure.                           *)
Timed(part) ==
  \E begins \in [1..Len(part) + 1 -> 0..Atoms] :
    /\ begins[1] = 0 /\ begins[Len(part) + 1] = Atoms
    /\ \A n \in 1..Len(part) : begins[n + 1] = begins[n] + part[n].len

(* A measure of as many notes as semiquavers has size 0 when it arrives.    *)
(* More musicians than channels overrun the arrays.                         *)
ASSUME SoundAssumption ==
  /\ REST \notin Pitches
  /\ MAX_CHORD_SIZE \in Nat \ {0} /\ Atoms \in Nat \ {0} /\ Measures \in Nat
  /\ MIDI_CHANNELS \in Nat \ {0} /\ MIDI_DRUM_CHANNEL \in 3..MIDI_CHANNELS
  /\ INSTRUMENT_DRUM \in Nat \ {0}
  /\ Bands \subseteq Seq(Nat)
  /\ \A band \in Bands : /\ Len(band) \in 1..MIDI_CHANNELS
                         /\ Cardinality(NonDrums(band)) <= MIDI_CHANNELS - 2
  /\ Parts \subseteq Seq([len : 1..Atoms, chord : Chords])
  /\ \A part \in Parts \ {<<>>} : Timed(part)

VARIABLES
  phase,      \* "setup", "wait" for a round, "play", "closed"
  band,       \* the musicians in the player's list
  bound,      \* initFile: musicians bound so far
  chcounter,  \* initFile: the last channel given to a musician
  Channels,   \* the class of each channel
  program,    \* the instrument the synthesizer has on each channel
  tracks,     \* the tracks of the file
  data,       \* for each slot, the events that end its last notes
  note_list,  \* for each slot of the round, the musician and its part
  pointer,    \* note_pointer: note to come (0: over), countdown, channel
  slot,       \* play_measure: the slot it comes to
  i,          \* play_measure: the step
  atom,       \* atom_counter
  sounding,   \* channels and pitches the synthesizer sounds
  rounds,     \* rounds played
  bars,       \* rounds played in which some part was not empty
  moved       \* some slot has had two musicians

setupVars == <<bound, chcounter, Channels, program>>
roundVars == <<note_list, rounds, bars, moved>>
vars == <<phase, band, setupVars, tracks, data, roundVars, pointer, slot, i, atom, sounding>>

Channel == 0..MIDI_CHANNELS - 1

Slots == 0..Len(band) - 1

Event == [kind : {"up", "down"}, ch : Channel, note : Pitches \union {REST, 0}]

(* A track: it has been opened, the atom of its last event (lastAtom), and  *)
(* the time a reader of the file has for that event.                        *)
Track == [open : BOOLEAN, last : Nat, time : Int]

TypeOK ==
  /\ phase \in {"setup", "wait", "play", "closed"}
  /\ band \in Bands
  /\ bound \in 0..Len(band)
  /\ chcounter \in Channel
  /\ Channels \in [Channel -> Nat]
  /\ program \in [Channel -> Nat]
  /\ tracks \in [Channel -> Track]
  /\ data \in [Channel -> [1..MAX_CHORD_SIZE -> Event]]
  /\ note_list \in [Slots -> [who : DOMAIN band, part : Parts \union {<<>>}]]
  /\ pointer \in [Slots -> [next : Nat, left : 0..Atoms, ch : Channel]]
  /\ slot \in 0..Len(band)
  /\ i \in 0..Atoms
  /\ atom \in Nat
  /\ sounding \subseteq Channel \X (Pitches \union {0})
  /\ rounds \in 0..Measures /\ bars \in 0..rounds
  /\ moved \in BOOLEAN

-----------------------------------------------------------------------------
(* The time before an event in the file.                                    *)

ATOM_LEN == 80

INT_MAX == 2147483647

(* The weights of digits that are bytes, and of digits of seven bits.       *)
Base256 == <<1, 256, 65536, 16777216>>
Base128 == <<1, 128, 16384, 2097152, 268435456>>

(* byte_size: a number that is negative as an int counts as one byte.       *)
ByteSize(v) == IF v > INT_MAX THEN 1 ELSE Max({1} \union {b \in 2..4 : v >= Base256[b]})

(* The digits, the highest first, all but the last with the high bit.       *)
InBytes(v, s) ==
  [b \in 1..s |-> ((v \div Base128[s - b + 1]) % 128) + (IF b = s THEN 0 ELSE 128)]

(* variabilize_val: seven bits to a byte; one byte only if the high bit is  *)
(* not used.  (Mutant: any value of one byte is written as it is.)          *)
VariabilizeByte(v) == IF ByteSize(v) <= 1 THEN <<v>> ELSE InBytes(v, ByteSize(v) + 1)

Variabilize(v) ==
  IF ByteSize(v) <= 1 /\ v < 128 THEN <<v>> ELSE InBytes(v, ByteSize(v) + 1)

(* What a reader of the file makes of it: the first byte without the high   *)
(* bit is the last one.  -1 if it reads too few bytes, or too many.         *)
Decode(bytes) ==
  LET s == Len(bytes)
      Digit(d) == IF d <= s THEN (bytes[s - d + 1] % 128) * Base128[d] ELSE 0
  IN IF \A b \in 1..s : bytes[b] < 128 <=> b = s
     THEN Digit(1) + Digit(2) + Digit(3) + Digit(4) + Digit(5)
     ELSE -1

-----------------------------------------------------------------------------
(* Events.                                                                  *)

(* The device: what sounds after the events of a set.                       *)
Heard(on, events) ==
  (on \ {<<e.ch, e.note>> : e \in {x \in events : x.kind = "up"}})
    \union {<<e.ch, e.note>> : e \in {x \in events : x.kind = "down"}}

(* The old notes are switched off before the new ones are switched on.      *)
(* (Mutant: after.)                                                         *)
HeardReversed(on, old, new) == Heard(Heard(on, new), old)

HeardInOrder(on, old, new) == Heard(Heard(on, old), new)

(* The file: the track of an event gets the time since its last one.        *)
Stamped(track) ==
  [track EXCEPT !.last = atom,
                !.time = @ + Decode(Variabilize((atom - track.last) * ATOM_LEN))]

Written(events) ==
  [c \in Channel |->
     IF tracks[c].open /\ \E e \in events : e.ch = c THEN Stamped(tracks[c]) ELSE tracks[c]]

-----------------------------------------------------------------------------
(* midi_init.                                                               *)

Init ==
  /\ phase = "setup"
  /\ band \in Bands
  /\ bound = 0 /\ chcounter = 0
  /\ Channels = [c \in Channel |-> 0]
  /\ program = [c \in Channel |-> 0]
  /\ tracks = [c \in Channel |-> [open |-> FALSE, last |-> 0, time |-> 0]]
  /\ data = [c \in Channel |-> [k \in 1..MAX_CHORD_SIZE |->
               [kind |-> "up", ch |-> c, note |-> 0]]]
  /\ note_list = [s \in Slots |-> [who |-> 1, part |-> <<>>]]
  /\ pointer = [s \in Slots |-> [next |-> 0, left |-> 0, ch |-> 0]]
  /\ slot = 0 /\ i = 0 /\ atom = 0 /\ sounding = {}
  /\ rounds = 0 /\ bars = 0 /\ moved = FALSE

(* The next channel for a musician that is not a drummer: the drums' is     *)
(* left out.  (Mutant: it is not.)                                          *)
NextChannelPlain(c) == c + 1

NextChannel(c) == IF c = MIDI_DRUM_CHANNEL - 2 THEN c + 2 ELSE c + 1

ChannelFor(class) ==
  IF class = INSTRUMENT_DRUM THEN MIDI_DRUM_CHANNEL - 1 ELSE NextChannel(chcounter)

(* initFile, one musician: a channel, its instrument, its track.  It returns *)
(* early at the drums' channel, and midi_init does not look at that.        *)
BindMusician ==
  /\ phase = "setup" /\ bound < Len(band)
  /\ LET class == band[bound + 1]
         t     == ChannelFor(class)
     IN IF class # INSTRUMENT_DRUM /\ chcounter = MIDI_DRUM_CHANNEL - 1
        THEN bound' = Len(band) /\ UNCHANGED <<chcounter, Channels, program, tracks>>
        ELSE /\ Channels' = [Channels EXCEPT ![t] = class]
             /\ program' = [program EXCEPT ![t] = class]
             /\ tracks' = [tracks EXCEPT ![t] = [open |-> TRUE, last |-> 0, time |-> 0]]
             /\ chcounter' = IF class = INSTRUMENT_DRUM THEN chcounter ELSE t
             /\ bound' = bound + 1
  /\ UNCHANGED <<phase, band, data, roundVars, pointer, slot, i, atom, sounding>>

EndSetup ==
  /\ phase = "setup" /\ bound = Len(band)
  /\ phase' = "wait"
  /\ UNCHANGED <<band, setupVars, tracks, data, roundVars, pointer, slot, i, atom, sounding>>

-----------------------------------------------------------------------------
(* play_measure.                                                            *)

(* The first channel of the class.  A channel nobody is bound to has 0, the *)
(* class of the grand piano.  (Mutant: channels are counted from one.)      *)
FindMidiChannelFromOne(class) == Min({c \in Channel : Channels[c] = class}) + 1

FindMidiChannel(class) == Min({c \in Channel : Channels[c] = class})

(* A round: the musicians in some order, each with its part, and the        *)
(* beginning of play_measure.                                               *)
RecvRound ==
  /\ phase = "wait" /\ rounds < Measures
  /\ \E who \in Bijection(Slots, DOMAIN band), part \in [Slots -> Parts] :
       /\ note_list' = [s \in Slots |-> [who |-> who[s], part |-> part[s]]]
       /\ pointer' = [s \in Slots |->
            [next |-> 1, left |-> 0, ch |-> FindMidiChannel(band[who[s]])]]
       /\ bars' = IF \E s \in Slots : part[s] # <<>> THEN bars + 1 ELSE bars
       /\ moved' = (moved \/ (rounds > 0 /\ \E s \in Slots : who[s] # note_list[s].who))
  /\ rounds' = rounds + 1
  /\ slot' = 0 /\ i' = 0
  /\ phase' = "play"
  /\ UNCHANGED <<band, setupVars, tracks, data, atom, sounding>>

(* The countdown of a note that has just begun.  (Mutant: one too many.)     *)
CountdownWhole(note) == note.len

Countdown(note) == note.len - 1

(* What the slot will switch off: the new chord, and what a larger one      *)
(* before has left in the array.  (Mutant: only the first note of the chord *)
(* is turned.)                                                              *)
EndingFirst(s, chord, c) ==
  [k \in 1..MAX_CHORD_SIZE |->
     IF k <= Len(chord)
     THEN [kind |-> IF k = 1 THEN "up" ELSE "down", ch |-> c, note |-> chord[k]]
     ELSE data[s][k]]

Ending(s, chord, c) ==
  [k \in 1..MAX_CHORD_SIZE |->
     IF k <= Len(chord) THEN [kind |-> "up", ch |-> c, note |-> chord[k]] ELSE data[s][k]]

Starts(chord, c) ==
  {[kind |-> "down", ch |-> c, note |-> p] : p \in Range(chord) \ {REST}}

(* The slot's note has ended, and there is another one.                     *)
PlayNote ==
  /\ phase = "play" /\ slot \in Slots
  /\ LET p    == pointer[slot]
         part == note_list[slot].part
         note == part[p.next]
     IN /\ p.next \in 1..Len(part) /\ p.left = 0
        /\ sounding' = HeardInOrder(sounding, Range(data[slot]), Starts(note.chord, p.ch))
        /\ tracks' = Written(Range(data[slot]) \union Starts(note.chord, p.ch))
        /\ data' = [data EXCEPT ![slot] = Ending(slot, note.chord, p.ch)]
        /\ pointer' = [pointer EXCEPT ![slot].next = p.next + 1,
                                      ![slot].left = Countdown(note)]
  /\ slot' = slot + 1
  /\ UNCHANGED <<phase, band, setupVars, roundVars, i, atom>>

(* ... and there is none.  Its sound is not ended yet.                      *)
EndOfPart ==
  /\ phase = "play" /\ slot \in Slots
  /\ pointer[slot].next > Len(note_list[slot].part) /\ pointer[slot].left = 0
  /\ pointer' = [pointer EXCEPT ![slot].next = 0]
  /\ slot' = slot + 1
  /\ UNCHANGED <<phase, band, setupVars, tracks, data, roundVars, i, atom, sounding>>

CountDown ==
  /\ phase = "play" /\ slot \in Slots
  /\ pointer[slot].next # 0 /\ pointer[slot].left > 0
  /\ pointer' = [pointer EXCEPT ![slot].left = @ - 1]
  /\ slot' = slot + 1
  /\ UNCHANGED <<phase, band, setupVars, tracks, data, roundVars, i, atom, sounding>>

SkipSlot ==
  /\ phase = "play" /\ slot \in Slots /\ pointer[slot].next = 0
  /\ slot' = slot + 1
  /\ UNCHANGED <<phase, band, setupVars, tracks, data, roundVars, pointer, i, atom, sounding>>

(* All slots have been looked at: the next atom, or the end of the measure. *)
NextAtom ==
  /\ phase = "play" /\ slot = Len(band)
  /\ IF \E s \in Slots : pointer[s].next # 0
     THEN /\ atom' = atom + 1
          /\ IF i = Atoms
             THEN phase' = "wait" /\ UNCHANGED <<slot, i>>
             ELSE slot' = 0 /\ i' = i + 1 /\ UNCHANGED phase
     ELSE phase' = "wait" /\ UNCHANGED <<slot, i, atom>>
  /\ UNCHANGED <<band, setupVars, tracks, data, roundVars, pointer, sounding>>

(* smorza_incosa, at the exit: everything off, and the file is closed.      *)
SmorzaIncosa ==
  /\ phase = "wait"
  /\ LET events == UNION {Range(data[c]) : c \in Channel}
     IN /\ sounding' = Heard(sounding, events)
        /\ tracks' = Written(events)
  /\ phase' = "closed"
  /\ UNCHANGED <<band, setupVars, data, roundVars, pointer, slot, i, atom>>

Ended == phase = "closed" /\ UNCHANGED vars

Next ==
  \/ BindMusician \/ EndSetup
  \/ RecvRound
  \/ PlayNote \/ EndOfPart \/ CountDown \/ SkipSlot \/ NextAtom
  \/ SmorzaIncosa
  \/ Ended

Spec == Init /\ [][Next]_vars

-----------------------------------------------------------------------------
(* Properties.                                                              *)

(* Whatever chords and silences were played, in whatever slots, nothing     *)
(* sounds after smorza_incosa.                                              *)
AllQuiet == phase = "closed" => sounding = {}

(* The measures follow each other in time: one takes as many atoms as its   *)
(* parts last, neither more nor less (play_measure; the step limit cuts     *)
(* nothing).                                                                *)
InTime == phase \in {"wait", "closed"} => atom = Atoms * bars

(* Every event is in the file at its time: a reader that adds up the times  *)
(* of a track is where the player was (writeNote, variabilize_val).         *)
TrackTime ==
  \A c \in Channel : tracks[c].open => tracks[c].time = ATOM_LEN * tracks[c].last

(* The note a slot is playing.                                              *)
Playing(s) ==
  LET p == pointer[s]
  IN IF p.next > 1 THEN Range(note_list[s].part[p.next - 1].chord) \ {REST} ELSE {}

(* A note sounds for as long as it lasts, as long as the musicians have a   *)
(* class each and arrive in the order of the rounds before.                 *)
HeldNotes ==
  phase = "play" /\ ~moved /\ IsInjective(band) =>
    \A s \in Slots : \A p \in Playing(s) : <<pointer[s].ch, p>> \in sounding

(* A musician plays with the instrument of its class, and only drummers     *)
(* play on the drum channel.                                                *)
OwnTimbre ==
  phase = "play" =>
    \A s \in Slots :
      LET class == band[note_list[s].who]
          c     == pointer[s].ch
      IN program[c] = class /\ (c = MIDI_DRUM_CHANNEL - 1 <=> class = INSTRUMENT_DRUM)

(* Everything that is heard is in the file too, except a grand piano's      *)
(* notes: its class is that of a channel that nobody is bound to, and those *)
(* it is found on have no track (findMidiChannel, writeNote).               *)
FileComplete ==
  \A s \in sounding : tracks[s[1]].open \/ (s[1] = 0 /\ 0 \in Range(band))
==============================================================================
