# IMprovEEsation in TLA+

IMprovEEsation is an ensemble of programs that improvise music: one *director*
decides what is to be played, measure by measure; any number of *musicians*
compose their parts; one *player* turns the parts into MIDI. The programs are
single-threaded and talk over TCP. This directory holds a TLA+ model of the
system as the source under `src/` has it, the TLC configurations that check it
on small instances, and proofs for TLAPS.

Paths below are relative to `src/`; `communication.cpp`, `director_main.cpp`
and so on are in `core/`.

## 1. The system

| Component | Code | State it keeps | Operations |
|---|---|---|---|
| Registration | `director_main.cpp` 107-123, 221-266; `player_main.cpp` 241-283; `musician_main.cpp` 265-289; `communication.cpp` 93-122, 325-335, 507-587 | accept queues, list of registrations with ids, number of musicians | `recv_player`, `recv_subscription`, `send_subscription`, `calculateID`, `send_id`, `send_num_of_musicians`, `recv_num_of_musicians` |
| Director's loop | `director_main.cpp` 147-163, 287-342 | loop counters, `stored_impro`, the lists `musicians` and `genetics` | `broadcast_measure`, `sync_all`, the end of the rehearsal, `secondLoop`, `cleanup` |
| Musician's loops | `musician_main.cpp` 310-411 | its own measure counter, the measure received | `recv_measure`, `send_to_play`, `send_sync_ack`, `store_gmeasure`, `genetic_loop` |
| Player's reception | `player_main.cpp` 296-332; `communication.cpp` 338-486 | epoll set, `note_list` | `recv_to_play`, the catch of the end of the improvisation |
| Director's mind | `director_core.cpp` | patterns, current section, soloists | `decide_next_measure` and what it calls |
| Composition | `musician_core.cpp` 184-400, `musician_improviser.cpp`, the queries of `db.cpp` | the notes of the measure and of the one before, the octave | `compose_measure`, `get_quarters`, `get_semiquavers`, `compose_quarter`, `continue_last_note`, `decide_*` |
| Genetic piece | `musician_genetic.cpp`, `musician_core.cpp` 402-553 | `ginitial`, `ggoal`, `finalist` | `store_gmeasure`, `piece_to_list`, `split_note`, `compose_measure_genetic` |
| Evolution | `musician_evolution.cpp` | the pool of pieces and their similarities | `genetic_loop`, `transrecombine`, `change_random_note`, `compute_similarity`, `mergesort_pool`, `merge_pool` |
| Sound | `player_core.cpp`, `midi_writer.cpp` | channels, notes to switch off, the tracks | `midi_init`, `play_measure`, `writeNote`, `closeFile` |
| Helpers, configuration, database, text interface, tools | `utils.cpp`, `configuration.cpp`, `db.cpp`, `tui.cpp`, `tools/` | none that outlives a call | |

How the parts interact. A musician connects to the director and the player; the
player connects to the director. After the registration the director and the
player exchange nothing any more. For each measure the director writes the
measure to every musician of a list and then waits for one byte from each
(`sync_all`); a musician reads the measure, composes, writes its part to the
player and then the byte to the director. The player reads one part from each
musician (`recv_to_play`), plays the round and starts again. When a musician
was started with `-g` the piece is decided in a *rehearsal* with the genetic
musicians only; a measure with `bpm = MEASURE_BPM_EOI` makes them evolve what
they composed, and the stored measures are then broadcast again, to all: the
*concert*. The end is told by closing connections: whoever reads the end of a
connection throws `end_of_improvisation_exception`, which the loops catch. Any
other failure throws `network_exception`, which nobody catches.

What is hard here. Director, musicians and player advance at their own speed
and no message carries enough to tell measures apart on arrival; failures are
told by closed connections only, to processes that may be blocked in a read of
another one; some failures (an interrupted `epoll_wait`, a full non-blocking
socket, a descriptor leak) take paths no test walks; and the rehearsal can be
cut short in the middle. `PROJECT.json` lists the hazards with their lines.

What makes each component correct:

* Registration: both ends of the ensemble have the same band under the same
  ids; ids tell musicians apart and carry the instrument class; everybody
  arrives or learns that it cannot, but for a few who are left waiting and are
  known (`Waiting`, below).
* Improvisation: nobody is a measure ahead of the others (the barrier); a round
  of the player is complete and of one measure; the concert starts only when it
  has been prepared; nothing that was written completely is lost; when one
  process fails all stop.
* Director's mind: the soloist is always a registered one; sections begin where
  the pattern says; chords come from the scales.
* Composition and genetic piece: every measure is exactly as long as the
  measure asked for; held notes are held, also over the bar; the quarter that is
  played is the one that fits best; pitches are on the keyboard.
* Evolution: pieces are kept apart although pointers are moved and notes are
  copied; the pool is ranked when it is recombined; recombination does not touch
  the best (`change_random_note` may).
* Sound: all parts of a round last equally long, each note that is switched on
  is switched off, each class sounds on its own channel, the file's lengths and
  counts are right.

## 2. Plan

In this order, all of it done:

1. `Improvisation` with `Concert`, `ImprovisationInvariants`,
   `ImprovisationProofs`, `ConcertProofs`.
2. `Registration` and `RegistrationProofs`. It ends where `Improvisation` begins.
3. `GeneticPiece` and `GeneticPieceProofs`: the list that `piece_to_list` and
   `split_note` build and `compose_measure_genetic` cuts.
4. `Sound` and `SoundProofs`: `play_measure` as a sequence of atoms over
   channels, with `initFile` and `writeNote`; notes left on, channel
   assignment, equal length; `variabilize_val` against a reference decoding.
   The headers `closeFile` patches are left out.
5. `Composer` and `ComposerProofs`: the search for a quarter and the walk
   through its semiquavers; measures are full; the size that is sent.
6. `DirectorMind` with `Harmony` and `DirectorMindProofs`: sections, soloists,
   chords and scales.
7. `GenePool` with `Fitness`, and `GenePoolProofs`: the pool of the evolution,
   its mergesort and its recombination.

Runs: one passing run per module at least, and one for each disagreement with a
document. What could still be added: the headers of the MIDI file, and a weaker
hypothesis than twelve measures for `SoloBySection` and `LeaderFrames`. All
safety properties of the passing runs are proved; section 5 ends with what is not.

## 3. The modules

### Concert.tla

The promise: `bar`, `written`, `heard`. Each musician writes each bar once,
`NextBar` when all have, `Hear` a bar that all have written. No processes.

### Improvisation.tla

One module for the three programs after the registration, because every
property is about what they do together. Each connection is a pair of
queues: `toMus[m]` (measures), `acks[m]` (acknowledgement bytes; they are all
alike, so a count), `toPlayer[m]` (parts).

| Variables | In the code |
|---|---|
| `dpc`, `phase`, `round`, `pending`, `stored` | where `main` of the director is, which loop, its `i`, what remains of the list being written to or waited for, the filled prefix of `stored_impro` |
| `mpc`, `stage`, `mi`, `nm` | where `main` of a musician is, which of its two loops, `i`, `nm` |
| `ppc`, `waiting`, `pm_count`, `note_list`, `played`, `leaked`, `server_mode` | where the player is, the epoll set, the locals of `recv_to_play`, rounds played, lost epoll descriptors, `-g` |
| `status`, `stopped` | a process is up, has returned, or was aborted; it has been stopped and continued |

The actions follow the code's calls: `DecideMeasure`, `BroadcastMeasure(m)` (one
destination after the other, in list order), `SyncAck(m)`, `EndOfPass`;
`RecvMeasure`, `SendToPlay` or `StoreGmeasure`, `SendSyncAck`, `GeneticLoop`,
`AckReady`; `RecvToPlay(m)`, `PlayMeasure`. Each failure path is an action of its own:
`BroadcastSigpipe`, `SyncEoi`, `SyncReset`, `SyncInterrupted`, `RecvEoi`,
`RecvReset`, `SendToPlayFails`, `AckSigpipe`, `PlayerEoi`, `GatherInterrupted`.
`Fail(p)` kills a process anywhere.

Two facts about the platform are used. A write to a closed connection may
succeed or raise SIGPIPE, which is not handled. A process that is stopped and
continued while it sleeps in `epoll_wait` gets -1 (EINTR) from it.

Abstractions. Musicians are numbered by their place in the director's list, so
genetic ones come last, as `concat_list_inplace` puts them. A measure carries
its bpm (0 or not) and the number of the decision it is; a part carries its
author, its `id` and the decision it was written for. The contents are the
business of other modules. A measure or part is written in one step although the
code uses several writes, and a full socket buffer refuses a part as a whole;
what a part written halfway does to the stream is not modelled.

### Registration.tla

From the start of the programs to the state in which `Improvisation` begins.
`dirQueue` and `playQueue` are the two accept queues: a connection is in the queue when
`connect` returned, and accepting it blocks until the subscription is there.
A musician is registered in steps: `RecvSubscription`, one `VisitRegistration`
for each turn of the loop of `calculateID` (which looks at every other
registration), `SendId`, or `SendIdFails` if it is gone by then. The processes
are started in any order. One that connects before the other end listens leaves,
as `main` does; and a musician that reaches the director before the player does is
taken for the player, with the consequences the code gives that: it is not
answered and its connection stays open, the player is registered as a musician,
and the number of musicians is written to the descriptor -1, which ends the director.

Not every wait of the registration is ended by an answer or a closed
connection. `Waiting` names those that are not, and `Settled` says that there are
no others: as long as the director waits for a connection that will not
come (its process was killed or refused before it connected), it waits, and with it the player, the
musicians that have an id, and the one it took for the player; and when the
director ends before the number is sent, the player reads the end of the
connection as the number 0 and goes on without a band, and the musicians that
have an id wait for its answer.

### GeneticPiece.tla

One genetic musician from its rehearsal to the end of the concert, in durations
only: `StoreGmeasure` (and the two ways `store_gmeasure` ends early),
`GeneticLoop`, `AddNote` and `SplitNote` (one turn of the loop of
`piece_to_list` and of `split_note`), `TakeNote` (one turn of the loop of
`compose_measure_genetic`). `ginitial` and `ggoal` are the number of notes
stored and the room for them; `finalist` is the list. An entry of the list has
a field `at`, which the code does not have: the place in the measure at which
it begins, for the invariants. `genetic_loop` is one step that makes any piece
with as many notes as the goal: after the rounds each duration may be anything
`change_random_note` can make of it (an unsigned byte modulo `MAX_TEMPO`, plus
one), and the similarity that chooses among the pieces says nothing about
lengths. Time signatures are 4/4, which is all the director sets; with that
`Q` is the same for `piece_to_list`, which has the number 16 in its text, and
`compose_measure_genetic`, which computes it. For `SameMusic`, `Begins` gives the
places at which the notes of a sequence of durations begin, and `BeginningsPlayed`
those of the measures sent, continuations not counted.

### Sound.tla

What the player does with a round, and the file it writes.

| Variables | In the code |
|---|---|
| `band` | the musicians in the player's list, by class |
| `bound`, `chcounter`, `Channels`, `program`, `tracks` | the musicians `midi_init` has passed to `initFile`; its static counter; the class of each channel; the instrument the device has there; the tracks of the file |
| `note_list`, `pointer`, `slot`, `i`, `atom`, `data` | the round, in order of arrival; `note_pointer`; the locals of `play_measure`; `atom_counter`; for each slot the events that will end its last notes |
| `sounding` | what the device has been told to sound |

`BindMusician` is one call of `initFile`, `EndSetup` the end of `midi_init`.
`RecvRound` gives the slots to the musicians in any order, with any parts, and
does the beginning of `play_measure`. The turn of its inner loop for one slot
is one of `PlayNote`, `EndOfPart`, `CountDown` and `SkipSlot`; `NextAtom` is the
end of a turn of the outer one. `SmorzaIncosa` is the exit.

A track keeps the atom of its last event, as the code does (`last`), and the
time a reader of the file has computed for that event (`time`), which is the
sum of what `Variabilize` wrote, decoded. `Decode` is the definition of the
file format, not code. `ByteSize` copies the number to a signed `int` as `byte_size`
does, so that one above `INT_MAX` counts as one byte. `Timed` is what the player
relies on and the musicians give it (`Composer`'s `Filled`, `GeneticPiece`'s
`WellCut`): the notes of a part that is not empty last a measure together. `moved` and `bars` are history variables: whether some slot
has changed hands, and the rounds with some music in them. A round of empty parts
takes no time in the code, and `bars` does not count it. Velocities, the bytes
of the headers and the built-in test tune are left out.

### Harmony.tla and DirectorMind.tla

`Harmony` has the functions of `director_core.cpp` that depend on a pattern and
a place in it: what chords a measure may get (`PatternChords`, `Substitutes`),
which tonal centres (`Centres`, the notes that occur most in some window around
the measure), which scales (`MatchingScales`, `TonalZones`). A mask of
twelve bits is the set of its pitches, so `rotateMask` adds to each pitch and
`&` is the intersection. Where the code calls `rand()` the operator is the set
of the outcomes.

`DirectorMind` is the state around them.

| Variables | In the code |
|---|---|
| `piece` | what the director is started with: the arguments, the configuration, the registered soloists and the rows of the database |
| `genre`, `subgenre`, `prev_mood`, `tonality` | the globals of those names; the pattern and the scales loaded are functions of the first two |
| `soloers`, `soloer` | the schedule `setupSoloers` makes, and `soloer` |
| `current_measure_num`, `decided` | the counters of `main`: the place in the section, and `i` |
| `measure` | the measure decided last, with its chords and tonal zones (`of` is the measure of the pattern, for the properties) |
| `running` | the director has not dereferenced a missing pattern |

Each step is one call of `decide_next_measure` with the counting of `main` after it:
`SameGenre`, `PickSubgenre` or `PickGenre`. `PickMissingPattern` is what
happens when the genre and subgenre drawn have no pattern (`pickGenre` does not
change the subgenre): the director crashes in `decideChord`. A draw with a
percentage (`Draw`) may be true, false or either. The schedule
is a function from 0, like the array; entries are decremented with the width of
an `unsigned int` (`UINT`).

Left out: the texts of the tags, the priorities of the arguments, which are
copied; bpm and tempo, which never change; the variants of a pattern, which are
loaded and not used; and that the loops of `pickGenre` and `pickSubgenre` never
end when there is nothing else to pick (there is no such step then).

### Composer.tla

One musician that composes one measure after the other, each anything out of
`Measures`.

| Variables | In the code |
|---|---|
| `mfields`, `prev_octave` | the musician's fields as the database has them (the octaves also as the user gave them); the static variable of `decide_octave` |
| `nm`, `q`, `ignored` | the measure asked for, the index of the quarter, `i` of the loop of `compose_measure` that gives up arguments |
| `quarter`, `s`, `i` | the quarter it took, the semiquaver `compose_quarter` comes to, the position |
| `measure`, `unchanged_fst`, `size`, `last` | `pm`: its notes, whether the first is a continuation, its size, its last chord |
| `prev` | `prev_pm` |

`TryQuarters` is one query: the arguments not yet given up select quarters
(`GetQuarters`), one of which is taken at random (`random() % n`). Then each
semiquaver is a step: `BeginNote`, `LengthenNote`, `HoldOver` (the last chord of
the measure before is continued) or, where `continue_last_note` reads the note
of index -1 of a measure whose size was never set, `HoldOverCrashes`. The
queries of `db.cpp` are modelled by what they select: a quarter is a list of
semiquavers and, for each argument, the values that select it. A probability
is only 0, 1 or neither. Velocities are drawn and copied and left out; of a
chord only the pitches are kept, of all chords only the last, because no other
is read again. `at`, the place at which a note begins, is not in the code; it is
there for the invariants.

### GenePool.tla and Fitness.tla

`genetic_loop`. A piece of the pool (`genetic_pool`) is a pointer into `heap`
and a count, so that it shows when notes are copied (`Recombine`) and when
pointers are moved (`WriteBack`). `ChangeNote` is one turn of
`change_random_note` for the piece at `j` with, after the last, `compute_similarity`.
The mergesort is a stack of calls (`calls`): `MergesortPool` divides,
`BeginMerge`, `TakeLow`, `TakeHigh` and `WriteBack` are `merge_pool`.

`Fitness` is `compute_similarity` with doubles as hundredths, rounded down.
`1 / sqrt(1 + d^2)` is the set of the hundredths it has (`Closeness`), and a sum
of such values is the size of a union, which needs no recursion.
`NaN` is the 0/0 a goal of one note gives, and a comparison with it is
false, as `TakeLow` and `TakeHigh` have it. `Similarity` is a constant of
`GenePool`, which the run gives the value `ComputeSimilarity`; the proofs hold
for any. What `GenePool` promises `GeneticPiece` (as many notes as the goal, durations from 1 to
`MAX_TEMPO` wherever they were changed) is what `GeneticPiece` takes as one step.

### MCImprovisation.tla, MCRegistration.tla, MCSound.tla, MCDirectorMind.tla, MCComposer.tla, MCGenePool.tla

Constants for the runs.

## 4. The runs

| Run | Instance | What it shows |
|---|---|---|
| `Perform` | 3 musicians, 2 genetic, 2 measures, nothing fails | everything is played and everybody leaves (`FullPerformance`); the refinement with fairness (`ImplementsFairConcert`) |
| `Faults` | 2 genetic musicians, 2 measures, sockets of one part, anybody dies, the director may be stopped | `IInv` (hence everything it implies), `RoundComplete`, `ConcertPrepared`, `NoLostPart`, the refinement `ImplementsConcert` |
| `Suspended` | 2 musicians, one genetic, anybody dies, director and player may be stopped | `Barrier` holds also then; all processes stop in the end (`AllStop`) |
| `Registration` | 3 musicians of one class, two coupled; director, player and a coupled musician may be killed, started in any order | `SameBand`, `IdCarriesClass`; `Registered`: all get to the main loop unless one is killed, refused or taken for the player; `Settled`: in the end all are in the main loop or have left, but for those `Waiting` names |
| `RegistrationIds` | 3 musicians of one class | violated: `UniqueIds` |
| `GeneticPiece` | measures of 4 semiquavers, 2 of them, room for 4 notes at first | `NotesFit`: one doubling is always enough; `WellCut`: no entry of the list is refused; `SameMusic`: notes begin in the concert exactly where they begin in the evolved piece |
| `Sound` | two musicians (two classes, one class twice, or one drummer), any order of arrival, three rounds | `AllQuiet`, `InTime`, `TrackTime`; `HeldNotes`: notes sound as long as they last, if each musician has a class of its own and keeps its slot; `OwnTimbre`: each class sounds on its own channel; `FileComplete`: what sounds is in the file |
| `DirectorMind` | five pieces, see below | `ScheduleLasts`, `InPattern`; `SoloBySection`: the soloist changes at the beginning of a section; `LeaderFrames`: the leader begins and ends; `ScaleFits`: scales cover the chords of the pattern |
| `SoloistLost` | the twelve measures of a director without arguments | violated: `LeaderImproves`; nobody ever improvises |
| `Composer` | eight musicians, four measures, five quarters in the database | `Filled`: the notes of a measure follow one another and fill it; `RhythmKept`: they begin where the database says; `BestMatch`: no more arguments are given up than needed; `PitchInRange`; `SizeKnown`: the only measures that lose their size are those with a note at each semiquaver; `Composed`: every measure is composed or refused |
| `Misheard` | the same | violated: `AskedIsTaken`; genre and dynamics are swapped in the query |
| `GenePool` | a pool of sixteen, three rounds, pieces of one to five notes | `IInv` (hence `OwnArrays`); `Ranked`: the pool that is recombined, and the last one, are in the order of true similarities; `GoalIsBest`: nothing is as similar to the goal as the goal; `Heredity`: recombination writes two of the worst quarter only |

Bounds. Two measures are the smallest number in which a musician can be behind
in one and ahead in the next, and in which the rehearsal can be cut short after
a complete measure; three musicians with two genetic ones (`Perform`) have both
kinds, a list of two to concatenate and a strict order in the broadcast. With
faults two musicians are enough for one to die while the other is in any
state. `Buffer = 1` makes the socket fill, `Buffer = 2` lets the director run
ahead of the player by the whole piece. `FdLimit = 2` lets a player with `-g`
retry once and then fail. Three musicians are needed for a duplicate id.
For the genetic piece, measures of four semiquavers give all the ways in which
notes and bar lines can meet (before, on and over the line, and a continuation
as long as a measure less one), and with up to six notes a piece can be shorter and
longer than the concert.
For the sound, three atoms are enough for a note to begin, be counted down
and end in the middle and at the end of a measure; three rounds let a slot
change hands twice, with a silence or an empty part between; chords of up to
two leave a note of a larger one in the array. Five channels, the third of which
is the drums', make the counter jump.
The pieces of the director's mind are the blues of `db.sql` with the
configuration of `example_.improveesation.rc` (41 measures: three sections
and a part of a fourth, all three patterns, a genre without patterns); one of
ten sections of two measures, because sections without a soloist occur
from ten on; patterns of unequal length; a short piece and one without soloists.
Two beats tell apart a measure's chords and both halves of a cadence. One
tonality is enough as pitches are only compared after adding it, with 9 the
sums go over the octave. `UINT = 256` is larger than any piece, so that only 0
wraps. Of the random chords two are allowed, one that a scale covers and one
that none does.
For the composition, quarters of two semiquavers give all that matters at a
semiquaver (before it, at it, after the last one), two quarters a bar with
something in front and behind, and any sequence of measures lets a note be held
over several bar lines. The five quarters differ in what they accept, so that
for each measure one, several or none is found after zero, some or all arguments
are given up; the musicians are one with single notes, one with chords, a
bass with priorities of its own, a drummer, and four with octaves the database
does not have: above the keyboard, so high that the pitches of a chord begin
again at 0 in their byte, with the lowest above the highest, and negative.
For the evolution, sixteen pieces are the smallest pool with two pairs in the
quarter that is recombined (with eight there is one) and three
rounds have two recombinations. Only two pieces at the top and the last one at
the bottom have a choice of changes: what matters is which of the pool's ends
they arrive at. Pieces of one note have a similarity that is not a number.
`Deadlock` is checked in every run: the end is a self-loop (`Ended`), so a state in which
nobody can move and somebody is still up would be reported.

Fairness. Weak fairness of each process: the kernel schedules runnable
processes, every read that has data or an end of file returns, every loop
terminates. Nothing is assumed of faults, of the user, or of which connection
`epoll_wait` reports first. `genetic_loop` and `compose_measure` are assumed to
return; for `compose_measure` the run `Composer` shows it, from weak fairness of
its own steps, which are those of one thread that waits for nobody.

## 5. The proofs

`ImprovisationProofs.tla` proves, for any number of musicians, any set of
genetic ones at the end of the list, any number of measures, any buffer, any
set of processes that fail:

* `TypeCorrect`: `Spec => []TypeOK`,
* `Invariance`: `Spec => []IInv`,
* `BarrierHolds`, `RoundsHold`, `ConcertIsPrepared`, `NothingLost`: the safety
  properties of the runs, from `IInv` (`RoundComplete` says of a round that it
  has one part of each musician, and that all are of the bar that is due),

and `ConcertProofs.tla` proves `Implementation`: when the player is not in
`Suspendable`, `Spec => ImplementsConcert`. The only assumptions are
`ImprovisationAssumption` and, there, that one.

`IInv` (in `ImprovisationInvariants.tla`) is needed because none of the
properties is inductive. `Barrier` is about the moment of a decision; to keep it one
must know at every moment what is on every connection. That is `Tokens`: between
the write of a measure and the reading of its acknowledgement exactly one thing
stands for a musician's turn, the measure on the connection, the musician at
work, or the byte on the way back, and only for the musicians in `pending`
during the synchronisation (`Owes`), unless the musician is dead (`Mourning`).
`Learning`, `Evolving`, `Stored` and `InConcert` say, phase by phase, where a
musician's counters are. `Gathering` does the same for the player: what it took
of a musician (`Taken`), what is queued (`Queues`) and what is in the slots
(`Slots`) are consecutive bars with no gap, unless parts were dropped by an
interrupted round. `Leaving` says how far a player that left had played.
`Faults` checks `IInv` with TLC.

The refinement maps `bar` to the director's round, `written[m]` to the bars `m`
has written to the player, and `heard` to the rounds played. `StepSimulation` shows
that each step of `Next` is a step of `ConcertNext` or leaves the three alone.

`GeneticPieceProofs.tla` proves `TypeCorrect`, `RoomHolds` and `NeverRefused`
for any length of measure, any number of bars and any samples of at most a
measure, from `PieceAssumption`. The inductive invariant `IInv` adds to the
properties how the list is linked: each entry begins where the one before ends
(`Chained`, lemma `ChainGrows`), the count of `piece_to_list` is where the next
one will begin (`LastEntry`), the length of the measure being composed is where
the entry to come begins (`InStep`), and the arrays never shrink (`RoomInv`,
lemma `RoomSuffices`). `SameMusicHolds` proves `SameMusic` from `IInv` and
`MusicInv`: the list is as long as the notes taken from the piece and its entries,
save continuations, begin where those notes do (`Written`); the measure being composed is the
entries before the one to come, back to the bar line (`Gathered`); the measures
sent hold the beginnings of the list up to that bar line (`Sent`). `IInv` has
the places inside a measure only, so the proof goes over sums of durations:
they exist for any sequence (`SumsExist`), are determined by their steps
(`SameSteps`) and grow (`OnsetsGrow`). These lemmas go by the least counterexample
(`UpTo`), from the library's fact that the naturals are well-founded.

`SoundProofs.tla` proves `QuietAtTheEnd`, that nothing sounds after
`smorza_incosa`, for any bands, parts, chords and number of rounds. The
invariant (`QuietInv`, theorem `AlwaysPending`) is that each note that sounds is
in the array of some slot (`Pending`), and that the arrays hold only events that
end a note (`DataUp`). It needs both: the array of a slot keeps notes of larger
chords of the past, and a slot may hold notes of a musician that is elsewhere
by now. `TimbreHolds` and `FileHasAll` prove `OwnTimbre` and `FileComplete` with
what `midi_init` leaves (`BindInv`): the channels given to musicians that are no
drummers are as many as these, one more if the drums' channel was passed, which
is why the early return of `initFile` at the drums' channel is never taken and no
channel is given twice; the first channel and those not given have the class 0,
so that a grand piano finds the first one. `PlayInv` adds that the slots of a
round keep the channels `findMidiChannel` found for their musicians. `SoundTypes`
proves the types.

`InTimeHolds` proves `InTime`. Its invariant `TimeInv` says of each slot where in
its part it is (`Due`, `OnTime`): the next note begins at the step at which the loop
next comes to the slot, and the countdown more. An empty part is over at once, so that the atoms of a round are those of a measure
only if some part is not empty (`Heavy`).

`HeldNotesHolds` proves `HeldNotes` if 0 is no pitch. The arrays of the slots
begin zeroed, and a chord of one note leaves the other zeros where they are, on
a channel that is another slot's: with a pitch 0, a held note 0 of one slot is ended by the
next note of another (TLC finds it in seven states). The keyboards' notes begin
at `MIDI_FIRST_NOTE` (`PitchInRange`); the evolution, which is modulo 128, could
make a 0. Else the old notes of a slot are on the channel of its musician as long as
the musicians keep their slots (`OldNotes`), which have different channels if the classes
differ.

`TrackTimeHolds` proves `TrackTime` if the time of the whole run, 80 for each
atom, is at most `INT_MAX`: with the 48 atoms of a measure, for some 559 000 measures.
Above it, `byte_size` would take the time since an event for one byte. It rests on
`DecodeVariabilize`, which says that every number up to `INT_MAX` is read back as
what it was, for each of the lengths it may have.

`DirectorMindProofs.tla` proves `ScheduleSuffices`, that `decide_next_measure`
never leaves the array of the soloists, for any database, pieces and draws.
The invariant (`ScheduleInv`) is that the measures left in the last turn and those decided are always the
piece together, or more, so that the last turn cannot be over before the piece
is (`LastTurn` gives the last turn of a long piece all measures, more than it
needs; in a short piece its measures are what the first two turns leave). `IndexesInPattern` proves that all
indexes into the pattern are inside it if every pattern has
twelve measures (`TwelveBars`), as the constant 12 in `decideImproScale`
expects; the patterns of `db.sql` have. The rest of the module proves the other
properties under the same assumption. `LeaderBeginsAndEnds` and `SoloistBySection`
need to know, for each of the three kinds of schedule, what is left of the present
turn when so many measures are decided (`SoloInv`): in a long piece the turns end
at multiples of twelve; in a short one the second turn begins at zero, wraps below it
and lasts to the end. `ScalesFitChords` (for two beats or more) rests on a lemma about
`MatchingScales` and on the chord that stands for a measure being the
chord of the pattern at the beats it is compared at (`ZonesFit`). `MindTypes`
proves the types, by lemmas on each operator of `Harmony`.

`RegistrationProofs.tla` proves `RegistrationTypes`, `IdsCarryClass` and
`BandIsTheSame`, from `RegistrationAssumption`, for any number of musicians,
started in any order. For the class in the id the invariant is `Numbered`: every
id is a serial number and the class, and the serial number grows half as fast as
the index of the loop (which is why it never goes over the number of musicians).
For the band one must know that nobody is registered twice: a process is in
the director's queue, the newcomer, or registered, and in one of these once
(`DirectorSide`), the same for the player's queue and band (`PlayerSide`), and
`Stages` says how long the lists are where the programs are. Both lists then have
`N` different entries (`Counted`) and the one is a part of the other.

`ComposerProofs.tla` proves, from `ComposerAssumption`, for any database,
measures and musicians, `ComposerTypes` and the safety properties of the run:
`MeasureIsFilled`, `RhythmIsKept`, `QuarterIsBestMatch`, `PitchIsInRange` and
`SizeIsKnown`, and `OctaveRemains`: an octave once decided is never -1, "not decided",
again (`OctaveStays`), for any octaves that are not negative. The assumption
leaves the octaves to the user as `musician_init` does, which refuses only those
that are more than 8 apart; `PitchInRange` is of octaves from 0 to 7, which are
those of the database. The invariant adds to the properties where in the measure the musician is
(`Position`), how many notes there can be by then (`Counted`), that the chord of the
measure before could be played too (`Voice`, because it may be held over), that the semiquavers passed are those before the position
(`Passed`), and that the arguments given up so far select nothing (`Searched`).

`GenePoolProofs.tla` proves `PoolInvariance`, `PiecesAreSeparate` and
`HeredityHolds` from `PoolAssumption`, for any similarity. That the pieces keep an array
each (`OwnArrays`) depends on the merge writing each place of its range back
once: `Merging` says that the sandbox holds different places of
the two halves and as many as were passed, `InRange` that the ranges are ranges of the
pool. `Heredity` needs `OwnArrays`, or a copy could change a third piece, and
`Staged`, or the pairs could meet in the middle of the pool.

`RankedHolds` proves `Ranked` for any similarity that is a number when the goal
has more than one note (`Comparable`). A merge sorts only what was sorted before,
so the invariant `RankInv` speaks of all calls on the stack: a call is of a part of a
half that a call below it merges, or of places they do not share (`Nested`); a half
to be merged is in order already or a call for it is still on the stack
(`Halves`); and while a merge goes on the sandbox is in order and not above what
is left of both halves (`Drawn`). `SimKept` and `Kept` say that a piece and its similarity move
together. `GoalIsBestHolds` proves `GoalIsBest` for the similarity of the code
(`OfTheCode`, which is what the run gives the constant), by `SimilarityPeak`:
`compute_similarity` is highest for the goal and for nothing else, for all goals
of more than one note. The maps' part of the sum alone does not tell pieces
apart; the comparison note by note (`InPlace`) does.

Only model-checked: what is said under fairness, `FullPerformance`,
`ImplementsFairConcert`, `AllStop`, `Registered`, `Settled` and `Composed`, because
the prover handles neither liveness under fairness nor ENABLED. The safety part
of the refinement, `ImplementsConcert`, is proved; and the three violated
properties are of course no theorems.

## 6. Not modelled

`configuration.cpp` runs once before anything else; the functions of `db.cpp`
that `Composer` does not have are queries whose results the other parts take as
they come; `tui.cpp` only shows things; `tools/`, `db.sql` and
`db_library_test.cpp` are not part of the running system. `--test` of the player
(a built-in tune without a network) is left out, as are velocities, triplets and
allocations that fail. Triplets are set in the goal by the sample file
(`utils.cpp:234`), and `compute_similarity` takes a duration for the goal's only
if its triplet is too; in `Fitness` all notes are alike in this.
`decide_velocity` divides by zero when both velocities of a semiquaver are
equal, which `Composer` does not have either. Octaves so large that their
pitches overflow an `int` are not considered.

Seen while modelling, in the models as it is in the code, and not the subject of
a run of their own: the player is no part of the barrier, although
`Report/core/communication.tex:32` says so (`director_main.cpp:299`); a
player that loses the director before the number of musicians takes it for 0
(`communication.cpp:328`), and a musician that is taken for the player waits
(`communication.cpp:551`), although `Documentation/PROTOCOL.md:92` says that all
functions of the protocol throw when the connection is closed and
`player_main.cpp:253` that the number of musicians is waited for; `checkCadenza` refuses the modes of a cadence and
accepts others (`director_core.cpp:272`); a scale chosen because no scale fits is sent
rotated (260), others are not; `rand() % 1` (318) never takes the first of its two
chords; the steps of the blues rule (234) are not brought back into the octave.
In the player's reception the address of `epoll_wait` is tested and not its result
(`communication.cpp:380`), so that a player that is stopped and continued plays a
round with old parts; `Report/core/components.tex:42` has it wait for all
musicians (`RoundComplete` speaks of rounds that were not interrupted, and
`Suspended` does not check it). `compose_measure_genetic` looks at the next
entry of its list without a test for its end (`musician_core.cpp:517`), and an
evolved piece may be shorter than the concert, although a comment of the evolution
wants the length kept (`musician_evolution.cpp:263`). Class 0 is found on channel 0,
which may not have been given out, and its notes are then in no track
(`player_core.cpp:55`; `FileComplete` excepts them). The header of
the file announces a track for each musician and one more (`midi_writer.cpp:272`), but
two drummers share one, and the second replaces the track of the first. A pitch that
becomes negative is taken modulo 128 as a negative number and stored in a byte, 245
to 255, where `musician_evolution.h:36` has 128 as the highest
(`musician_evolution.cpp:276`). `continue_last_note`, `decide_chord` and
`change_random_note` end without the `return` of the value they promise. A measure in 3/4 refuses quarters of four semiquavers, because their
number is compared with that of the quarters (`musician_core.cpp:372`). The
probabilities of a semiquaver may add up to less than 1, and the draw may then
run past the array (`musician_improviser.cpp:48`). A drummer may choose up to
thirteen notes for an array of eight (`musician_improviser.cpp:209`).
