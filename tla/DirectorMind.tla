--------------------------- MODULE DirectorMind ---------------------------
(***************************************************************************)
(* The mind of the director (director_core.cpp) from init_director_core to  *)
(* the last decide_next_measure, with the counters of main that call it:    *)
(* in which genre, over which chords and scales, and with which soloist     *)
(* each measure is.                                                         *)
(*                                                                          *)
(* The patterns come from the database, the thresholds from the             *)
(* configuration.  The texts of the tags and the priorities of the          *)
(* arguments, which are copied, are left out; so are bpm and tempo, which   *)
(* never change.                                                            *)
(***************************************************************************)
EXTENDS Harmony

CONSTANTS
  Pieces,      \* what the director may be asked for, by name
  Tonalities,  \* the tonalities init_score_defs may draw
  UINT         \* numbers of an unsigned int: 2^32

SOLOER_NONE == 0

NOT_SOLO_MAX_SECTIONS == 5

(* A piece: the database (a pattern for each subgenre of each genre, with   *)
(* no measures if there is no row, and the scales of the genre), the        *)
(* configuration, the ids of the registered soloists, the measures to       *)
(* decide, and the genre and subgenre to begin with.                        *)
Patterns(db) == UNION {Range(db[g].patterns) : g \in DOMAIN db}

IsDatabase(db) ==
  \A g \in DOMAIN db :
    /\ \A s \in DOMAIN db[g].patterns :
         /\ db[g].patterns[s].measures \in Seq(MeasurePattern)
         /\ db[g].patterns[s].moods \in Nat \ {0}
    /\ db[g].scales # {} /\ db[g].scales \subseteq SUBSET Pitch

ASSUME MindAssumption ==
  /\ Tonalities # {} /\ Tonalities \subseteq Pitch
  /\ UINT \in Nat \ {0}
  /\ \A p \in Range(Pieces) :
       /\ IsDatabase(p.db)
       /\ p.genre \in DOMAIN p.db /\ p.subgenre \in DOMAIN p.db[p.genre].patterns
       /\ p.db[p.genre].patterns[p.subgenre].measures # <<>>
       /\ p.measures_count \in Nat /\ p.measures_count < UINT
       /\ p.sololist \in Seq(Nat)

VARIABLES
  piece,                \* the name of what is asked for, constant
  running,              \* the director has not crashed
  genre, subgenre,      \* the pattern that has been loaded
  tonality,
  prev_mood,            \* the index of a mood of the pattern
  soloers, soloer,      \* the schedule of the soloists and the place in it
  current_measure_num,  \* main: the place in the pattern
  decided,              \* main: i, measures decided so far
  measure               \* the last measure decided

vars == <<piece, running, genre, subgenre, tonality, prev_mood, soloers, soloer,
          current_measure_num, decided, measure>>

asked == Pieces[piece]

Pattern(g, s) == asked.db[g].patterns[s]

current_pattern == Pattern(genre, subgenre)

SectionLength == Len(current_pattern.measures)

Soloer == [id : Nat, measures_to_go : 0..UINT - 1]

TypeOK ==
  /\ piece \in DOMAIN Pieces
  /\ running \in BOOLEAN
  /\ genre \in DOMAIN asked.db
  /\ running => /\ subgenre \in DOMAIN asked.db[genre].patterns
                /\ prev_mood \in 0..current_pattern.moods - 1
  /\ tonality \in Tonalities
  /\ DOMAIN soloers \subseteq Nat /\ Range(soloers) \subseteq Soloer
  /\ soloer \in Nat
  /\ current_measure_num \in Nat
  /\ decided \in 0..asked.measures_count
  /\ decided > 0 => /\ measure.chords \in [Beat -> Chord]
                    /\ measure.zones \in [Beat -> [note : Pitch, scale : SUBSET Pitch]]

-----------------------------------------------------------------------------
(* setupSoloers.                                                            *)

Turn(id, measures) == [id |-> id, measures_to_go |-> measures]

(* Fewer measures than three times the pattern: only the leader.            *)
ShortSchedule(leader, solocount, count, measures) ==
  LET slot  == measures \div (solocount + 2)
      whole == slot - (slot % count)
  IN [k \in 0..2 |-> CASE k = 0 -> Turn(leader, whole)
                       [] k = 1 -> Turn(SOLOER_NONE, whole)
                       [] k = 2 -> Turn(leader, measures - (whole + whole))]

(* Sections without a soloist.                                              *)
NotSoloRiffs(sections) ==
  LET most == sections \div NOT_SOLO_MAX_SECTIONS
  IN IF most > 0 THEN 0..most - 1 ELSE {0}

(* (Mutant: one turn too many.)                                             *)
TurnsOneMore(measures, count, riffs) ==
  ((measures - (riffs + 2) * count) \div count) + riffs + 3

Turns(measures, count, riffs) ==
  ((measures - (riffs + 2) * count) \div count) + riffs + 2

(* The measures of the last turn: to the end in any case.  (Mutant: one     *)
(* section.)                                                                *)
LastTurnOneSection(measures, count) == count

LastTurn(measures, count) == measures

(* One turn for each section: first and last the leader's, the others are   *)
(* drawn.  The draw, an index, is compared with the leader's id.            *)
LongSchedule(sololist, leader, count, measures, riffs, draw) ==
  LET last == Turns(measures, count, riffs) - 1
  IN [k \in 0..last |->
        CASE k = last -> Turn(leader, LastTurn(measures, count))
          [] k = 0 /\ k # last -> Turn(leader, count)
          [] OTHER -> IF draw[k] = leader /\ riffs > 0
                      THEN Turn(SOLOER_NONE, count)
                      ELSE Turn(sololist[draw[k] + 1], count)]

(* All the schedules setupSoloers may make for a pattern of count measures. *)
Schedules(sololist, count, measures) ==
  IF sololist = <<>>
  THEN {[k \in {0} |-> Turn(SOLOER_NONE, measures)]}
  ELSE IF count * 3 > measures
  THEN {ShortSchedule(leader, Len(sololist), count, measures) : leader \in Range(sololist)}
  ELSE UNION {{LongSchedule(sololist, leader, count, measures, riffs, draw) :
                 draw \in [1..Turns(measures, count, riffs) - 2 -> 0..Len(sololist) - 1]} :
               leader \in Range(sololist), riffs \in NotSoloRiffs(measures \div count)}

Init ==
  /\ piece \in DOMAIN Pieces
  /\ running = TRUE
  /\ genre = asked.genre /\ subgenre = asked.subgenre
  /\ tonality \in Tonalities
  /\ prev_mood = 0
  /\ soloers \in Schedules(asked.sololist, SectionLength, asked.measures_count)
  /\ soloer = 0
  /\ current_measure_num = 0 /\ decided = 0
  /\ measure = <<>>

-----------------------------------------------------------------------------
(* decide_next_measure.                                                     *)

(* What rand() % 100 < percent may be.                                      *)
Draw(percent) == {r < percent : r \in 0..99}

OnOneOr(on_one, on_any) == IF current_measure_num = 0 THEN on_one ELSE on_any

GenreChange == Draw(OnOneOr(asked.conf.change_genre_on_one, asked.conf.change_genre_on_any))

(* decideChord.                                                             *)
Chords(m) ==
  LET change == IF OneChord(m)
                THEN Draw(OnOneOr(asked.conf.change_chord_on_one, asked.conf.change_chord_on_any))
                ELSE {FALSE}
  IN (IF TRUE \in change
      THEN Substitutes(Root(m), tonality, asked.conf) ELSE {})
     \union (IF FALSE \in change THEN {PatternChords(m, tonality)} ELSE {})

(* setupTags, what it does to the mood.                                     *)
Moods(mood, moods_num) ==
  LET change == Draw(OnOneOr(asked.conf.change_mood_on_one, asked.conf.change_mood_on_any))
  IN (IF TRUE \in change THEN 0..moods_num - 1 ELSE {})
     \union (IF FALSE \in change THEN {mood} ELSE {})

(* The soloist: the next one, if the turn of the present one is over.       *)
(* (Mutant: a measure early.)                                               *)
NextTurnEarly == IF soloers[soloer].measures_to_go <= 1 THEN soloer + 1 ELSE soloer

NextTurn == IF soloers[soloer].measures_to_go <= 0 THEN soloer + 1 ELSE soloer

(* An unsigned int less one.                                                *)
LessOne(n) == IF n = 0 THEN UINT - 1 ELSE n - 1

(* main, after the call: the place in the pattern, of count measures now.   *)
NextMeasureNum(count) ==
  IF current_measure_num < count THEN (current_measure_num + 1) % count ELSE 0

(* The rest of the call once the pattern is there.                          *)
Decide(g, s, mood) ==
  LET measures == Pattern(g, s).measures
      m        == measures[current_measure_num + 1]
  IN /\ \E chords \in Chords(m), centre \in Centres(measures, current_measure_num) :
          \E zones \in TonalZones(m, chords, centre, tonality, asked.db[g].scales) :
            measure' = [chords |-> chords, zones |-> zones, of |-> m]
     /\ prev_mood' \in Moods(mood, Pattern(g, s).moods)
     /\ genre' = g /\ subgenre' = s
     /\ soloer' = NextTurn
     /\ soloers' = [soloers EXCEPT ![NextTurn].measures_to_go = LessOne(@)]
     /\ current_measure_num' = NextMeasureNum(Len(measures))
     /\ decided' = decided + 1
     /\ UNCHANGED <<piece, running, tonality>>

(* load_genre_info resets the mood.  (Mutant: it does not.)                 *)
MoodAfterLoadKept == prev_mood

MoodAfterLoad == 0

(* A pattern that is in the database, and one that is not: load_genre_info  *)
(* leaves no pattern, which decideChord does not expect.                    *)
Loaded(g, s) == s \in DOMAIN asked.db[g].patterns /\ Pattern(g, s).measures # <<>>

Crash(g, s) ==
  /\ ~Loaded(g, s)
  /\ running' = FALSE
  /\ genre' = g /\ subgenre' = s
  /\ UNCHANGED <<piece, tonality, prev_mood, soloers, soloer, current_measure_num, decided, measure>>

Asked == running /\ decided < asked.measures_count

SameGenre ==
  /\ Asked /\ FALSE \in GenreChange
  /\ Decide(genre, subgenre, prev_mood)

(* pickSubgenre, which looks for another one until it finds one.            *)
PickSubgenre ==
  /\ Asked /\ TRUE \in GenreChange /\ TRUE \in Draw(asked.conf.change_subgenre)
  /\ \E s \in DOMAIN asked.db[genre].patterns \ {subgenre} :
       Loaded(genre, s) /\ Decide(genre, s, MoodAfterLoad)

(* pickGenre changes the genre but not the subgenre.                        *)
PickGenre ==
  /\ Asked /\ TRUE \in GenreChange /\ FALSE \in Draw(asked.conf.change_subgenre)
  /\ \E g \in DOMAIN asked.db \ {genre} :
       Loaded(g, subgenre) /\ Decide(g, subgenre, MoodAfterLoad)

PickMissingPattern ==
  /\ Asked /\ TRUE \in GenreChange
  /\ \/ /\ TRUE \in Draw(asked.conf.change_subgenre)
        /\ \E s \in DOMAIN asked.db[genre].patterns \ {subgenre} : Crash(genre, s)
     \/ /\ FALSE \in Draw(asked.conf.change_subgenre)
        /\ \E g \in DOMAIN asked.db \ {genre} : Crash(g, subgenre)

Ended == ~Asked /\ UNCHANGED vars

Next == SameGenre \/ PickSubgenre \/ PickGenre \/ PickMissingPattern \/ Ended

Spec == Init /\ [][Next]_vars

-----------------------------------------------------------------------------
(* Properties.                                                              *)

Soloist == soloers[soloer].id

(* The schedule is long enough, whatever is drawn and however long the      *)
(* patterns are that are loaded later: decide_next_measure stays inside it. *)
ScheduleLasts == soloer \in DOMAIN soloers

(* Every index into the pattern is one of its measures: that of the measure *)
(* and those of all the windows around it (decideChord, decideImproScale).  *)
InPattern ==
  running =>
    /\ current_measure_num < SectionLength
    /\ \A size \in 1..SectionLength : \A k \in 0..size - 1 :
         WindowIndex(current_measure_num, size, k, SectionLength) \in 0..SectionLength - 1

OneLength(db) ==
  \A p, q \in Patterns(db) : p.measures # <<>> /\ q.measures # <<>> =>
                               Len(p.measures) = Len(q.measures)

(* The count of the turn in director_core.cpp and the place in the pattern  *)
(* in main go together: the soloist changes at the beginning of a section.  *)
(* (If the patterns have one length, as those of db.sql.)                   *)
SoloBySection ==
  [][OneLength(asked.db) /\ current_measure_num # 0 => Soloist' = Soloist]_vars

(* A piece of three sections or more begins and ends with its leader (the   *)
(* soloist of the first turn).                                              *)
LeaderFrames ==
  LET sections == asked.measures_count \div SectionLength
  IN running /\ OneLength(asked.db) /\ sections >= 3 /\ decided > 0
       /\ (decided <= SectionLength \/ decided > (sections - 1) * SectionLength)
     => Soloist = soloers[0].id

(* When the chords are those of the pattern, the scale covers the chord in  *)
(* the key of the tonal centre, or is the blues scale; or no scale does.    *)
(* (getMatchingScales; for a cadence, the chord it ends on.)                *)
ScaleFits ==
  running /\ decided > 0 /\ measure.chords = PatternChords(measure.of, tonality) =>
    \A b \in IF CheckCadenza(measure.of) >= 0 THEN {Beats - 1} ELSE Beat :
      LET chord  == measure.chords[b]
          zone   == measure.zones[b]
          scales == asked.db[genre].scales
      IN \/ zone.scale \in scales
            /\ (zone.scale = BLUES_SCALE \/ Covers(zone.scale, zone.note, chord))
         \/ \A s \in scales : ~Covers(s, zone.note, chord)

(* In a piece of less than three sections only the leader improvises, and   *)
(* from the beginning (director_core.cpp:581; Report/core/thinking_dir.tex: *)
(* "sarà il primo strumento ad improvvisare").                              *)
LeaderImproves ==
  decided > 0 /\ asked.sololist # <<>> /\ asked.measures_count < 3 * SectionLength
    => Soloist \in Range(asked.sololist)
==============================================================================
