------------------------- MODULE DirectorMindProofs -------------------------
(***************************************************************************)
(* The schedule of the soloists is never left.  If all patterns have twelve *)
(* measures, as those of db.sql, the pattern is never left either, the      *)
(* soloists change by sections, the leader begins and ends, and the scales  *)
(* fit the chords of the pattern.                                           *)
(***************************************************************************)
EXTENDS DirectorMind, TLAPS

-----------------------------------------------------------------------------
(* Arithmetic of the schedules.                                             *)

LEMMA Division ==
  ASSUME NEW a \in Nat, NEW d \in Nat \ {0}
  PROVE  /\ a \div d \in Nat /\ a % d \in 0..d - 1
         /\ a = d * (a \div d) + (a % d)
  OBVIOUS

LEMMA ProductGrows ==
  ASSUME NEW a \in Nat, NEW b \in Nat, NEW c \in Nat, a <= b
  PROVE  a * c <= b * c
  OBVIOUS

(* The slot of a short piece is shorter than a section.                     *)
LEMMA ShortSlot ==
  ASSUME NEW measures \in Nat, NEW count \in Nat \ {0}, NEW n \in Nat \ {0},
         measures < count * 3
  PROVE  measures \div (n + 2) \in 0..count - 1
<1> DEFINE q == measures \div (n + 2)
<1>1. q \in Nat /\ measures >= (n + 2) * q
  <2>1. n + 2 \in Nat \ {0}
    OBVIOUS
  <2>2. q \in Nat /\ measures % (n + 2) \in 0..(n + 2) - 1
        /\ measures = (n + 2) * q + (measures % (n + 2))
    BY <2>1, Division
  <2>3. (n + 2) * q \in Nat
    BY <2>2
  <2> QED
    BY <2>2, <2>3
<1>2. 3 * q <= (n + 2) * q
  BY <1>1, ProductGrows
<1>3. 3 * q < count * 3
  BY <1>1, <1>2
<1> QED
  BY <1>1, <1>3

LEMMA SmallMod ==
  ASSUME NEW count \in Nat \ {0}, NEW a \in 0..count - 1
  PROVE  a % count = a
  OBVIOUS

(* A long piece has at least two turns.                                     *)
LEMMA LongTurns ==
  ASSUME NEW measures \in Nat, NEW count \in Nat \ {0}, count * 3 <= measures,
         NEW riffs \in NotSoloRiffs(measures \div count)
  PROVE  /\ riffs \in Nat
         /\ Turns(measures, count, riffs) \in Nat /\ Turns(measures, count, riffs) >= 2
<1> DEFINE q == measures \div count
           rest == measures - (riffs + 2) * count
<1>1. q \in Nat /\ measures = count * q + (measures % count) /\ measures % count \in 0..count - 1
  BY Division
<1>2. q >= 3
  <2> SUFFICES ASSUME q <= 2
               PROVE  FALSE
    BY <1>1
  <2>1. q * count <= 2 * count
    BY <1>1, ProductGrows
  <2> QED
    BY <2>1, <1>1
<1>3. riffs \in Nat /\ riffs + 2 <= q
  <2> HIDE DEF q
  <2>1. NotSoloRiffs(q) = IF q \div 5 > 0 THEN 0..(q \div 5) - 1 ELSE {0}
    BY DEF NotSoloRiffs, NOT_SOLO_MAX_SECTIONS
  <2>2. riffs \in NotSoloRiffs(q)
    BY DEF q
  <2> QED
    BY <2>1, <2>2, <1>1, <1>2
<1>4. (riffs + 2) * count <= q * count
  BY <1>1, <1>3, ProductGrows
<1>5. rest \in Nat
  <2>1. (riffs + 2) * count \in Nat
    BY <1>3
  <2>2. q * count <= measures
    BY <1>1
  <2> QED
    BY <2>1, <2>2, <1>1, <1>4
<1>6. rest \div count \in Nat
  BY <1>5, Division
<1> QED
  BY <1>3, <1>6 DEF Turns
-----------------------------------------------------------------------------
(* The schedule.                                                            *)

(* A schedule that lasts: its last turn reaches to the end of the piece.    *)
Lasting(schedule, measures) ==
  \E last \in Nat :
    /\ schedule \in [0..last -> Soloer]
    /\ schedule[last].measures_to_go >= measures

LEMMA SchedulesLast ==
  ASSUME NEW sololist \in Seq(Nat), NEW count \in Nat \ {0},
         NEW measures \in 0..UINT - 1,
         NEW schedule \in Schedules(sololist, count, measures)
  PROVE  Lasting(schedule, measures)
<1>0. UINT \in Nat \ {0} /\ measures \in Nat
  BY MindAssumption
<1>1. CASE sololist = <<>>
  <2>1. schedule = [k \in {0} |-> Turn(SOLOER_NONE, measures)]
    BY <1>1 DEF Schedules
  <2>2. schedule \in [0..0 -> Soloer]
    BY <2>1, <1>0 DEF Turn, Soloer, SOLOER_NONE
  <2>3. schedule[0].measures_to_go >= measures
    BY <2>1, <1>0 DEF Turn
  <2> QED
    BY <2>2, <2>3 DEF Lasting
<1>2. CASE sololist # <<>> /\ count * 3 > measures
  <2>1. PICK leader \in Range(sololist) :
               schedule = ShortSchedule(leader, Len(sololist), count, measures)
    BY <1>2 DEF Schedules
  <2>2. Len(sololist) \in Nat \ {0} /\ leader \in Nat
    BY <1>2, <2>1 DEF Range
  <2> DEFINE slot  == measures \div (Len(sololist) + 2)
             whole == slot - (slot % count)
  <2>3. slot \in 0..count - 1
    BY <2>2, <1>0, <1>2, ShortSlot
  <2>4. whole = 0
    <3> HIDE DEF slot
    <3> QED
      BY <2>3, SmallMod
  <2>5. schedule = [k \in 0..2 |-> CASE k = 0 -> Turn(leader, whole)
                                   [] k = 1 -> Turn(SOLOER_NONE, whole)
                                   [] k = 2 -> Turn(leader, measures - (whole + whole))]
    BY <2>1 DEF ShortSchedule
  <2> HIDE DEF whole
  <2>6. schedule \in [0..2 -> Soloer]
    BY <2>5, <2>4, <2>2, <1>0 DEF Turn, Soloer, SOLOER_NONE
  <2>7. schedule[2].measures_to_go >= measures
    BY <2>5, <2>4, <1>0 DEF Turn
  <2> QED
    BY <2>6, <2>7 DEF Lasting
<1>3. CASE sololist # <<>> /\ count * 3 <= measures
  <2>1. PICK leader \in Range(sololist), riffs \in NotSoloRiffs(measures \div count) :
               \E draw \in [1..Turns(measures, count, riffs) - 2 -> 0..Len(sololist) - 1] :
                 schedule = LongSchedule(sololist, leader, count, measures, riffs, draw)
    BY <1>3, <1>0 DEF Schedules
  <2> DEFINE last == Turns(measures, count, riffs) - 1
  <2>2. PICK draw \in [1..last - 1 -> 0..Len(sololist) - 1] :
               schedule = LongSchedule(sololist, leader, count, measures, riffs, draw)
    <3>1. Turns(measures, count, riffs) \in Nat
      BY <1>3, <1>0, LongTurns
    <3>2. last - 1 = Turns(measures, count, riffs) - 2
      BY <3>1
    <3> QED
      BY <2>1, <3>2
  <2>3. last \in Nat /\ last > 0
    BY <2>1, <1>3, <1>0, LongTurns
  <2>4. leader \in Nat
    BY <2>1 DEF Range
  <2>5. count < UINT
    BY <1>3, <1>0
  <2>6. schedule = [k \in 0..last |->
                      CASE k = last -> Turn(leader, LastTurn(measures, count))
                        [] k = 0 /\ k # last -> Turn(leader, count)
                        [] OTHER -> IF draw[k] = leader /\ riffs > 0
                                    THEN Turn(SOLOER_NONE, count)
                                    ELSE Turn(sololist[draw[k] + 1], count)]
    BY <2>2 DEF LongSchedule
  <2> HIDE DEF last
  <2>7. ASSUME NEW k \in 0..last
        PROVE  schedule[k] \in Soloer
    <3>1. CASE k = last
      BY <3>1, <2>3, <2>4, <2>6, <1>0 DEF Turn, Soloer, LastTurn
    <3>2. CASE k = 0 /\ k # last
      BY <3>2, <2>3, <2>4, <2>5, <2>6, <1>0 DEF Turn, Soloer
    <3>3. CASE k # 0 /\ k # last
      <4>1. draw[k] \in 0..Len(sololist) - 1
        BY <3>3, <2>2, <2>3
      <4>2. sololist[draw[k] + 1] \in Nat
        BY <4>1
      <4>3. schedule[k] = IF draw[k] = leader /\ riffs > 0
                          THEN Turn(SOLOER_NONE, count)
                          ELSE Turn(sololist[draw[k] + 1], count)
        BY <3>3, <2>6
      <4> QED
        BY <4>2, <4>3, <2>5, <1>0 DEF Turn, Soloer, SOLOER_NONE
    <3> QED
      BY <3>1, <3>2, <3>3
  <2>8. schedule \in [0..last -> Soloer]
    BY <2>6, <2>7
  <2>9. schedule[last].measures_to_go >= measures
    BY <2>3, <2>6, <1>0 DEF Turn, LastTurn
  <2> QED
    BY <2>3, <2>8, <2>9 DEF Lasting
<1> QED
  BY <1>0, <1>1, <1>2, <1>3

-----------------------------------------------------------------------------
(* The invariant of the schedule: what is left of its last turn is enough   *)
(* for the measures that are left.                                          *)
ScheduleInv ==
  /\ piece \in DOMAIN Pieces
  /\ decided \in 0..asked.measures_count
  /\ \E last \in Nat :
       /\ soloers \in [0..last -> Soloer]
       /\ soloer \in 0..last
       /\ soloers[last].measures_to_go + decided >= asked.measures_count

LEMMA Asking ==
  ASSUME piece \in DOMAIN Pieces
  PROVE  /\ IsDatabase(asked.db)
         /\ asked.genre \in DOMAIN asked.db
         /\ asked.subgenre \in DOMAIN asked.db[asked.genre].patterns
         /\ Pattern(asked.genre, asked.subgenre).measures # <<>>
         /\ asked.measures_count \in 0..UINT - 1
         /\ asked.sololist \in Seq(Nat)
<1>1. asked \in Range(Pieces)
  BY DEF asked, Range
<1> QED
  BY <1>1, MindAssumption DEF Pattern

LEMMA InitSchedule == Init => ScheduleInv
<1> SUFFICES ASSUME Init
             PROVE  ScheduleInv
  OBVIOUS
<1>1. piece \in DOMAIN Pieces /\ genre = asked.genre /\ subgenre = asked.subgenre
      /\ soloers \in Schedules(asked.sololist, SectionLength, asked.measures_count)
      /\ soloer = 0 /\ decided = 0
  BY DEF Init
<1>2. SectionLength \in Nat \ {0}
  <2>1. current_pattern.measures \in Seq(MeasurePattern) /\ current_pattern.measures # <<>>
    BY <1>1, Asking DEF IsDatabase, current_pattern, Pattern
  <2> QED
    BY <2>1 DEF SectionLength
<1>3. Lasting(soloers, asked.measures_count)
  BY <1>1, <1>2, Asking, SchedulesLast
<1>4. PICK last \in Nat : /\ soloers \in [0..last -> Soloer]
                         /\ soloers[last].measures_to_go >= asked.measures_count
  BY <1>3 DEF Lasting
<1>5. soloer \in 0..last /\ soloers[last].measures_to_go + decided >= asked.measures_count
  BY <1>1, <1>4, Asking DEF Soloer
<1> QED
  BY <1>1, <1>4, <1>5, Asking DEF ScheduleInv

(* A measure takes one from the turn of the soloist, perhaps the next one.  *)
LEMMA DecideKeepsSchedule ==
  ASSUME ScheduleInv, Asked, NEW g, NEW s, NEW mood, Decide(g, s, mood)
  PROVE  ScheduleInv'
<1>1. /\ piece' = piece /\ decided' = decided + 1
      /\ soloer' = NextTurn
      /\ soloers' = [soloers EXCEPT ![NextTurn].measures_to_go = LessOne(@)]
  BY DEF Decide
<1>2. asked' = asked
  BY <1>1 DEF asked
<1>3. /\ piece \in DOMAIN Pieces /\ asked.measures_count \in Nat
      /\ decided \in Nat /\ decided < asked.measures_count
  BY Asking DEF ScheduleInv, Asked
<1>4. PICK last \in Nat :
             /\ soloers \in [0..last -> Soloer]
             /\ soloer \in 0..last
             /\ soloers[last].measures_to_go + decided >= asked.measures_count
  BY DEF ScheduleInv
<1>5. soloers[last].measures_to_go \in Nat /\ soloers[last].measures_to_go > 0
  BY <1>3, <1>4 DEF Soloer
<1>6. NextTurn \in 0..last
  <2>1. CASE soloer = last
    BY <2>1, <1>4, <1>5 DEF NextTurn
  <2>2. CASE soloer # last
    BY <2>2, <1>4 DEF NextTurn
  <2> QED
    BY <2>1, <2>2
<1>7. ASSUME NEW n \in 0..UINT - 1
      PROVE  LessOne(n) \in 0..UINT - 1 /\ (n > 0 => LessOne(n) = n - 1)
  BY MindAssumption DEF LessOne
<1>8. soloers' \in [0..last -> Soloer]
  <2> DEFINE next == [soloers[NextTurn] EXCEPT !.measures_to_go = LessOne(@)]
  <2>1. soloers[NextTurn] \in Soloer
    BY <1>4, <1>6
  <2>2. next \in Soloer
    BY <2>1, <1>7 DEF Soloer
  <2>3. soloers' = [soloers EXCEPT ![NextTurn] = next]
    BY <1>1
  <2> HIDE DEF next
  <2> QED
    BY <2>2, <2>3, <1>4
<1>9. soloers'[last].measures_to_go >= soloers[last].measures_to_go - 1
  <2>1. soloers[last] \in Soloer
    BY <1>4
  <2>2. CASE NextTurn = last
    <3>1. soloers'[last] = [soloers[last] EXCEPT !.measures_to_go = LessOne(@)]
      BY <2>2, <1>1, <1>4
    <3>2. soloers'[last].measures_to_go = LessOne(soloers[last].measures_to_go)
      BY <3>1, <2>1 DEF Soloer
    <3> QED
      BY <3>2, <2>1, <1>5, <1>7 DEF Soloer
  <2>3. CASE NextTurn # last
    <3>1. soloers'[last] = soloers[last]
      BY <2>3, <1>1, <1>4
    <3> QED
      BY <3>1, <1>5
  <2> QED
    BY <2>2, <2>3
<1>10. soloers'[last].measures_to_go \in Nat
  BY <1>8 DEF Soloer
<1> QED
  <2>1. decided' \in 0..asked'.measures_count /\ piece' \in DOMAIN Pieces
    BY <1>1, <1>2, <1>3
  <2>2. soloer' \in 0..last
    BY <1>1, <1>6
  <2>3. soloers'[last].measures_to_go + decided' >= asked'.measures_count
    BY <1>1, <1>2, <1>3, <1>4, <1>5, <1>9, <1>10
  <2> QED
    BY <2>1, <2>2, <2>3, <1>8 DEF ScheduleInv

LEMMA NextSchedule == ScheduleInv /\ [Next]_vars => ScheduleInv'
<1> SUFFICES ASSUME ScheduleInv, [Next]_vars
             PROVE  ScheduleInv'
  OBVIOUS
<1>1. CASE SameGenre
  BY <1>1, DecideKeepsSchedule DEF SameGenre
<1>2. CASE PickSubgenre
  BY <1>2, DecideKeepsSchedule DEF PickSubgenre
<1>3. CASE PickGenre
  BY <1>3, DecideKeepsSchedule DEF PickGenre
<1>4. CASE PickMissingPattern
  <2>1. UNCHANGED <<piece, decided, soloers, soloer>>
    BY <1>4 DEF PickMissingPattern, Crash
  <2> QED
    BY <2>1 DEF ScheduleInv, asked
<1>5. CASE Ended \/ UNCHANGED vars
  BY <1>5 DEF Ended, vars, ScheduleInv, asked
<1> QED
  BY <1>1, <1>2, <1>3, <1>4, <1>5 DEF Next

(* For any databases, thresholds, soloists and lengths of the piece, also   *)
(* if patterns of other lengths are loaded on the way: decide_next_measure  *)
(* never goes past the end of the soloists setupSoloers has made.           *)
THEOREM ScheduleSuffices == Spec => []ScheduleLasts
<1>1. ScheduleInv => ScheduleLasts
  BY DEF ScheduleInv, ScheduleLasts
<1> QED
  BY InitSchedule, NextSchedule, <1>1, PTL DEF Spec

-----------------------------------------------------------------------------
(* The place in the pattern.                                                *)

(* All patterns have twelve measures, as those of db.sql have.  (The 12 is  *)
(* in the code too, in decideImproScale.)                                   *)
TwelveBars ==
  \A p \in Range(Pieces) : \A g \in DOMAIN p.db : \A s \in DOMAIN p.db[g].patterns :
    p.db[g].patterns[s].measures # <<>> => Len(p.db[g].patterns[s].measures) = 12

PlaceInv ==
  /\ piece \in DOMAIN Pieces
  /\ current_measure_num \in 0..11
  /\ running => genre \in DOMAIN asked.db /\ Loaded(genre, subgenre)

LEMMA LoadedTwelve ==
  ASSUME TwelveBars, piece \in DOMAIN Pieces, NEW g \in DOMAIN asked.db, NEW s, Loaded(g, s)
  PROVE  Len(Pattern(g, s).measures) = 12
<1>1. asked \in Range(Pieces)
  BY DEF asked, Range
<1> QED
  BY <1>1 DEF TwelveBars, Loaded, Pattern

(* Windows of at most twelve measures around one of twelve, wrapped.        *)
LEMMA WindowInPattern ==
  ASSUME NEW id \in 0..11, NEW size \in 1..12, NEW k \in 0..size - 1
  PROVE  WindowIndex(id, size, k, 12) \in 0..11
<1>1. size \div 2 \in 0..6 /\ size - (size \div 2) <= 6 + (size \div 2)
  OBVIOUS
<1> DEFINE tmp == id - (size \div 2) + k
<1>2. tmp \in Int /\ tmp >= -6
  BY <1>1
<1>3. WindowIndex(id, size, k, 12) = IF tmp >= 0 THEN tmp % 12 ELSE 12 + tmp
  BY DEF WindowIndex
<1> HIDE DEF tmp
<1> QED
  BY <1>2, <1>3

LEMMA DecideKeepsPlace ==
  ASSUME TwelveBars, PlaceInv, NEW g, NEW s, NEW mood,
         g \in DOMAIN asked.db, Loaded(g, s), Decide(g, s, mood)
  PROVE  PlaceInv'
<1>1. /\ piece' = piece /\ genre' = g /\ subgenre' = s
      /\ current_measure_num' = NextMeasureNum(Len(Pattern(g, s).measures))
  BY DEF Decide
<1>2. piece \in DOMAIN Pieces /\ current_measure_num \in 0..11
  BY DEF PlaceInv
<1>3. Len(Pattern(g, s).measures) = 12
  BY <1>2, LoadedTwelve
<1>4. current_measure_num' \in 0..11
  BY <1>1, <1>2, <1>3 DEF NextMeasureNum
<1>5. g \in DOMAIN asked'.db /\ Loaded(genre, subgenre)'
  BY <1>1 DEF asked, Loaded, Pattern
<1> QED
  BY <1>1, <1>2, <1>4, <1>5 DEF PlaceInv

LEMMA InitPlace == Init => PlaceInv
BY Asking DEF Init, PlaceInv, Loaded, Pattern

LEMMA NextPlace ==
  ASSUME TwelveBars, PlaceInv, [Next]_vars
  PROVE  PlaceInv'
<1>1. CASE SameGenre
  BY <1>1, DecideKeepsPlace DEF SameGenre, Asked, PlaceInv
<1>2. CASE PickSubgenre
  BY <1>2, DecideKeepsPlace DEF PickSubgenre, Asked, PlaceInv
<1>3. CASE PickGenre
  BY <1>3, DecideKeepsPlace DEF PickGenre, Asked, PlaceInv
<1>4. CASE PickMissingPattern
  <2>1. piece' = piece /\ current_measure_num' = current_measure_num /\ running' = FALSE
    BY <1>4 DEF PickMissingPattern, Crash
  <2> QED
    BY <2>1 DEF PlaceInv
<1>5. CASE Ended \/ UNCHANGED vars
  <2>1. UNCHANGED vars
    BY <1>5 DEF Ended
  <2>2. PlaceInv' <=> PlaceInv
    BY <2>1 DEF vars, PlaceInv, asked, Loaded, Pattern
  <2> QED
    BY <2>2
<1> QED
  BY <1>1, <1>2, <1>3, <1>4, <1>5 DEF Next

LEMMA PlaceIndexes == TwelveBars /\ PlaceInv => InPattern
<1> SUFFICES ASSUME TwelveBars, PlaceInv, running
             PROVE  /\ current_measure_num < SectionLength
                    /\ \A size \in 1..SectionLength : \A k \in 0..size - 1 :
                         WindowIndex(current_measure_num, size, k, SectionLength)
                           \in 0..SectionLength - 1
  BY DEF InPattern
<1>1. SectionLength = 12
  BY LoadedTwelve DEF PlaceInv, SectionLength, current_pattern
<1>2. current_measure_num \in 0..11
  BY DEF PlaceInv
<1> QED
  BY <1>1, <1>2, WindowInPattern

(* With patterns of twelve measures every index into a pattern is one of    *)
(* its measures, whatever genres are loaded and when.                       *)
THEOREM IndexesInPattern == ASSUME TwelveBars PROVE Spec => []InPattern
<1>1. Init => PlaceInv
  BY InitPlace
<1>2. PlaceInv /\ [Next]_vars => PlaceInv'
  BY NextPlace
<1>3. PlaceInv => InPattern
  BY PlaceIndexes
<1> QED
  BY <1>1, <1>2, <1>3, PTL DEF Spec

-----------------------------------------------------------------------------
(* The scales.                                                              *)

Fits(scales, zone, chord) ==
  \/ zone.scale \in scales
     /\ (zone.scale = BLUES_SCALE \/ Covers(zone.scale, zone.note, chord))
  \/ \A s \in scales : ~Covers(s, zone.note, chord)

LEMMA MatchingFits ==
  ASSUME NEW scales, NEW chord, NEW note, NEW key, NEW zone, zone.note = note,
         zone.scale \in MatchingScales(scales, chord, note, key)
  PROVE  Fits(scales, zone, chord)
<1> DEFINE suitable == Suitable(scales, chord, note, key)
<1>1. CASE suitable # {}
  <2>1. zone.scale \in suitable
    BY <1>1 DEF MatchingScales
  <2> QED
    BY <2>1 DEF Suitable, Fits
<1>2. CASE suitable = {}
  <2>1. ASSUME NEW s \in scales
        PROVE  ~Covers(s, note, chord)
    <3>1. s \notin suitable
      BY <1>2
    <3> QED
      BY <3>1 DEF Suitable
  <2> QED
    BY <2>1 DEF Fits
<1> QED
  BY <1>1, <1>2

(* The place of a beat among the chords of a measure.                       *)
Lasts(n) == (Beats \div n) + (IF Beats % n > 0 THEN 1 ELSE 0)

LEMMA ChordOfBeat ==
  ASSUME NEW n \in Nat \ {0}, NEW b \in Beat
  PROVE  (b \div Lasts(n)) + 1 \in 1..n
<1> DEFINE range == Lasts(n)
           q == b \div range
<1>0. Beats \in Nat \ {0} /\ b \in Nat /\ b < Beats
  BY HarmonyAssumption DEF Beat
<1>1. Beats \div n \in Nat /\ Beats % n \in 0..n - 1 /\ Beats = n * (Beats \div n) + (Beats % n)
  BY <1>0, Division
<1>2. range \in Nat \ {0} /\ Beats <= n * range
  <2> DEFINE d == Beats \div n
             r == Beats % n
  <2>1. d \in Nat /\ r \in 0..n - 1 /\ Beats = n * d + r
        /\ range = d + (IF r > 0 THEN 1 ELSE 0)
    BY <1>1 DEF Lasts
  <2> HIDE DEF d, r, range
  <2>2. CASE r = 0
    <3>1. range = d /\ Beats = n * d
      BY <2>1, <2>2
    <3>2. d # 0
      BY <3>1, <1>0
    <3> QED
      BY <3>1, <3>2, <2>1, <1>0
  <2>3. CASE r > 0
    <3>1. range = d + 1
      BY <2>1, <2>3
    <3>2. n * range = n * d + n
      BY <3>1, <2>1
    <3> QED
      BY <3>1, <3>2, <2>1, <1>0
  <2> QED
    BY <2>1, <2>2, <2>3
<1> HIDE DEF range
<1>3. q \in Nat /\ b % range \in 0..range - 1 /\ b = range * q + (b % range)
  BY <1>0, <1>2, Division
<1> HIDE DEF q
<1>4. q < n
  <2> SUFFICES ASSUME n <= q
               PROVE  FALSE
    BY <1>3
  <2>1. n * range <= q * range
    BY <1>2, <1>3, ProductGrows
  <2>2. q * range = range * q /\ range * q <= b
    BY <1>2, <1>3
  <2> QED
    BY <2>1, <2>2, <1>0, <1>2, <1>3
<1>5. q + 1 \in 1..n
  BY <1>3, <1>4
<1> QED
  BY <1>5 DEF q, range

LEMMA OneOfMany == ASSUME NEW b \in Beat PROVE b \div Lasts(1) = 0
<1>1. (b \div Lasts(1)) + 1 \in 1..1
  BY ChordOfBeat
<1>2. Lasts(1) \in Nat \ {0} /\ b \in Nat
  <2>1. Beats \div 1 = Beats /\ Beats % 1 = 0
    BY HarmonyAssumption
  <2> QED
    BY <2>1, HarmonyAssumption DEF Lasts, Beat
<1>3. b \div Lasts(1) \in Nat
  BY <1>2
<1> QED
  BY <1>1, <1>3

LEMMA SecondOfTwo == ASSUME Beats >= 2 PROVE (Beats - 1) \div Lasts(2) = 1
  BY HarmonyAssumption DEF Lasts

LEMMA PatternChordOf ==
  ASSUME NEW m, NEW key, NEW b \in Beat
  PROVE  LET k == (b \div Lasts(Len(m.steps))) + 1
         IN PatternChords(m, key)[b] = [note |-> (m.steps[k] + key) % 12,
                                        mode |-> ModeToChord(m.modes[k])]
  BY DEF PatternChords, Lasts

(* The chord a single scale is looked for is that of the pattern.           *)
LEMMA ZonesFit ==
  ASSUME Beats >= 2, NEW m \in MeasurePattern, NEW key, NEW centre, NEW scales,
         NEW zones \in TonalZones(m, PatternChords(m, key), centre, key, scales),
         NEW b \in IF CheckCadenza(m) >= 0 THEN {Beats - 1} ELSE Beat
  PROVE  Fits(scales, zones[b], PatternChords(m, key)[b])
<1> DEFINE chords == PatternChords(m, key)
           note == (centre + key) % 12
           place == IF Len(m.steps) = 1 THEN 0 ELSE Beats - 1
           reference == [note |-> (Root(m) + key) % 12, mode |-> chords[place].mode]
           Of(c) == MatchingScales(scales, chords[c], note, key)
<1>0. Beats \in Nat /\ b \in Beat /\ 0 \in Beat /\ Beats - 1 \in Beat
  BY HarmonyAssumption DEF Beat
<1>1. m.steps \in Seq(Pitch) /\ m.steps # <<>> /\ Len(m.steps) \in Nat \ {0}
  BY DEF MeasurePattern
<1>2. CASE OneChord(m)
  <2>1. PICK s \in MatchingScales(scales, reference, note, key) :
               zones = [c \in Beat |-> [note |-> note, scale |-> s]]
    BY <1>2 DEF TonalZones
  <2>2. zones[b].note = note /\ zones[b].scale = s
    BY <2>1, <1>0
  <2>3. chords[b] = reference
    <3>1. CASE Len(m.steps) = 1
      <4>1. Root(m) = m.steps[1]
        BY <3>1 DEF Root, CheckCadenza
      <4>2. chords[b] = [note |-> (m.steps[1] + key) % 12, mode |-> ModeToChord(m.modes[1])]
            /\ chords[0] = chords[b]
        <5>1. ASSUME NEW c \in Beat
              PROVE  chords[c] = [note |-> (m.steps[1] + key) % 12,
                                  mode |-> ModeToChord(m.modes[1])]
          <6>1. (c \div Lasts(Len(m.steps))) + 1 = 1
            BY <3>1, OneOfMany
          <6> QED
            BY <6>1, PatternChordOf
        <5> QED
          BY <5>1, <1>0
      <4> QED
        BY <3>1, <4>1, <4>2
    <3>2. CASE Len(m.steps) # 1
      <4>1. CheckCadenza(m) >= 0
        BY <1>2, <3>2 DEF OneChord
      <4>2. b = Beats - 1 /\ place = b
        BY <4>1, <3>2
      <4>3. Len(m.steps) = 2 /\ Root(m) = m.steps[2]
        BY <4>1 DEF Root, CheckCadenza
      <4>4. chords[b] = [note |-> (m.steps[2] + key) % 12, mode |-> ModeToChord(m.modes[2])]
        <5>1. (b \div Lasts(Len(m.steps))) + 1 = 2
          BY <4>2, <4>3, SecondOfTwo
        <5> QED
          BY <5>1, <1>0, PatternChordOf
      <4> QED
        BY <4>2, <4>3, <4>4
    <3> QED
      BY <3>1, <3>2
  <2> QED
    BY <2>1, <2>2, <2>3, MatchingFits
<1>3. CASE ~OneChord(m)
  <2>1. PICK f \in [Beat -> UNION {Of(c) : c \in Beat}] :
               /\ \A c \in Beat : f[c] \in Of(c)
               /\ zones = [c \in Beat |-> [note |-> note, scale |-> f[c]]]
    BY <1>3 DEF TonalZones
  <2>2. zones[b].note = note /\ zones[b].scale \in Of(b)
    BY <2>1, <1>0
  <2> QED
    BY <2>2, MatchingFits
<1> QED
  BY <1>2, <1>3

LEMMA FitsDefined ==
  ScaleFits <=>
    (running /\ decided > 0 /\ measure.chords = PatternChords(measure.of, tonality) =>
       \A b \in IF CheckCadenza(measure.of) >= 0 THEN {Beats - 1} ELSE Beat :
         Fits(asked.db[genre].scales, measure.zones[b], measure.chords[b]))
BY DEF ScaleFits, Fits

(* The measure of the pattern that is decided.                              *)
LEMMA MeasureDecided ==
  ASSUME TwelveBars, PlaceInv, NEW g \in DOMAIN asked.db, NEW s, Loaded(g, s)
  PROVE  Pattern(g, s).measures[current_measure_num + 1] \in MeasurePattern
<1>1. piece \in DOMAIN Pieces /\ current_measure_num \in 0..11
  BY DEF PlaceInv
<1>2. Pattern(g, s).measures \in Seq(MeasurePattern)
  BY <1>1, Asking DEF IsDatabase, Loaded, Pattern
<1>3. Len(Pattern(g, s).measures) = 12
  BY <1>1, LoadedTwelve
<1> QED
  BY <1>1, <1>2, <1>3

LEMMA DecideFits ==
  ASSUME Beats >= 2, TwelveBars, PlaceInv, NEW g, NEW s, NEW mood,
         g \in DOMAIN asked.db, Loaded(g, s), Decide(g, s, mood)
  PROVE  ScaleFits'
<1> DEFINE measures == Pattern(g, s).measures
           m == measures[current_measure_num + 1]
<1>1. PICK chords \in Chords(m), centre \in Centres(measures, current_measure_num) :
        \E zones \in TonalZones(m, chords, centre, tonality, asked.db[g].scales) :
          measure' = [chords |-> chords, zones |-> zones, of |-> m]
  BY DEF Decide
<1>2. PICK zones \in TonalZones(m, chords, centre, tonality, asked.db[g].scales) :
        measure' = [chords |-> chords, zones |-> zones, of |-> m]
  BY <1>1
<1>3. piece' = piece /\ tonality' = tonality /\ genre' = g
  BY DEF Decide
<1>4. m \in MeasurePattern
  BY MeasureDecided
<1> HIDE DEF m
<1>5. measure'.chords = chords /\ measure'.zones = zones /\ measure'.of = m
  BY <1>2
<1>6. chords = PatternChords(m, tonality) =>
        \A b \in IF CheckCadenza(m) >= 0 THEN {Beats - 1} ELSE Beat :
          Fits(asked.db[g].scales, zones[b], chords[b])
  BY <1>4, ZonesFit
<1>7. asked' = asked
  BY <1>3 DEF asked
<1> QED
  BY <1>3, <1>5, <1>6, <1>7 DEF ScaleFits, Fits

(* With patterns of twelve measures and two beats or more: whatever genres  *)
(* are loaded, the scales of a measure that has the chords of the pattern   *)
(* cover them, or no scale of the genre does.                               *)
THEOREM ScalesFitChords == ASSUME TwelveBars, Beats >= 2 PROVE Spec => []ScaleFits
<1>1. Init => PlaceInv /\ ScaleFits
  BY InitPlace DEF Init, ScaleFits
<1>2. ASSUME PlaceInv, ScaleFits, [Next]_vars
      PROVE  ScaleFits'
  <2>1. CASE SameGenre
    BY <1>2, <2>1, DecideFits DEF SameGenre, Asked, PlaceInv
  <2>2. CASE PickSubgenre
    BY <1>2, <2>2, DecideFits DEF PickSubgenre, Asked, PlaceInv
  <2>3. CASE PickGenre
    BY <1>2, <2>3, DecideFits DEF PickGenre, Asked, PlaceInv
  <2>4. CASE PickMissingPattern
    BY <2>4 DEF PickMissingPattern, Crash, ScaleFits
  <2>5. CASE Ended \/ UNCHANGED vars
    <3>1. UNCHANGED vars
      BY <2>5 DEF Ended
    <3>2. UNCHANGED <<running, decided, measure, tonality, genre, piece>>
      BY <3>1 DEF vars
    <3> QED
      BY <1>2, <3>2 DEF ScaleFits, asked
  <2> QED
    BY <1>2, <2>1, <2>2, <2>3, <2>4, <2>5 DEF Next
<1>3. PlaceInv /\ [Next]_vars => PlaceInv'
  BY NextPlace
<1> QED
  BY <1>1, <1>2, <1>3, PTL DEF Spec

-----------------------------------------------------------------------------
(* The soloists, section by section, with patterns of twelve measures.      *)

Total == asked.measures_count

(* What each kind of schedule is after the measures decided: with nobody to *)
(* improvise; of a short piece, whose second turn has wrapped below zero    *)
(* and lasts; and with a turn for each section.                             *)
NoSolos ==
  /\ soloers \in [0..0 -> Soloer]
  /\ soloer = 0
  /\ soloers[0].measures_to_go = Total - decided

ShortSolos ==
  /\ Total < 36
  /\ soloers \in [0..2 -> Soloer]
  /\ \/ /\ decided = 0 /\ soloer = 0
        /\ soloers[0].measures_to_go = 0 /\ soloers[1].measures_to_go = 0
     \/ /\ decided > 0 /\ soloer = 1
        /\ soloers[1].measures_to_go = UINT - decided

(* The turns of a piece of so many sections.                                *)
LongTurnsTo(last) ==
  /\ soloers \in [0..last -> Soloer]
  /\ soloers[last].id = soloers[0].id
  /\ soloer \in 0..last
  /\ soloer = 0 \/ decided > 12 * soloer
  /\ \A k \in 0..last : k > soloer =>
       soloers[k].measures_to_go = (IF k = last THEN Total ELSE 12)
  /\ soloers[soloer].measures_to_go =
       (IF soloer = last THEN Total ELSE 12) - (decided - 12 * soloer)

LongSolos ==
  LET last == (Total \div 12) - 1
  IN last >= 2 /\ LongTurnsTo(last)

SoloInv ==
  running => /\ current_measure_num = decided % 12
             /\ NoSolos \/ ShortSolos \/ LongSolos

LEMMA LongTurnsNumber ==
  ASSUME NEW measures \in Nat, 36 <= measures, NEW riffs \in NotSoloRiffs(measures \div 12)
  PROVE  Turns(measures, 12, riffs) - 1 = (measures \div 12) - 1 /\ measures \div 12 >= 3
<1>1. riffs \in Nat
  BY LongTurns
<1>2. (measures - (riffs + 2) * 12) \div 12 = (measures \div 12) - (riffs + 2)
  BY <1>1
<1> QED
  BY <1>1, <1>2 DEF Turns

LEMMA InitSolo == ASSUME TwelveBars PROVE Init => SoloInv
<1> SUFFICES ASSUME Init
             PROVE  SoloInv
  OBVIOUS
<1>1. /\ piece \in DOMAIN Pieces /\ genre = asked.genre /\ subgenre = asked.subgenre
      /\ soloers \in Schedules(asked.sololist, SectionLength, Total)
      /\ soloer = 0 /\ decided = 0 /\ current_measure_num = 0
  BY DEF Init, Total
<1>2. SectionLength = 12
  BY <1>1, Asking, LoadedTwelve DEF SectionLength, current_pattern, Loaded
<1>3. Total \in 0..UINT - 1 /\ UINT \in Nat /\ Total \in Nat
  BY <1>1, Asking, MindAssumption DEF Total
<1>4. asked.sololist \in Seq(Nat)
  BY <1>1, Asking
<1>5. PICK end \in Nat : soloers \in [0..end -> Soloer]
  BY <1>1, <1>2, <1>3, <1>4, SchedulesLast DEF Lasting
<1> DEFINE sololist == asked.sololist
<1>6. soloers \in Schedules(sololist, 12, Total)
  BY <1>1, <1>2
<1> HIDE DEF sololist
<1>7. CASE sololist = <<>>
  <2>1. soloers = [k \in {0} |-> Turn(SOLOER_NONE, Total)]
    BY <1>6, <1>7 DEF Schedules
  <2>2. soloers \in [0..0 -> Soloer]
    BY <2>1, <1>3 DEF Turn, Soloer, SOLOER_NONE
  <2>3. soloers[0].measures_to_go = Total - decided
    BY <2>1, <1>1, <1>3 DEF Turn
  <2> QED
    BY <2>2, <2>3, <1>1 DEF SoloInv, NoSolos
<1>8. CASE sololist # <<>> /\ 12 * 3 > Total
  <2>1. PICK leader \in Range(sololist) :
               soloers = ShortSchedule(leader, Len(sololist), 12, Total)
    BY <1>6, <1>8 DEF Schedules
  <2>2. Len(sololist) \in Nat \ {0}
    BY <1>4, <1>8 DEF sololist
  <2> DEFINE slot  == Total \div (Len(sololist) + 2)
             whole == slot - (slot % 12)
  <2>3. slot \in 0..12 - 1
    BY <2>2, <1>3, <1>8, ShortSlot
  <2>4. whole = 0
    <3> HIDE DEF slot
    <3> QED
      BY <2>3, SmallMod
  <2>5. soloers = [k \in 0..2 |-> CASE k = 0 -> Turn(leader, whole)
                                  [] k = 1 -> Turn(SOLOER_NONE, whole)
                                  [] k = 2 -> Turn(leader, Total - (whole + whole))]
    BY <2>1 DEF ShortSchedule
  <2> HIDE DEF whole
  <2>6. soloers[0].measures_to_go = 0 /\ soloers[1].measures_to_go = 0
    BY <2>4, <2>5 DEF Turn
  <2>7. DOMAIN soloers = 0..2 /\ soloers \in [0..2 -> Soloer]
    BY <2>5, <1>5
  <2> QED
    BY <2>6, <2>7, <1>1, <1>8 DEF SoloInv, ShortSolos
<1>9. CASE sololist # <<>> /\ 12 * 3 <= Total
  <2>1. PICK leader \in Range(sololist), riffs \in NotSoloRiffs(Total \div 12) :
               \E draw \in [1..Turns(Total, 12, riffs) - 2 -> 0..Len(sololist) - 1] :
                 soloers = LongSchedule(sololist, leader, 12, Total, riffs, draw)
    BY <1>6, <1>9, <1>3 DEF Schedules
  <2> DEFINE last == Turns(Total, 12, riffs) - 1
  <2>2. last = (Total \div 12) - 1 /\ last \in Nat /\ last >= 2
    BY <2>1, <1>9, <1>3, LongTurnsNumber
  <2>3. PICK draw :
             soloers = [k \in 0..last |->
                          CASE k = last -> Turn(leader, LastTurn(Total, 12))
                            [] k = 0 /\ k # last -> Turn(leader, 12)
                            [] OTHER -> IF draw[k] = leader /\ riffs > 0
                                        THEN Turn(SOLOER_NONE, 12)
                                        ELSE Turn(sololist[draw[k] + 1], 12)]
    BY <2>1 DEF LongSchedule
  <2> HIDE DEF last
  <2>4. soloers \in [0..last -> Soloer]
    <3>1. DOMAIN soloers = 0..last
      BY <2>3
    <3> QED
      BY <3>1, <1>5
  <2>5. soloers[last] = Turn(leader, Total) /\ soloers[0] = Turn(leader, 12)
    BY <2>2, <2>3 DEF LastTurn
  <2>6. ASSUME NEW k \in 0..last
        PROVE  soloers[k].measures_to_go = (IF k = last THEN Total ELSE 12)
    <3>1. CASE k = last
      BY <3>1, <2>5 DEF Turn
    <3>2. CASE k = 0 /\ k # last
      BY <3>2, <2>5 DEF Turn
    <3>3. CASE k # 0 /\ k # last
      <4>1. soloers[k] = IF draw[k] = leader /\ riffs > 0
                         THEN Turn(SOLOER_NONE, 12)
                         ELSE Turn(sololist[draw[k] + 1], 12)
        BY <2>3, <3>3
      <4>2. soloers[k].measures_to_go = 12
        BY <4>1 DEF Turn
      <4> QED
        BY <4>2, <3>3
    <3> QED
      BY <3>1, <3>2, <3>3
  <2>7. soloers[last].id = soloers[0].id
    BY <2>5 DEF Turn
  <2>8. LongTurnsTo(last)
    BY <2>2, <2>4, <2>6, <2>7, <1>1, <1>3 DEF LongTurnsTo
  <2> QED
    BY <2>2, <2>8, <1>1 DEF SoloInv, LongSolos
<1> QED
  BY <1>3, <1>7, <1>8, <1>9

(* What taking a measure from a turn does to the schedule.                  *)
LEMMA MeasureTaken ==
  ASSUME NEW last \in Nat, soloers \in [0..last -> Soloer], NEW t \in 0..last, t = NextTurn,
         soloers' = [soloers EXCEPT ![NextTurn].measures_to_go = LessOne(@)]
  PROVE  /\ soloers' \in [0..last -> Soloer]
         /\ soloers'[t].measures_to_go = LessOne(soloers[t].measures_to_go)
         /\ \A k \in 0..last : soloers'[k].id = soloers[k].id
         /\ \A k \in 0..last : k # t => soloers'[k] = soloers[k]
<1>1. ASSUME NEW n \in 0..UINT - 1
      PROVE  LessOne(n) \in 0..UINT - 1
  BY MindAssumption DEF LessOne
<1> DEFINE turn == [soloers[t] EXCEPT !.measures_to_go = LessOne(@)]
<1>2. soloers[t] \in Soloer
  OBVIOUS
<1>3. turn.measures_to_go = LessOne(soloers[t].measures_to_go) /\ turn.id = soloers[t].id
  BY <1>2 DEF Soloer
<1>4. turn \in Soloer
  BY <1>1, <1>2 DEF Soloer
<1>5. soloers' = [soloers EXCEPT ![t] = turn]
  BY t = NextTurn
<1> HIDE DEF turn
<1>6. soloers'[t] = turn /\ \A k \in 0..last : k # t => soloers'[k] = soloers[k]
  BY <1>5
<1> QED
  BY <1>3, <1>4, <1>5, <1>6

LEMMA DecideKeepsSolo ==
  ASSUME TwelveBars, ScheduleInv, PlaceInv, SoloInv, Asked,
         NEW g \in DOMAIN asked.db, NEW s, NEW mood, Loaded(g, s), Decide(g, s, mood)
  PROVE  /\ SoloInv'
         /\ current_measure_num # 0 => Soloist' = Soloist
<1>1. /\ piece' = piece /\ decided' = decided + 1
      /\ soloer' = NextTurn
      /\ soloers' = [soloers EXCEPT ![NextTurn].measures_to_go = LessOne(@)]
      /\ current_measure_num' = NextMeasureNum(12)
  <2>1. Len(Pattern(g, s).measures) = 12
    BY LoadedTwelve DEF PlaceInv
  <2> QED
    BY <2>1 DEF Decide
<1>2. Total' = Total
  BY <1>1 DEF Total, asked
<1>3. Total \in Nat /\ Total < UINT /\ UINT \in Nat /\ decided \in Nat /\ decided < Total
  BY Asking, MindAssumption DEF ScheduleInv, Asked, Total
<1>4. current_measure_num = decided % 12 /\ (NoSolos \/ ShortSolos \/ LongSolos)
  BY DEF SoloInv, Asked
<1>5. current_measure_num' = decided' % 12
  BY <1>1, <1>3, <1>4 DEF NextMeasureNum
<1>6. CASE NoSolos
  <2>1. NextTurn = 0
    BY <1>3, <1>6 DEF NextTurn, NoSolos
  <2>2. soloers \in [0..0 -> Soloer] /\ soloer = 0 /\ 0 \in Nat
        /\ soloers[0].measures_to_go = Total - decided
    BY <1>6 DEF NoSolos
  <2>3. /\ soloers' \in [0..0 -> Soloer]
        /\ soloers'[0].measures_to_go = LessOne(soloers[0].measures_to_go)
        /\ soloers'[0].id = soloers[0].id
    BY <1>1, <2>1, <2>2, MeasureTaken
  <2>4. soloers'[0].measures_to_go = Total' - decided'
    BY <1>1, <1>2, <1>3, <2>2, <2>3 DEF LessOne
  <2> QED
    BY <1>1, <1>5, <2>1, <2>2, <2>3, <2>4 DEF SoloInv, NoSolos, Soloist
<1>7. CASE ShortSolos
  <2>1. NextTurn = 1
    BY <1>3, <1>7 DEF NextTurn, ShortSolos
  <2>2. soloers \in [0..2 -> Soloer] /\ 1 \in 0..2
    BY <1>7 DEF ShortSolos
  <2>3. /\ soloers' \in [0..2 -> Soloer]
        /\ soloers'[1].measures_to_go = LessOne(soloers[1].measures_to_go)
        /\ soloers'[1].id = soloers[1].id
    BY <1>1, <2>1, <2>2, MeasureTaken
  <2>4. soloers'[1].measures_to_go = UINT - decided'
    BY <1>1, <1>3, <1>7, <2>3 DEF LessOne, ShortSolos
  <2>5. current_measure_num # 0 => soloer = 1
    BY <1>3, <1>4, <1>7 DEF ShortSolos
  <2>6. ShortSolos'
    BY <1>1, <1>2, <1>3, <1>7, <2>1, <2>3, <2>4 DEF ShortSolos
  <2> QED
    BY <1>1, <1>5, <2>1, <2>3, <2>5, <2>6 DEF SoloInv, Soloist
<1>8. CASE LongSolos
  <2> DEFINE last == (Total \div 12) - 1
  <2>1. LongTurnsTo(last) /\ last >= 2 /\ last \in Nat /\ Total >= 12 * last + 12
    BY <1>3, <1>8 DEF LongSolos
  <2>2. last' = last
    BY <1>2
  <2> HIDE DEF last
  <2>3. soloer \in 0..last /\ soloers \in [0..last -> Soloer]
        /\ soloers[last].id = soloers[0].id
    BY <2>1 DEF LongTurnsTo
  <2>4. soloers[soloer].measures_to_go =
           (IF soloer = last THEN Total ELSE 12) - (decided - 12 * soloer)
    BY <2>1 DEF LongTurnsTo
  <2>5. soloers[soloer].measures_to_go \in Nat
    BY <2>3 DEF Soloer
  <2>6. CASE soloers[soloer].measures_to_go > 0
    <3>1. NextTurn = soloer
      BY <2>5, <2>6 DEF NextTurn
    <3>2. /\ soloers' \in [0..last -> Soloer]
          /\ soloers'[soloer].measures_to_go = LessOne(soloers[soloer].measures_to_go)
          /\ \A k \in 0..last : soloers'[k].id = soloers[k].id
          /\ \A k \in 0..last : k # soloer => soloers'[k] = soloers[k]
      BY <1>1, <2>1, <2>3, <3>1, MeasureTaken
    <3>3. soloers'[soloer].measures_to_go = soloers[soloer].measures_to_go - 1
      BY <2>5, <2>6, <3>2 DEF LessOne
    <3>4. soloer' = soloer
      BY <1>1, <3>1
    <3>5. soloers'[soloer'].measures_to_go =
            (IF soloer' = last' THEN Total' ELSE 12) - (decided' - 12 * soloer')
      BY <1>1, <1>2, <1>3, <2>2, <2>3, <2>4, <3>3, <3>4
    <3>6. \A k \in 0..last : k > soloer => soloers'[k] = soloers[k]
      BY <2>3, <3>2
    <3>7. \A k \in 0..last' : k > soloer' =>
            soloers'[k].measures_to_go = (IF k = last' THEN Total' ELSE 12)
      BY <1>2, <2>1, <2>2, <3>4, <3>6 DEF LongTurnsTo
    <3>8. soloer' = 0 \/ decided' > 12 * soloer'
      BY <1>1, <1>3, <2>1, <2>3, <3>4 DEF LongTurnsTo
    <3>9. LongTurnsTo(last)'
      BY <2>1, <2>2, <2>3, <3>2, <3>4, <3>5, <3>7, <3>8 DEF LongTurnsTo
    <3>10. LongSolos'
      BY <2>1, <2>2, <3>9 DEF LongSolos, last
    <3> QED
      BY <1>5, <2>3, <3>2, <3>4, <3>10 DEF SoloInv, Soloist
  <2>7. CASE soloers[soloer].measures_to_go = 0
    <3>1. soloer # last
      BY <1>3, <2>1, <2>4, <2>7
    <3>2. NextTurn = soloer + 1 /\ soloer + 1 \in 0..last /\ decided = 12 * (soloer + 1)
      BY <1>3, <2>1, <2>3, <2>4, <2>7, <3>1 DEF NextTurn
    <3>3. soloers[soloer + 1].measures_to_go = (IF soloer + 1 = last THEN Total ELSE 12)
      BY <2>1, <2>3, <3>2 DEF LongTurnsTo
    <3>4. /\ soloers' \in [0..last -> Soloer]
          /\ soloers'[soloer + 1].measures_to_go = LessOne(soloers[soloer + 1].measures_to_go)
          /\ \A k \in 0..last : soloers'[k].id = soloers[k].id
          /\ \A k \in 0..last : k # soloer + 1 => soloers'[k] = soloers[k]
      BY <1>1, <2>1, <2>3, <3>2, MeasureTaken
    <3>5. soloer' = soloer + 1
      BY <1>1, <3>2
    <3>6. soloers'[soloer'].measures_to_go =
            (IF soloer' = last' THEN Total' ELSE 12) - (decided' - 12 * soloer')
      <4>1. Total > 0 /\ Total' = Total /\ last' = last /\ decided' = 12 * (soloer + 1) + 1
        BY <1>1, <1>2, <1>3, <2>1, <2>2, <3>2
      <4>2. soloers'[soloer + 1].measures_to_go = soloers[soloer + 1].measures_to_go - 1
        BY <1>3, <3>3, <3>4, <4>1 DEF LessOne
      <4>3. decided' - 12 * soloer' = 1
        BY <2>3, <3>5, <4>1
      <4> QED
        BY <1>3, <3>3, <3>5, <4>1, <4>2, <4>3
    <3>7. \A k \in 0..last : k > soloer + 1 => soloers'[k] = soloers[k] /\ k > soloer
      BY <2>3, <3>4
    <3>8. \A k \in 0..last' : k > soloer' =>
            soloers'[k].measures_to_go = (IF k = last' THEN Total' ELSE 12)
      BY <1>2, <2>1, <2>2, <3>5, <3>7 DEF LongTurnsTo
    <3>9. decided' > 12 * soloer'
      BY <1>1, <1>3, <2>3, <3>2, <3>5
    <3>10. soloer' \in 0..last'
      BY <2>2, <3>2, <3>5
    <3>11. LongTurnsTo(last)'
      BY <2>1, <2>2, <2>3, <3>4, <3>6, <3>8, <3>9, <3>10 DEF LongTurnsTo
    <3>12. LongSolos'
      BY <2>1, <2>2, <3>11 DEF LongSolos, last
    <3>13. current_measure_num = 0
      BY <1>3, <1>4, <2>3, <3>2
    <3> QED
      BY <1>5, <3>12, <3>13 DEF SoloInv
  <2> QED
    BY <2>5, <2>6, <2>7
<1> QED
  BY <1>4, <1>6, <1>7, <1>8

LEMMA NextSolo ==
  ASSUME TwelveBars, ScheduleInv, PlaceInv, SoloInv, [Next]_vars
  PROVE  /\ SoloInv'
         /\ current_measure_num # 0 => Soloist' = Soloist
<1>1. CASE SameGenre
  BY <1>1, DecideKeepsSolo DEF SameGenre, Asked, PlaceInv
<1>2. CASE PickSubgenre
  BY <1>2, DecideKeepsSolo DEF PickSubgenre, Asked, PlaceInv
<1>3. CASE PickGenre
  BY <1>3, DecideKeepsSolo DEF PickGenre, Asked, PlaceInv
<1>4. CASE PickMissingPattern
  BY <1>4 DEF PickMissingPattern, Crash, SoloInv, Soloist
<1>5. CASE Ended \/ UNCHANGED vars
  <2>1. UNCHANGED vars
    BY <1>5 DEF Ended
  <2> QED
    BY <2>1 DEF vars, SoloInv, NoSolos, ShortSolos, LongSolos, LongTurnsTo, Total, asked, Soloist
<1> QED
  BY <1>1, <1>2, <1>3, <1>4, <1>5 DEF Next

MindInv == ScheduleInv /\ PlaceInv /\ SoloInv

LEMMA SoloFrames == ASSUME TwelveBars PROVE MindInv => LeaderFrames
<1> SUFFICES ASSUME MindInv, running, (Total \div SectionLength) >= 3, decided > 0,
                    decided <= SectionLength
                      \/ decided > ((Total \div SectionLength) - 1) * SectionLength
             PROVE  Soloist = soloers[0].id
  BY DEF LeaderFrames, Total
<1>1. SectionLength = 12
  BY LoadedTwelve DEF MindInv, PlaceInv, SectionLength, current_pattern
<1>2. Total \in Nat /\ decided \in Nat
  BY Asking DEF MindInv, ScheduleInv, Total
<1>3. CASE NoSolos
  BY <1>3 DEF NoSolos, Soloist
<1>4. CASE ShortSolos
  BY <1>1, <1>2, <1>4 DEF ShortSolos
<1>5. CASE LongSolos
  <2> DEFINE last == (Total \div 12) - 1
  <2>1. LongTurnsTo(last) /\ last \in Nat /\ last >= 2
        /\ (decided <= 12 \/ decided > 12 * last)
    BY <1>1, <1>2, <1>5 DEF LongSolos
  <2> HIDE DEF last
  <2>2. soloer \in 0..last /\ soloers \in [0..last -> Soloer]
        /\ soloers[last].id = soloers[0].id
        /\ (soloer = 0 \/ decided > 12 * soloer)
        /\ soloers[soloer].measures_to_go =
             (IF soloer = last THEN Total ELSE 12) - (decided - 12 * soloer)
    BY <2>1 DEF LongTurnsTo
  <2>3. soloers[soloer].measures_to_go \in Nat
    BY <2>2 DEF Soloer
  <2>4. soloer = 0 \/ soloer = last
    BY <1>2, <2>1, <2>2, <2>3
  <2> QED
    BY <2>2, <2>4 DEF Soloist
<1> QED
  BY <1>3, <1>4, <1>5 DEF MindInv, SoloInv

LEMMA MindAlways == ASSUME TwelveBars PROVE Spec => []MindInv
<1>1. Init => MindInv
  BY InitSchedule, InitPlace, InitSolo DEF MindInv
<1>2. MindInv /\ [Next]_vars => MindInv'
  BY NextSchedule, NextPlace, NextSolo DEF MindInv
<1> QED
  BY <1>1, <1>2, PTL DEF Spec

(* With patterns of twelve measures a piece of three sections or more       *)
(* begins and ends with the same soloist, whichever genres are loaded and   *)
(* whichever soloists are drawn in between.                                 *)
THEOREM LeaderBeginsAndEnds == ASSUME TwelveBars PROVE Spec => []LeaderFrames
BY MindAlways, SoloFrames, PTL

(* With patterns of twelve measures the soloist changes only at the         *)
(* beginning of a section: the count of the turns in director_core.cpp and  *)
(* the place in the pattern in director_main.cpp go together.               *)
THEOREM SoloistBySection == ASSUME TwelveBars PROVE Spec => SoloBySection
<1>1. MindInv /\ [Next]_vars =>
        [OneLength(asked.db) /\ current_measure_num # 0 => Soloist' = Soloist]_vars
  BY NextSolo DEF MindInv
<1> QED
  BY <1>1, MindAlways, PTL DEF Spec, SoloBySection

-----------------------------------------------------------------------------
(* Types.                                                                   *)

LEMMA ModMask ==
  ASSUME NEW mask \in SUBSET Pitch, NEW rotation \in Int
  PROVE  RotateMask(mask, rotation) \in SUBSET Pitch
<1>1. ASSUME NEW p \in Pitch
      PROVE  (p + rotation) % 12 \in Pitch
  BY DEF Pitch
<1> QED
  BY <1>1 DEF RotateMask

LEMMA ModeType == ASSUME NEW mode PROVE ModeToChord(mode) \in SUBSET Pitch
  BY DEF ModeToChord, CHORD_MINOR, CHORD_MAJOR, CHORD_DELTA, CHORD_SEVENTH, Pitch

LEMMA EverywhereType ==
  ASSUME NEW note \in Int, NEW mode \in SUBSET Pitch
  PROVE  Everywhere(note, mode) \in [Beat -> Chord]
<1>1. note % 12 \in Pitch
  BY DEF Pitch
<1> QED
  BY <1>1 DEF Everywhere, Chord

LEMMA RootType == ASSUME NEW m \in MeasurePattern PROVE Root(m) \in Pitch
<1>1. m.steps \in Seq(Pitch) /\ Len(m.steps) \in Nat \ {0}
  BY DEF MeasurePattern
<1>2. m.steps[1] \in Pitch /\ (Len(m.steps) = 2 => m.steps[2] \in Pitch)
  BY <1>1
<1> QED
  BY <1>1, <1>2 DEF Root, CheckCadenza, Pitch

LEMMA PatternChordsType ==
  ASSUME NEW m \in MeasurePattern, NEW key \in Pitch
  PROVE  PatternChords(m, key) \in [Beat -> Chord]
<1>1. m.steps \in Seq(Pitch) /\ Len(m.steps) \in Nat \ {0}
  BY DEF MeasurePattern
<1>2. DOMAIN PatternChords(m, key) = Beat
  BY DEF PatternChords
<1>3. ASSUME NEW b \in Beat
      PROVE  PatternChords(m, key)[b] \in Chord
  <2> DEFINE k == (b \div Lasts(Len(m.steps))) + 1
  <2>1. k \in 1..Len(m.steps)
    BY <1>1, ChordOfBeat
  <2>2. PatternChords(m, key)[b] = [note |-> (m.steps[k] + key) % 12,
                                    mode |-> ModeToChord(m.modes[k])]
    BY PatternChordOf
  <2> HIDE DEF k
  <2>3. m.steps[k] \in Pitch
    BY <1>1, <2>1
  <2>4. (m.steps[k] + key) % 12 \in Pitch
    BY <2>3 DEF Pitch
  <2> QED
    BY <2>2, <2>4, ModeType DEF Chord
<1>4. PatternChords(m, key) = [b \in Beat |-> PatternChords(m, key)[b]]
  BY DEF PatternChords
<1> QED
  BY <1>3, <1>4

LEMMA SubstitutesType ==
  ASSUME NEW step \in Pitch, NEW key \in Pitch, NEW conf
  PROVE  Substitutes(step, key, conf) \subseteq [Beat -> Chord]
<1>1. step \in Int /\ key \in Int
  BY DEF Pitch
<1>2. CHORD_MAJOR \union CHORD_SEVENTH \in SUBSET Pitch /\ CHORD_MINOR \in SUBSET Pitch
      /\ CHORD_MINOR \union CHORD_SEVENTH \in SUBSET Pitch
  BY DEF CHORD_MAJOR, CHORD_MINOR, CHORD_SEVENTH, Pitch
<1>3. Tritone(step, key) \in [Beat -> Chord] /\ TonalZoneChord(step, key) \in [Beat -> Chord]
  BY <1>1, <1>2, EverywhereType DEF Tritone, TonalZoneChord
<1>4. Cadenza(step, key) \in [Beat -> Chord]
  <2>1. (key + step + 2) % 12 \in Pitch /\ (key + step + 7) % 12 \in Pitch
    BY <1>1 DEF Pitch
  <2> QED
    BY <1>2, <2>1 DEF Cadenza, Chord
<1>5. RandomChord(conf) \subseteq [Beat -> Chord]
  BY HarmonyAssumption DEF RandomChord
<1> QED
  BY <1>3, <1>4, <1>5 DEF Substitutes

LEMMA ChordsType ==
  ASSUME NEW m \in MeasurePattern, tonality \in Pitch
  PROVE  Chords(m) \subseteq [Beat -> Chord]
  BY RootType, SubstitutesType, PatternChordsType DEF Chords

LEMMA CentresType == ASSUME NEW measures, NEW id PROVE Centres(measures, id) \subseteq Pitch
  BY DEF Centres, Winners

LEMMA MatchingType ==
  ASSUME NEW scales \in SUBSET (SUBSET Pitch), NEW chord, NEW note \in Pitch, NEW key
  PROVE  MatchingScales(scales, chord, note, key) \subseteq SUBSET Pitch
<1>1. Suitable(scales, chord, note, key) \subseteq SUBSET Pitch
  BY DEF Suitable
<1>2. ASSUME NEW s \in scales
      PROVE  RotateMask(s, note) \in SUBSET Pitch
  <2>1. note \in Int
    BY DEF Pitch
  <2> QED
    BY <2>1, ModMask
<1> QED
  BY <1>1, <1>2 DEF MatchingScales

Zone == [note : Pitch, scale : SUBSET Pitch]

LEMMA ZonesType ==
  ASSUME NEW m, NEW chords, NEW centre \in Pitch, NEW key \in Pitch,
         NEW scales \in SUBSET (SUBSET Pitch),
         NEW zones \in TonalZones(m, chords, centre, key, scales)
  PROVE  zones \in [Beat -> Zone]
<1> DEFINE note == (centre + key) % 12
           reference == [note |-> (Root(m) + key) % 12,
                         mode |-> chords[IF Len(m.steps) = 1 THEN 0 ELSE Beats - 1].mode]
           Of(b) == MatchingScales(scales, chords[b], note, key)
<1>1. note \in Pitch
  BY DEF Pitch
<1>2. CASE OneChord(m)
  <2>1. PICK s \in MatchingScales(scales, reference, note, key) :
               zones = [b \in Beat |-> [note |-> note, scale |-> s]]
    BY <1>2 DEF TonalZones
  <2>2. s \in SUBSET Pitch
    BY <1>1, MatchingType
  <2> QED
    BY <1>1, <2>1, <2>2 DEF Zone
<1>3. CASE ~OneChord(m)
  <2>1. PICK f \in [Beat -> UNION {Of(b) : b \in Beat}] :
               /\ \A b \in Beat : f[b] \in Of(b)
               /\ zones = [b \in Beat |-> [note |-> note, scale |-> f[b]]]
    BY <1>3 DEF TonalZones
  <2>2. ASSUME NEW b \in Beat
        PROVE  f[b] \in SUBSET Pitch
    <3>1. Of(b) \subseteq SUBSET Pitch
      BY <1>1, MatchingType
    <3> QED
      BY <2>1, <3>1
  <2> QED
    BY <1>1, <2>1, <2>2 DEF Zone
<1> QED
  BY <1>2, <1>3

TypeInv ==
  /\ tonality \in Tonalities
  /\ running \in BOOLEAN
  /\ genre \in DOMAIN asked.db
  /\ running => prev_mood \in 0..current_pattern.moods - 1
  /\ decided > 0 => measure.chords \in [Beat -> Chord] /\ measure.zones \in [Beat -> Zone]

LEMMA TypesTogether == ScheduleInv /\ PlaceInv /\ TypeInv => TypeOK
<1> SUFFICES ASSUME ScheduleInv, PlaceInv, TypeInv
             PROVE  TypeOK
  OBVIOUS
<1>1. DOMAIN soloers \subseteq Nat /\ Range(soloers) \subseteq Soloer /\ soloer \in Nat
  <2>1. PICK last \in Nat : soloers \in [0..last -> Soloer] /\ soloer \in 0..last
    BY DEF ScheduleInv
  <2> QED
    BY <2>1 DEF Range
<1>2. current_measure_num \in Nat /\ piece \in DOMAIN Pieces
      /\ (running => subgenre \in DOMAIN asked.db[genre].patterns)
  BY DEF PlaceInv, Loaded
<1>3. decided \in 0..asked.measures_count
  BY DEF ScheduleInv
<1> QED
  BY <1>1, <1>2, <1>3 DEF TypeInv, TypeOK, Zone

LEMMA InitTypes == Init => TypeInv
<1> SUFFICES ASSUME Init
             PROVE  TypeInv
  OBVIOUS
<1>1. piece \in DOMAIN Pieces /\ genre = asked.genre /\ subgenre = asked.subgenre
      /\ prev_mood = 0 /\ tonality \in Tonalities /\ running = TRUE /\ decided = 0
  BY DEF Init
<1>2. genre \in DOMAIN asked.db /\ current_pattern.moods \in Nat \ {0}
  BY <1>1, Asking DEF IsDatabase, current_pattern, Pattern
<1> QED
  BY <1>1, <1>2 DEF TypeInv

LEMMA DecideTypes ==
  ASSUME TwelveBars, PlaceInv, TypeInv, NEW g \in DOMAIN asked.db, NEW s, Loaded(g, s),
         NEW mood \in 0..Pattern(g, s).moods - 1, running, Decide(g, s, mood)
  PROVE  TypeInv'
<1> DEFINE measures == Pattern(g, s).measures
           m == measures[current_measure_num + 1]
<1>1. PICK chords \in Chords(m), centre \in Centres(measures, current_measure_num) :
        \E zones \in TonalZones(m, chords, centre, tonality, asked.db[g].scales) :
          measure' = [chords |-> chords, zones |-> zones, of |-> m]
  BY DEF Decide
<1>2. PICK zones \in TonalZones(m, chords, centre, tonality, asked.db[g].scales) :
        measure' = [chords |-> chords, zones |-> zones, of |-> m]
  BY <1>1
<1>3. /\ piece' = piece /\ tonality' = tonality /\ running' = running
      /\ genre' = g /\ subgenre' = s
      /\ prev_mood' \in Moods(mood, Pattern(g, s).moods)
  BY DEF Decide
<1>4. m \in MeasurePattern
  BY MeasureDecided
<1> HIDE DEF m
<1>5. tonality \in Pitch /\ tonality \in Tonalities
  BY MindAssumption DEF TypeInv
<1>6. asked.db[g].scales \in SUBSET (SUBSET Pitch)
  BY Asking DEF PlaceInv, IsDatabase
<1>7. chords \in [Beat -> Chord]
  BY <1>1, <1>4, <1>5, ChordsType
<1>8. zones \in [Beat -> Zone]
  <2>1. centre \in Pitch
    BY <1>1, CentresType
  <2> QED
    BY <2>1, <1>2, <1>5, <1>6, ZonesType
<1>9. measure'.chords \in [Beat -> Chord] /\ measure'.zones \in [Beat -> Zone]
  BY <1>2, <1>7, <1>8
<1>10. asked' = asked
  BY <1>3 DEF asked
<1>11. prev_mood' \in 0..Pattern(g, s).moods - 1
  BY <1>3 DEF Moods
<1>12. current_pattern' = Pattern(g, s)
  BY <1>3, <1>10 DEF current_pattern, Pattern
<1> QED
  BY <1>3, <1>5, <1>9, <1>10, <1>11, <1>12 DEF TypeInv

LEMMA MoodAfter ==
  ASSUME piece \in DOMAIN Pieces, NEW g \in DOMAIN asked.db, NEW s, Loaded(g, s)
  PROVE  MoodAfterLoad \in 0..Pattern(g, s).moods - 1
<1>1. Pattern(g, s).moods \in Nat \ {0}
  BY Asking DEF IsDatabase, Loaded, Pattern
<1> QED
  BY <1>1 DEF MoodAfterLoad

LEMMA NextTypes ==
  ASSUME TwelveBars, PlaceInv, TypeInv, [Next]_vars
  PROVE  TypeInv'
<1>1. CASE SameGenre
  <2>1. running /\ prev_mood \in 0..Pattern(genre, subgenre).moods - 1
    BY <1>1 DEF SameGenre, Asked, TypeInv, current_pattern
  <2> QED
    BY <1>1, <2>1, DecideTypes DEF SameGenre, PlaceInv
<1>2. CASE PickSubgenre
  <2>1. PICK s : Loaded(genre, s) /\ Decide(genre, s, MoodAfterLoad) /\ running
    BY <1>2 DEF PickSubgenre, Asked
  <2>2. genre \in DOMAIN asked.db /\ piece \in DOMAIN Pieces
    BY <2>1 DEF PlaceInv
  <2> QED
    BY <2>1, <2>2, MoodAfter, DecideTypes
<1>3. CASE PickGenre
  <2>1. PICK g \in DOMAIN asked.db :
               Loaded(g, subgenre) /\ Decide(g, subgenre, MoodAfterLoad) /\ running
    BY <1>3 DEF PickGenre, Asked
  <2> QED
    BY <2>1, MoodAfter, DecideTypes DEF PlaceInv
<1>4. CASE PickMissingPattern
  <2>1. PICK g \in DOMAIN asked.db : \E s : Crash(g, s)
    BY <1>4 DEF PickMissingPattern, TypeInv
  <2>2. asked' = asked /\ genre' = g /\ running' = FALSE
        /\ UNCHANGED <<tonality, decided, measure>>
    BY <2>1 DEF Crash, asked
  <2> QED
    BY <2>2 DEF TypeInv
<1>5. CASE Ended \/ UNCHANGED vars
  <2>1. UNCHANGED vars
    BY <1>5 DEF Ended
  <2> QED
    BY <2>1 DEF vars, TypeInv, current_pattern, Pattern, asked
<1> QED
  BY <1>1, <1>2, <1>3, <1>4, <1>5 DEF Next

(* With patterns of twelve measures: every chord decided is a chord of the  *)
(* pitches of an octave, every scale a set of them, the mood is one of the  *)
(* moods of the pattern that is loaded, and no count of a turn leaves the   *)
(* range of an unsigned int.                                                *)
THEOREM MindTypes == ASSUME TwelveBars PROVE Spec => []TypeOK
<1>1. Init => ScheduleInv /\ PlaceInv /\ TypeInv
  BY InitSchedule, InitPlace, InitTypes
<1>2. ScheduleInv /\ PlaceInv /\ TypeInv /\ [Next]_vars => (ScheduleInv /\ PlaceInv /\ TypeInv)'
  BY NextSchedule, NextPlace, NextTypes
<1> QED
  BY <1>1, <1>2, TypesTogether, PTL DEF Spec
=============================================================================
