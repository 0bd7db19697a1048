--------------------------- MODULE MCDirectorMind ---------------------------
(* The blues of db.sql and example_.improveesation.rc for the runs, and two  *)
(* small databases: patterns of two measures, and of one and two.           *)
EXTENDS DirectorMind, TLC

One(step, mode) == [steps |-> <<step>>, modes |-> <<mode, "">>]

Two(step1, mode1, step2, mode2) ==
  [steps |-> <<step1, step2>>, modes |-> <<mode1, mode2>>]

Row(measures, moods) == [measures |-> measures, moods |-> moods]

NoRow == Row(<<>>, 1)

Base ==
  << One(0, "7"), One(0, "7"), One(0, "7"), One(0, "7"), One(5, "7"), One(5, "7"),
     One(0, "7"), One(0, "7"), One(7, "7"), One(7, "7"), One(0, "7"), One(0, "7") >>

Bebop ==
  << One(0, "7"), One(5, "7"), One(0, "7"), Two(7, "m7", 0, "7"), One(5, "7"),
     One(6, "m7"), One(0, "7"), Two(4, "m7", 9, "7"), One(2, "m7"), One(7, "7"),
     Two(4, "m7", 9, "7"), Two(2, "m7", 7, "7") >>

Coltrane ==
  << Two(0, "7", 3, "7"), Two(8, "7+", 11, "7"), Two(4, "7+", 7, "7"),
     Two(0, "7", 0, "7"), One(5, "7"), One(6, "m7"), One(0, "7"),
     Two(10, "m7", 3, "7"), One(2, "m7"), One(7, "7"), Two(4, "m7", 9, "7"),
     Two(2, "m7", 7, "7") >>

BluesScales == {{0, 3, 5, 7, 10}, BLUES_SCALE, {0, 2, 3, 4, 7, 9}}

MajorScale == {0, 2, 4, 5, 7, 9, 11}

Blues == [patterns |-> ("base" :> Row(Base, 2)) @@ ("bebop" :> Row(Bebop, 2))
                         @@ ("coltrane" :> Row(Coltrane, 2)),
          scales |-> BluesScales]

Jazz == [patterns |-> ("free" :> NoRow) @@ ("smooth" :> NoRow) @@ ("swing" :> NoRow),
         scales |-> {MajorScale}]

Library == ("blues" :> Blues) @@ ("jazz" :> Jazz)

Turnaround(moods) == Row(<<Two(2, "m7", 7, "7"), One(0, "7+")>>, moods)

Plagal(moods) == Row(<<Two(7, "7", 0, "7+"), One(5, "")>>, moods)

Short(moods) == Row(<<One(0, "")>>, moods)

(* Two genres with a subgenre in common.                                    *)
Small(a, b) ==
  ("one" :> [patterns |-> ("a" :> a) @@ ("b" :> b), scales |-> {MajorScale, BLUES_SCALE}])
    @@ ("other" :> [patterns |-> ("b" :> b) @@ ("c" :> NoRow), scales |-> {MajorScale}])

(* example_.improveesation.rc, with the subgenre rate "in regular use".     *)
MCConf ==
  [change_subgenre |-> 75, change_genre_on_one |-> 30, change_genre_on_any |-> 0,
   change_mood_on_one |-> 10, change_mood_on_any |-> 1,
   change_chord_on_one |-> 0, change_chord_on_any |-> 5, random_multi_chord |-> 5,
   chord_tritone |-> 30, chord_cadenza |-> 60, chord_tonal_zone |-> 90]

(* The same without any change.                                             *)
Steady == [option \in DOMAIN MCConf |-> 0]

Piece(conf, db, g, s, sololist, measures) ==
  [db |-> db, conf |-> conf, genre |-> g, subgenre |-> s, sololist |-> sololist,
   measures_count |-> measures]

MCPieces ==
  ("blues" :> Piece(MCConf, Library, "blues", "bebop", <<66>>, 41))
    @@ ("long" :> Piece(Steady, Small(Turnaround(1), Plagal(2)), "one", "a", <<1, 66>>, 21))
    @@ ("uneven" :> Piece(MCConf, Small(Turnaround(1), Short(2)), "one", "a", <<66>>, 7))
    @@ ("short" :> Piece(MCConf, Library, "blues", "bebop", <<66>>, 13))
    @@ ("nobody" :> Piece(MCConf, Small(Turnaround(1), Plagal(2)), "one", "a", <<>>, 3))

DefaultPieces == "default" :> Piece(MCConf, Library, "blues", "bebop", <<66>>, 12)

MCRandomChords ==
  { [note |-> 0, mode |-> CHORD_MINOR \union CHORD_DELTA],
    [note |-> 6, mode |-> CHORD_MAJOR] }
==============================================================================
