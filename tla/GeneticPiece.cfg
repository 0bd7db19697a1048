\* Two measures of four semiquavers; room for four notes at first.
CONSTANTS
  Q = 4
  Bars = 2
  StartSize = 4
  GoalSizes = {1, 3}
SPECIFICATION Spec
INVARIANTS TypeOK NotesFit WellCut SameMusic
