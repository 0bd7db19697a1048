\* Three rounds of a measure of three atoms.
CONSTANTS
  Bands <- MCBands
  Parts <- MCParts
  Pitches = {60, 61}
  REST = 128
  MAX_CHORD_SIZE = 2
  Atoms = 3
  Measures = 3
  MIDI_CHANNELS = 5
  MIDI_DRUM_CHANNEL = 3
  INSTRUMENT_DRUM = 127
SPECIFICATION Spec
INVARIANTS FileComplete AllQuiet InTime TrackTime HeldNotes OwnTimbre
