SPECIFICATION Spec
CONSTANTS
  BlockSize = 2
  FadeLen = 5
  Machine = {kick, snare, hihat}
  FirstMachine = kick
  Key = {k1, k2}
  RootNote = k1
  NVoices = 2
  MaxNotes = 3
  MaxInputs = 4
  None = None
\* The code keeps none of these; TLC shows it for one at a time.
INVARIANT LocksPerVoice
\* INVARIANT SpanPlaysOldState
\* INVARIANT NoteAfterSwitchHeard
