SPECIFICATION Spec
CONSTANTS
    NTracks = 2
    NPages = 1
    MaxDown = 2
    None = None
INVARIANTS
  RecordingMatches
  LatchEscapable
  LocksOnTarget
PROPERTIES
  StepOncePerPress
