SPECIFICATION FairSpec
CONSTANTS
    NTracks = 2
    RowLen = 2
    Edited = {0}
    Playhead = {0, 3}
    LoadedLast = TRUE
    MaxEvents = 1
    MaxPending = 1
    None = None
INVARIANTS
  StepsShown
  TracksShown
  TwinsAgree
PROPERTIES
  FlashEnds
