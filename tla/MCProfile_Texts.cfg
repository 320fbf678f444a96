\* The code keeps none of these; TLC shows it for one at a time:
\* FlashEndsStopped and FlashEndsPlaying with LoadedLast = TRUE, FlashLasts with LoadedLast = FALSE.
SPECIFICATION FairSpec
CONSTANTS
    NTracks = 2
    RowLen = 2
    Edited = {0}
    Playhead = {0, 3}
    LoadedLast = TRUE
\*  LoadedLast = FALSE
    MaxEvents = 1
    MaxPending = 1
    None = None
PROPERTY FlashEndsStopped
\* PROPERTY FlashEndsPlaying
\* PROPERTY FlashLasts
