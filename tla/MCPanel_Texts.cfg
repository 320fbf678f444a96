SPECIFICATION Spec
CONSTANTS
    NTracks = 2
    NPages = 2
    MaxDown = 2
    None = None
\* The code keeps none of these; TLC shows it for one at a time.
INVARIANT EraseIsHeld
\* PROPERTY LockTargetIsTheTrig
\* INVARIANT SelectedPublished
\* INVARIANT ArmedIsHeld
