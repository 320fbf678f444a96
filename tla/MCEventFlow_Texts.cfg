SPECIFICATION FlowSpec
CONSTANTS
  NumSlots = 2
  Routes <- MCPair
  BlockSize = 2
  Offset = {0, 2, 5}
  Priority = {2}
  MaxBurst = 3
  MaxStaged = 1
  MaxEvents = 3
\* The code keeps none of these; TLC shows it for one at a time.
INVARIANT OnTime
\* INVARIANT OrderKept
